----------------------------- MODULE DiffServe -----------------------------
(***************************************************************************)
(* How stakers synchronise the cores of their consensus instances: each    *)
(* asks the others in turn for what it lacks (sync_core), and answers what *)
(* get_diff puts into a bounded channel while a decider runs.  Nobody      *)
(* reads the channel between rounds, so requests of one round may be       *)
(* answered in another.                                                    *)
(*                                                                         *)
(* An instance is known by its nonce, the height of the base.  A core is   *)
(* the set of messages it holds, each named by its author and nonce (one   *)
(* per author); the summary in a request only spares messages the asker    *)
(* has, and is left out.  What streamlette does with them is external.     *)
(* An answer is applied in the step that makes it: in between nothing      *)
(* touches the asker's core, and if its round ends the answer is dropped   *)
(* like its request.                                                       *)
(***************************************************************************)
EXTENDS Naturals, Sequences

CONSTANTS
    Staker,
    Cap,         \* of the channel, 100
    NoAsk, Dead, \* no request under way; a request whose asker has gone
    MaxRounds,   \* bound: rounds that end
    MaxSlow      \* bound: answers of a running decider that take too long

ASSUME ServeAssumption == Cap \in Nat /\ MaxRounds \in Nat /\ MaxSlow \in Nat

Message == [by : Staker, nonce : Nat]

VARIABLES
    height,    \* per staker: of its base, the nonce of its instance
    running,   \* per staker: a decider is there (until its round ends)
    core,      \* per staker: the messages of its instance
    chan,      \* per staker: the channel, [from, nonce] or Dead
    ask,       \* per staker: whom its request went to, or NoAsk
    rounds, slow

vars == <<height, running, core, chan, ask, rounds, slow>>

Own(s) == [by |-> s, nonce |-> height[s]]

\* The asker drops its call: whoever answers it answers nobody.
Abandon(s) ==
    /\ ask' = [ask EXCEPT ![s] = NoAsk]
    /\ chan' = [r \in Staker |-> [i \in DOMAIN chan[r] |->
            IF chan[r][i] = Dead \/ chan[r][i].from # s THEN chan[r][i] ELSE Dead]]

-----------------------------------------------------------------------------
\* Decider::new and tick_to_end, with the own proposal.
Begin(s) ==
    /\ ~running[s]
    /\ running' = [running EXCEPT ![s] = TRUE]
    /\ core' = [core EXCEPT ![s] = {Own(s)}]
    /\ UNCHANGED <<height, chan, ask, rounds, slow>>

\* The round ends, with new blocks in the storage by the next one or without;
\* decider and _spammer are dropped.
End(s) ==
    /\ running[s] /\ rounds < MaxRounds
    /\ running' = [running EXCEPT ![s] = FALSE]
    /\ core' = [core EXCEPT ![s] = {}]
    /\ \E blocks \in 0 .. 2 : height' = [height EXCEPT ![s] = @ + blocks]
    /\ Abandon(s)
    /\ rounds' = rounds + 1 /\ UNCHANGED slow

\* main_loop calls get_diff of one of its routes.  If the channel is full,
\* try_send fails and the answer is empty at once: no step.
Ask(s, r) ==
    /\ running[s] /\ ask[s] = NoAsk /\ r # s
    /\ Len(chan[r]) < Cap
    /\ chan' = [chan EXCEPT ![r] = Append(@, [from |-> s, nonce |-> height[s]])]
    /\ ask' = [ask EXCEPT ![s] = r]
    /\ UNCHANGED <<height, running, core, rounds, slow>>

\* The request at the head of the channel is taken out and answered; nobody
\* waits for a dead one.
Answer(r, diff) ==
    /\ running[r] /\ chan[r] # <<>>
    /\ chan' = [chan EXCEPT ![r] = Tail(@)]
    /\ LET req == Head(chan[r])
       IN  IF req = Dead THEN UNCHANGED <<core, ask>>
           ELSE /\ ask' = [ask EXCEPT ![req.from] = NoAsk]
                /\ core' = [core EXCEPT ![req.from] = @ \cup diff]
    /\ UNCHANGED <<height, running, rounds, slow>>

\* Mutated form of Respond: the nonce is not compared.
RespondAnyNonce(r) == Answer(r, core[r])

Diff(r, req) == IF req.nonce = height[r] THEN core[r] ELSE {}

\* Mutated form of Respond: not while a request of one's own is under way.
RespondInTurn(r) == ask[r] = NoAsk /\ Answer(r, Diff(r, Head(chan[r])))

\* respond_loop, which races main_loop; main_loop of the asker applies the
\* diff and goes on to the next route.
Respond(r) == Answer(r, Diff(r, Head(chan[r])))

\* Five seconds without an answer; the request stays in the channel.
Timeout(s) ==
    /\ ask[s] # NoAsk
    /\ IF running[ask[s]] THEN slow < MaxSlow /\ slow' = slow + 1
                             ELSE UNCHANGED slow
    /\ Abandon(s)
    /\ UNCHANGED <<height, running, core, rounds>>

-----------------------------------------------------------------------------
Init ==
    /\ height = [s \in Staker |-> 0] /\ running = [s \in Staker |-> FALSE]
    /\ core = [s \in Staker |-> {}] /\ chan = [s \in Staker |-> <<>>]
    /\ ask = [s \in Staker |-> NoAsk] /\ rounds = 0 /\ slow = 0

Next ==
    \E s \in Staker :
        \/ Begin(s) \/ End(s)
        \/ \E r \in Staker : Ask(s, r)
        \/ Respond(s) \/ Timeout(s)

Spec == Init /\ [][Next]_vars

\* Both loops run, timers fire, and every pass of main_loop tries every route.
\* Nothing makes rounds begin or end.
Fairness ==
    \A s \in Staker :
        /\ WF_vars(Respond(s)) /\ WF_vars(Timeout(s))
        /\ \A r \in Staker : SF_vars(Ask(s, r))

FairSpec == Spec /\ Fairness

-----------------------------------------------------------------------------
\* A core only holds messages of its own instance, although requests and
\* answers outlive rounds and the channel hands the requests of one round to
\* the decider of another.
OwnInstance == \A s \in Staker : \A m \in core[s] : m.nonce = height[s]

\* What a staker has to say reaches every staker in the same instance as long
\* as both stay in it: asking each other at the same time, requests left over
\* from other rounds, a full channel and third parties that do not answer do
\* not keep it away.
Spreads ==
    \A s, r \in Staker :
        LET Together == running[s] /\ running[r] /\ height[s] = height[r]
        IN  Together ~> (~Together \/ Own(s) \in core[r])
=============================================================================
