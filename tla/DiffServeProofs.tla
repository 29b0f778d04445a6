-------------------------- MODULE DiffServeProofs --------------------------
(***************************************************************************)
(* The cores of different instances never mix, for any stakers, any        *)
(* capacity of the channel and any number of rounds.                       *)
(*                                                                         *)
(* The nonce in a request says which instance it came from; that this is   *)
(* still the asker's instance when it is answered is what has to be        *)
(* carried along: an asker that leaves its instance drops its call, so     *)
(* that whoever answers the request answers nobody (LiveRequests).         *)
(***************************************************************************)
EXTENDS DiffServe, TLAPS

Request == [from : Staker, nonce : Nat]

ServeTypeOK ==
    /\ height \in [Staker -> Nat]
    /\ core \in [Staker -> SUBSET Message]
    /\ chan \in [Staker -> Seq(Request \cup {Dead})]

\* A request somebody waits for was made in the instance its asker is in.
LiveRequests ==
    \A r \in Staker : \A i \in 1 .. Len(chan[r]) :
        chan[r][i] # Dead => chan[r][i].nonce = height[chan[r][i].from]

ServeInv == ServeTypeOK /\ LiveRequests /\ OwnInstance

-----------------------------------------------------------------------------
\* What Abandon does to the channels: no request gets in or changes its
\* place, and those of s are dead.
LEMMA AbandonedChannels ==
    ASSUME ServeTypeOK, NEW s \in Staker, Abandon(s)
    PROVE  /\ chan' \in [Staker -> Seq(Request \cup {Dead})]
           /\ \A r \in Staker : \A i \in 1 .. Len(chan'[r]) :
                 /\ i \in 1 .. Len(chan[r])
                 /\ chan'[r][i] # Dead =>
                       /\ chan[r][i] # Dead /\ chan'[r][i] = chan[r][i]
                       /\ chan[r][i].from # s
<1> DEFINE kept(r, i) ==
             IF chan[r][i] = Dead \/ chan[r][i].from # s THEN chan[r][i] ELSE Dead
           Left(r) == [i \in DOMAIN chan[r] |-> kept(r, i)]
<1>1. chan' = [r \in Staker |-> Left(r)]
  BY DEF Abandon
<1>2. ASSUME NEW r \in Staker
      PROVE  Left(r) \in Seq(Request \cup {Dead}) /\ Len(Left(r)) = Len(chan[r])
  <2>1. chan[r] \in Seq(Request \cup {Dead})
    BY DEF ServeTypeOK
  <2>2. \A i \in 1 .. Len(chan[r]) : kept(r, i) \in Request \cup {Dead}
    BY <2>1
  <2>3. QED
    BY <2>1, <2>2
<1>3. ASSUME NEW r \in Staker, NEW i \in 1 .. Len(chan'[r])
      PROVE  i \in 1 .. Len(chan[r]) /\ chan'[r][i] = kept(r, i)
  <2>1. chan[r] \in Seq(Request \cup {Dead})
    BY DEF ServeTypeOK
  <2>2. QED
    BY <1>1, <1>2, <2>1
<1>4. QED
  BY <1>1, <1>2, <1>3

\* A fresh start.
LEMMA ServeInitInv == Init => ServeInv
BY DEF Init, ServeInv, ServeTypeOK, LiveRequests, OwnInstance

\* One case per action; the channels matter in Ask, Respond and Abandon.
LEMMA ServeStep == ServeInv /\ [Next]_vars => ServeInv'
<1> SUFFICES ASSUME ServeInv, [Next]_vars PROVE ServeInv'
  OBVIOUS
<1> USE DEF ServeInv, ServeTypeOK
<1>1. ASSUME NEW s \in Staker, Begin(s) PROVE ServeInv'
  <2>1. ServeTypeOK'
    BY <1>1 DEF Begin, Own, Message
  <2>2. LiveRequests'
    BY <1>1 DEF Begin, LiveRequests
  <2>3. OwnInstance'
    BY <1>1 DEF Begin, Own, OwnInstance
  <2>4. QED
    BY <2>1, <2>2, <2>3
<1>2. ASSUME NEW s \in Staker, End(s) PROVE ServeInv'
  <2>1. Abandon(s)
    BY <1>2 DEF End
  <2>2. PICK blocks \in 0 .. 2 : height' = [height EXCEPT ![s] = @ + blocks]
    BY <1>2 DEF End
  <2>3. ServeTypeOK'
    BY <1>2, <2>1, <2>2, AbandonedChannels DEF End
  <2>4. LiveRequests'
    <3> SUFFICES ASSUME NEW r \in Staker, NEW i \in 1 .. Len(chan'[r]),
                        chan'[r][i] # Dead
                 PROVE  chan'[r][i].nonce = height'[chan'[r][i].from]
      BY DEF LiveRequests
    <3>1. /\ i \in 1 .. Len(chan[r]) /\ chan[r][i] # Dead
          /\ chan'[r][i] = chan[r][i] /\ chan[r][i].from # s
      BY <2>1, AbandonedChannels
    <3>2. chan[r][i] \in Request
      BY <3>1
    <3>3. QED
      BY <2>2, <3>1, <3>2 DEF LiveRequests, Request
  <2>5. OwnInstance'
    BY <1>2, <2>2 DEF End, OwnInstance
  <2>6. QED
    BY <2>3, <2>4, <2>5
<1>3. ASSUME NEW s \in Staker, NEW r \in Staker, Ask(s, r) PROVE ServeInv'
  <2> DEFINE req == [from |-> s, nonce |-> height[s]]
  <2>1. req \in Request
    BY DEF Request
  <2>2. chan' = [chan EXCEPT ![r] = Append(chan[r], req)]
    BY <1>3 DEF Ask
  <2>3. ServeTypeOK'
    BY <1>3, <2>1, <2>2 DEF Ask
  <2>4. LiveRequests'
    <3> SUFFICES ASSUME NEW t \in Staker, NEW i \in 1 .. Len(chan'[t]),
                        chan'[t][i] # Dead
                 PROVE  chan'[t][i].nonce = height[chan'[t][i].from]
      BY <1>3 DEF LiveRequests, Ask
    <3>1. CASE t # r
      BY <3>1, <2>2 DEF LiveRequests
    <3>2. CASE t = r
      <4>1. chan[r] \in Seq(Request \cup {Dead})
        OBVIOUS
      <4>2. chan'[r] = Append(chan[r], req)
        BY <2>2
      <4>3. CASE i \in 1 .. Len(chan[r])
        <5>1. chan'[t][i] = chan[t][i]
          BY <3>2, <4>1, <4>2, <4>3
        <5>2. QED
          BY <3>2, <4>3, <5>1 DEF LiveRequests
      <4>4. CASE i \notin 1 .. Len(chan[r])
        <5> HIDE DEF req
        <5>1. chan'[t][i] = req
          BY <3>2, <4>1, <4>2, <4>4
        <5>2. QED
          BY <5>1 DEF req
      <4>5. QED
        BY <4>3, <4>4
    <3>3. QED
      BY <3>1, <3>2
  <2>5. OwnInstance'
    BY <1>3 DEF Ask, OwnInstance
  <2>6. QED
    BY <2>3, <2>4, <2>5
<1>4. ASSUME NEW r \in Staker, Respond(r) PROVE ServeInv'
  <2> DEFINE req == Head(chan[r])
             diff == Diff(r, req)
  <2>1. /\ chan[r] # <<>> /\ chan' = [chan EXCEPT ![r] = Tail(chan[r])]
        /\ UNCHANGED height
        /\ IF req = Dead THEN UNCHANGED core
           ELSE core' = [core EXCEPT ![req.from] = core[req.from] \cup diff]
    BY <1>4 DEF Respond, Answer
  <2>2. chan[r] \in Seq(Request \cup {Dead})
    OBVIOUS
  <2>3. /\ req = chan[r][1] /\ 1 \in 1 .. Len(chan[r])
        /\ req \in Request \cup {Dead} /\ Tail(chan[r]) \in Seq(Request \cup {Dead})
    BY <2>1, <2>2
  <2>4. req # Dead => req \in Request /\ req.nonce = height[req.from]
    BY <2>3 DEF LiveRequests
  <2>5. /\ diff \in SUBSET Message
        /\ req # Dead => \A m \in diff : m.nonce = height[req.from]
    <3>1. CASE req.nonce = height[r]
      <4>1. diff = core[r]
        BY <3>1 DEF Diff
      <4>2. QED
        BY <2>4, <3>1, <4>1 DEF OwnInstance
    <3>2. CASE req.nonce # height[r]
      BY <3>2 DEF Diff
    <3>3. QED
      BY <3>1, <3>2
  <2> HIDE DEF req, diff
  <2>6. ServeTypeOK'
    <3>1. core' \in [Staker -> SUBSET Message]
      <4>1. CASE req = Dead
        BY <2>1, <4>1
      <4>2. CASE req # Dead
        <5>1. req.from \in Staker
          BY <2>4, <4>2 DEF Request
        <5>2. core[req.from] \cup diff \in SUBSET Message
          BY <2>5, <5>1
        <5>3. core' = [core EXCEPT ![req.from] = core[req.from] \cup diff]
          BY <2>1, <4>2
        <5>4. core \in [Staker -> SUBSET Message]
          OBVIOUS
        <5> HIDE DEF ServeInv, ServeTypeOK
        <5>5. QED
          BY <5>1, <5>2, <5>3, <5>4
      <4>3. QED
        BY <4>1, <4>2
    <3>2. QED
      BY <2>1, <2>3, <3>1
  <2>7. LiveRequests'
    <3> SUFFICES ASSUME NEW t \in Staker, NEW i \in 1 .. Len(chan'[t]),
                        chan'[t][i] # Dead
                 PROVE  chan'[t][i].nonce = height[chan'[t][i].from]
      <4> HIDE DEF ServeInv, ServeTypeOK
      <4>1. height' = height
        BY <2>1
      <4>2. QED
        BY <4>1 DEF LiveRequests
    <3>1. CASE t # r
      BY <3>1, <2>1 DEF LiveRequests
    <3>2. CASE t = r
      <4>1. chan'[r] = Tail(chan[r])
        BY <2>1
      <4>2. i + 1 \in 1 .. Len(chan[r]) /\ chan'[r][i] = chan[r][i + 1]
        BY <2>1, <2>2, <3>2, <4>1
      <4>3. QED
        BY <3>2, <4>2 DEF LiveRequests
    <3>3. QED
      BY <3>1, <3>2
  <2>8. OwnInstance'
    <3>1. CASE req = Dead
      BY <2>1, <3>1 DEF OwnInstance
    <3>2. CASE req # Dead
      BY <2>1, <2>4, <2>5, <3>2 DEF OwnInstance, Request
    <3>3. QED
      BY <3>1, <3>2
  <2>9. QED
    BY <2>6, <2>7, <2>8
<1>5. ASSUME NEW s \in Staker, Timeout(s) PROVE ServeInv'
  <2>1. Abandon(s) /\ UNCHANGED <<height, core>>
    BY <1>5 DEF Timeout
  <2>2. ServeTypeOK'
    BY <2>1, AbandonedChannels
  <2>3. LiveRequests'
    <3> SUFFICES ASSUME NEW r \in Staker, NEW i \in 1 .. Len(chan'[r]),
                        chan'[r][i] # Dead
                 PROVE  chan'[r][i].nonce = height[chan'[r][i].from]
      BY <2>1 DEF LiveRequests
    <3>1. /\ i \in 1 .. Len(chan[r]) /\ chan[r][i] # Dead
          /\ chan'[r][i] = chan[r][i]
      BY <2>1, AbandonedChannels
    <3>2. QED
      BY <3>1 DEF LiveRequests
  <2>4. OwnInstance'
    BY <2>1 DEF OwnInstance
  <2>5. QED
    BY <2>2, <2>3, <2>4
<1>6. CASE UNCHANGED vars
  BY <1>6 DEF vars, LiveRequests, OwnInstance
<1>7. QED
  BY <1>1, <1>2, <1>3, <1>4, <1>5, <1>6 DEF Next

\* The messages of a core are of its own instance, for any stakers: the nonce
\* in a request and the asker's dropping of its call (get_diff, sync_core)
\* keep the instances apart although the channel outlives them.
THEOREM CoresStayApart == Spec => []OwnInstance
<1>1. ServeInv => OwnInstance
  BY DEF ServeInv
<1>2. QED
  BY <1>1, ServeInitInv, ServeStep, PTL DEF Spec
=============================================================================
