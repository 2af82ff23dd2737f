-------------------------- MODULE ControlLinkProofs --------------------------
(***************************************************************************)
(* Proofs about ControlLink for every even number of sequence numbers and  *)
(* every window below half of it, whatever the ports and the bounds.       *)
(*                                                                         *)
(* NumbersTellTheOrder is not inductive: it follows from what the numbers  *)
(* are.  A datagram's is the sender's present one less its age, and so is  *)
(* last_seq_ less the age of what was accepted, as long as that is no      *)
(* older than a datagram can be.  That no state ever goes back needs, on   *)
(* top, that later datagrams carry later states, which the lock gives.     *)
(***************************************************************************)
EXTENDS ControlLink, TLAPS

USE WindowAssumption, PortAssumption, BoundsAssumption

(* What is on its way comes from the running client, numbered in the order of sending. *)
Numbered ==
  \A d \in net :
    /\ d.run = run /\ d.port = port
    /\ d.seq \in {seq - d.age, seq - d.age + Space}

(* So does last_seq_, if this client was heard at all; after a pause only younger ones remain. *)
LastNumbered ==
  outRun = run =>
    /\ haveSeq /\ lastPort = port
    /\ outAge <= Window => lastSeq \in {seq - outAge, seq - outAge + Space}
    /\ silent => \A d \in net : d.age < outAge

Runs ==
  /\ outRun <= run /\ (haveSeq <=> outRun # 0)
  /\ ~alive => run < MaxRuns

OrderInv == TypeOK /\ Numbered /\ LastNumbered /\ Runs

-----------------------------------------------------------------------------
(* The ring of numbers *)

LEMMA Successor ==
  ASSUME NEW s \in 0..Space-1
  PROVE  /\ (s + 1) % Space \in 0..Space-1
         /\ (s + 1) % Space = IF s = Space - 1 THEN 0 ELSE s + 1
<1>. USE DEF Space
<1>1. CASE s = Space - 1
  <2>1. (2 * Half) % (2 * Half) = 0
    OBVIOUS
  <2>2. s + 1 = 2 * Half
    BY <1>1
  <2>. QED BY <1>1, <2>1, <2>2
<1>2. CASE s # Space - 1
  <2>1. s + 1 \in 0..Space-1 /\ Space \in Nat
    BY <1>2
  <2>. QED BY <1>2, <2>1
<1>. QED BY <1>1, <1>2

(* One number more is sent: the distance of an earlier one grows by one. *)
LEMMA DistanceGrows ==
  ASSUME NEW s \in 0..Space-1, NEW age \in 0..Window, NEW n \in 0..Space-1,
         n \in {s - age, s - age + Space}
  PROVE  n \in {((s + 1) % Space) - (age + 1), ((s + 1) % Space) - (age + 1) + Space}
<1>1. CASE s = Space - 1
  <2>1. (s + 1) % Space = 0
    BY <1>1, Successor
  <2>2. n = s - age
    BY <1>1 DEF Space
  <2>. QED BY <1>1, <2>1, <2>2 DEF Space
<1>2. CASE s # Space - 1
  <2>1. (s + 1) % Space = s + 1
    BY <1>2, Successor
  <2>. QED BY <2>1 DEF Space
<1>. QED BY <1>1, <1>2

(***************************************************************************)
(* The wrapped comparison is right on two numbers that are both less than  *)
(* half the ring behind the sender's: what After accepts was sent later    *)
(* (udp_source.cpp:147).                                                   *)
(***************************************************************************)
THEOREM WrappedComparison ==
  ASSUME NEW s \in 0..Space-1, NEW age \in 0..Window, NEW lastAge \in 0..Window,
         NEW n \in 0..Space-1, n \in {s - age, s - age + Space},
         lastSeq \in 0..Space-1, lastSeq \in {s - lastAge, s - lastAge + Space},
         After(n)
  PROVE  age < lastAge
<1>. SUFFICES ASSUME age >= lastAge PROVE FALSE
  OBVIOUS
<1>. DEFINE gap == n + Space - lastSeq
<1>1. age - lastAge \in 0..Half-1
  OBVIOUS
<1>2. gap \in {lastAge - age, lastAge - age + Space, lastAge - age + 2 * Space}
  BY DEF Space
<1>3. gap \in 1..2*Space-1
  BY DEF Space
<1>4. gap % Space \in 1..Half-1
  BY DEF After
<1>. HIDE DEF gap
<1>5. CASE gap \in 1..Space-1
  <2>1. gap % Space = gap
    BY <1>5 DEF Space
  <2>2. gap > Half
    BY <1>1, <1>2, <1>5 DEF Space
  <2>. QED BY <1>4, <2>1, <2>2
<1>6. CASE gap \in Space..2*Space-1
  <2>1. gap % Space = gap - Space
    BY <1>6 DEF Space
  <2>2. gap - Space = 0 \/ gap - Space > Half
    BY <1>1, <1>2, <1>6 DEF Space
  <2>. QED BY <1>4, <2>1, <2>2
<1>. QED BY <1>3, <1>5, <1>6 DEF Space

-----------------------------------------------------------------------------
LEMMA AgedFacts ==
  ASSUME net \subseteq Datagram, NEW d \in Aged
  PROVE  /\ d \in Datagram
         /\ \E e \in net : /\ e.age < Window /\ d.age = e.age + 1
                           /\ d.port = e.port /\ d.seq = e.seq
                           /\ d.run = e.run /\ d.version = e.version
<1>1. PICK e \in net : e.age < Window /\ d = [e EXCEPT !.age = e.age + 1]
  BY DEF Aged
<1>2. e \in Datagram
  BY DEF Datagram
<1>. QED BY <1>1, <1>2 DEF Datagram

LEMMA PutsFacts ==
  ASSUME TypeOK, NEW v \in 0..MaxVersion, Puts(v)
  PROVE  /\ seq' \in 0..Space-1 /\ net' \subseteq Datagram /\ outAge' \in 0..Window+1
         /\ outAge' = (IF outAge > Window THEN outAge ELSE outAge + 1)
         /\ UNCHANGED <<port, run, lastPort, haveSeq, lastSeq, silent, out, outRun>>
         /\ \A d \in net' :
              \/ /\ d.age = 0 /\ d.seq = seq' /\ d.run = run /\ d.port = port /\ d.version = v
              \/ \E e \in net : /\ e.age < Window /\ d.age = e.age + 1
                                /\ d.port = e.port /\ d.seq = e.seq
                                /\ d.run = e.run /\ d.version = e.version
<1>. DEFINE new == [port |-> port, seq |-> seq', age |-> 0, run |-> run, version |-> v]
<1>1. seq' \in 0..Space-1
  BY Successor DEF Puts, TypeOK
<1>2. new \in Datagram
  BY <1>1 DEF TypeOK, Datagram
<1>3. net' = Aged \cup {new}
  BY DEF Puts
<1>4. net \subseteq Datagram
  BY DEF TypeOK
<1>5. net' \subseteq Datagram
  BY <1>2, <1>3, <1>4, AgedFacts
<1>6. outAge' = (IF outAge > Window THEN outAge ELSE outAge + 1)
  BY DEF Puts, Later
<1>7. outAge' \in 0..Window+1
  BY <1>6 DEF TypeOK
<1>8. UNCHANGED <<port, run, lastPort, haveSeq, lastSeq, silent, out, outRun>>
  BY DEF Puts
<1>9. ASSUME NEW d \in net'
      PROVE  \/ /\ d.age = 0 /\ d.seq = seq' /\ d.run = run /\ d.port = port /\ d.version = v
             \/ \E e \in net : /\ e.age < Window /\ d.age = e.age + 1
                               /\ d.port = e.port /\ d.seq = e.seq
                               /\ d.run = e.run /\ d.version = e.version
  <2>1. CASE d = new
    BY <2>1
  <2>2. CASE d \in Aged
    BY <1>4, <2>2, AgedFacts
  <2>. QED BY <1>3, <2>1, <2>2
<1>. QED BY <1>1, <1>5, <1>6, <1>7, <1>8, <1>9

(* A datagram that is sent keeps the numbers in order. *)
LEMMA PutsKeeps ==
  ASSUME OrderInv, NEW v \in 0..MaxVersion, Puts(v)
  PROVE  Numbered' /\ LastNumbered'
<1>. USE DEF OrderInv
<1>1. seq' = (seq + 1) % Space /\ seq \in 0..Space-1
  BY DEF Puts, TypeOK
<1>2. Numbered'
  <2>. SUFFICES ASSUME NEW d \in net'
                PROVE  /\ d.run = run' /\ d.port = port'
                       /\ d.seq \in {seq' - d.age, seq' - d.age + Space}
    BY DEF Numbered
  <2>1. CASE d.age = 0 /\ d.seq = seq' /\ d.run = run /\ d.port = port
    <3>1. d.seq = seq' - d.age
      BY <2>1, <1>1, Successor
    <3>. QED BY <2>1, <3>1, PutsFacts
  <2>2. CASE \E e \in net : /\ e.age < Window /\ d.age = e.age + 1
                            /\ d.port = e.port /\ d.seq = e.seq /\ d.run = e.run
    <3>1. PICK e \in net : /\ e.age < Window /\ d.age = e.age + 1
                           /\ d.port = e.port /\ d.seq = e.seq /\ d.run = e.run
      BY <2>2
    <3>2. e.age \in 0..Window /\ e.seq \in 0..Space-1
      BY DEF TypeOK, Datagram
    <3>3. e.run = run /\ e.port = port /\ e.seq \in {seq - e.age, seq - e.age + Space}
      BY DEF Numbered
    <3>4. e.seq \in {seq' - d.age, seq' - d.age + Space}
      BY <1>1, <3>1, <3>2, <3>3, DistanceGrows
    <3>. QED BY <3>1, <3>3, <3>4, PutsFacts
  <2>. QED BY <2>1, <2>2, PutsFacts
<1>3. LastNumbered'
  <2>. SUFFICES ASSUME outRun' = run' PROVE LastNumbered'
    BY DEF LastNumbered
  <2>1. outRun = run /\ haveSeq' /\ lastPort' = port'
    BY PutsFacts DEF LastNumbered
  <2>2. outAge \in 0..Window+1 /\ lastSeq \in 0..Space-1
    BY DEF TypeOK
  <2>3. outAge' = (IF outAge > Window THEN outAge ELSE outAge + 1) /\ lastSeq' = lastSeq
    BY PutsFacts
  <2>4. ASSUME outAge' <= Window PROVE lastSeq' \in {seq' - outAge', seq' - outAge' + Space}
    <3>1. outAge \in 0..Window /\ outAge' = outAge + 1
      BY <2>2, <2>3, <2>4
    <3>2. lastSeq \in {seq - outAge, seq - outAge + Space}
      BY <2>1, <3>1 DEF LastNumbered
    <3>. QED BY <1>1, <2>2, <2>3, <3>1, <3>2, DistanceGrows
  <2>5. ASSUME silent', NEW d \in net' PROVE d.age < outAge'
    <3>1. silent
      BY <2>5, PutsFacts
    <3>2. CASE d.age = 0
      <4>1. outAge' # 0
        BY <2>2, <2>3
      <4>. QED BY <2>2, <2>3, <3>2
    <3>3. CASE d.age # 0
      <4>1. PICK e \in net : e.age < Window /\ d.age = e.age + 1
        BY <3>3, PutsFacts
      <4>2. e.age < outAge /\ e.age \in 0..Window
        BY <2>1, <3>1 DEF LastNumbered, TypeOK, Datagram
      <4>. QED BY <2>2, <2>3, <4>1, <4>2
    <3>. QED BY <3>2, <3>3
  <2>. QED BY <2>1, <2>4, <2>5 DEF LastNumbered
<1>. QED BY <1>2, <1>3

-----------------------------------------------------------------------------
LEMMA IdleRange ==
  /\ Idle \in 0..Idle
  /\ \A v \in 0..MaxVersion : v \in 0..Idle
  /\ \A v \in 0..Idle : v # Idle => v \in 0..MaxVersion
BY DEF Idle

LEMMA OrderInit == Init => OrderInv
<1>. SUFFICES ASSUME Init PROVE OrderInv
  OBVIOUS
<1>1. (CHOOSE p \in Ports : TRUE) \in Ports
  OBVIOUS
<1>2. TypeOK
  <2>1. copied \in [Threads -> 0..Idle]
    BY IdleRange DEF Init
  <2>2. /\ 0 \in 0..Space-1 /\ 0 \in 0..MaxVersion /\ 1 \in 1..MaxRuns
        /\ 0 \in 0..MaxRuns /\ Window + 1 \in 0..Window+1
    BY DEF Space
  <2>. QED BY <1>1, <2>1, <2>2 DEF Init, TypeOK
<1>3. net = {} /\ run = 1 /\ outRun = 0 /\ haveSeq = FALSE /\ alive = TRUE
  BY DEF Init
<1>4. Numbered /\ LastNumbered /\ Runs
  BY <1>3 DEF Numbered, LastNumbered, Runs
<1>. QED BY <1>2, <1>4 DEF OrderInv

(* A thread of the client. *)
LEMMA CopyKeeps ==
  ASSUME OrderInv, Change \/ StreamCopies \/ Crashes
  PROVE  OrderInv'
<1>. USE DEF OrderInv
<1>1. TypeOK'
  <2>1. alive' \in BOOLEAN /\ version' \in 0..MaxVersion /\ copied' \in [Threads -> 0..Idle]
    <3>. alive \in BOOLEAN /\ version \in 0..MaxVersion /\ copied \in [Threads -> 0..Idle]
      BY DEF TypeOK
    <3>1. CASE Change
      <4>1. version + 1 \in 0..MaxVersion
        BY <3>1 DEF Change
      <4>. QED BY <3>1, <4>1, IdleRange DEF Change
    <3>2. CASE StreamCopies
      BY <3>2, IdleRange DEF StreamCopies
    <3>3. CASE Crashes
      BY <3>3, IdleRange DEF Crashes
    <3>. QED BY <3>1, <3>2, <3>3
  <2>2. UNCHANGED <<port, seq, run, net, sourceVars>>
    BY DEF Change, StreamCopies, Crashes
  <2>. QED BY <2>1, <2>2 DEF TypeOK, sourceVars
<1>2. UNCHANGED <<port, seq, run, net, sourceVars>> /\ (~alive' => ~alive \/ run < MaxRuns)
  BY DEF Change, StreamCopies, Crashes
<1>. QED BY <1>1, <1>2 DEF Numbered, LastNumbered, Runs, sourceVars

LEMMA SendsKeeps ==
  ASSUME OrderInv, NEW t \in Threads, Sends(t)
  PROVE  OrderInv'
<1>. USE DEF OrderInv
<1>. DEFINE v == IF Locked THEN version ELSE copied[t]
<1>1. v \in 0..MaxVersion
  BY DEF Sends, TypeOK, Idle
<1>2. Puts(v) /\ UNCHANGED <<alive, version>> /\ copied' = [copied EXCEPT ![t] = Idle]
  BY DEF Sends
<1>. HIDE DEF v
<1>3. copied' \in [Threads -> 0..Idle]
  BY <1>2 DEF TypeOK, Idle
<1>4. TypeOK'
  BY <1>1, <1>2, <1>3, PutsFacts DEF TypeOK
<1>5. Numbered' /\ LastNumbered'
  BY <1>1, <1>2, PutsKeeps
<1>. QED BY <1>1, <1>2, <1>4, <1>5, PutsFacts DEF Runs

LEMMA ClosesKeeps ==
  ASSUME OrderInv, Closes
  PROVE  OrderInv'
<1>. USE DEF OrderInv
<1>1. /\ version' = version + 1 /\ Puts(version') /\ version < MaxVersion
      /\ alive' = FALSE /\ run < MaxRuns /\ copied' = copied
  BY DEF Closes
<1>2. version' \in 0..MaxVersion
  BY <1>1 DEF TypeOK
<1>3. TypeOK'
  BY <1>1, <1>2, PutsFacts DEF TypeOK
<1>4. Numbered' /\ LastNumbered'
  BY <1>1, <1>2, PutsKeeps
<1>. QED BY <1>1, <1>2, <1>3, <1>4, PutsFacts DEF Runs

(* A new process: what was heard before is of an earlier run. *)
LEMMA RestartsKeeps ==
  ASSUME OrderInv, Restarts
  PROVE  OrderInv'
<1>. USE DEF OrderInv
<1>1. /\ net = {} /\ alive' = TRUE /\ seq' = 0 /\ run' = run + 1 /\ port' \in Ports
      /\ UNCHANGED <<version, copied, net, sourceVars>> /\ run < MaxRuns
  BY DEF Restarts, Runs
<1>2. TypeOK'
  BY <1>1 DEF TypeOK, Space, sourceVars
<1>3. outRun' = outRun /\ outRun' # run'
  BY <1>1 DEF Runs, TypeOK, sourceVars
<1>. QED BY <1>1, <1>2, <1>3 DEF Numbered, LastNumbered, Runs, TypeOK, sourceVars

LEMMA NetworkKeeps ==
  ASSUME OrderInv, Lose \/ SilencePasses
  PROVE  OrderInv'
<1>. USE DEF OrderInv
<1>1. net' \subseteq net /\ silent' \in BOOLEAN
  BY DEF Lose, SilencePasses, sourceVars, TypeOK
<1>2. UNCHANGED <<clientVars, lastPort, haveSeq, lastSeq, out, outAge, outRun>>
  BY DEF Lose, SilencePasses, sourceVars
<1>3. silent' => silent \/ \A d \in net' : d.age < outAge
  BY DEF Lose, SilencePasses, sourceVars
<1>4. TypeOK'
  BY <1>1, <1>2 DEF TypeOK, clientVars
<1>5. LastNumbered'
  BY <1>1, <1>2, <1>3 DEF LastNumbered, clientVars
<1>. QED BY <1>1, <1>2, <1>4, <1>5 DEF Numbered, Runs, clientVars

LEMMA ReceiveKeeps ==
  ASSUME OrderInv, NEW d \in net, Receive(d)
  PROVE  OrderInv'
<1>. USE DEF OrderInv
<1>1. /\ d \in Datagram /\ d.run = run /\ d.port = port
      /\ d.seq \in {seq - d.age, seq - d.age + Space}
  BY DEF TypeOK, Numbered
<1>2. /\ d.age \in 0..Window /\ d.seq \in 0..Space-1 /\ d.run \in 1..MaxRuns
      /\ d.version \in 0..MaxVersion
  BY <1>1 DEF Datagram
<1>3. net' \subseteq net /\ lastPort' = port /\ UNCHANGED <<alive, port, seq, run, version, copied>>
  BY <1>1 DEF Receive, clientVars
<1>4. CASE Accepts(d)
  <2>1. /\ haveSeq' = TRUE /\ lastSeq' = d.seq /\ silent' = FALSE
        /\ out' = d.version /\ outAge' = d.age /\ outRun' = run
    BY <1>1, <1>4 DEF Receive
  <2>2. d.age \in 0..Window+1 /\ run \in 0..MaxRuns /\ net' \subseteq Datagram
    BY <1>2, <1>3 DEF TypeOK
  <2>3. TypeOK'
    BY <1>2, <1>3, <2>1, <2>2 DEF TypeOK
  <2>. QED BY <1>1, <1>3, <2>1, <2>3 DEF Numbered, LastNumbered, Runs, TypeOK
<1>5. CASE ~Accepts(d)
  <2>1. UNCHANGED <<haveSeq, lastSeq, silent, out, outAge, outRun>>
    BY <1>5 DEF Receive
  <2>2. TypeOK'
    BY <1>3, <2>1 DEF TypeOK
  <2>. QED BY <1>3, <2>1, <2>2 DEF Numbered, LastNumbered, Runs
<1>. QED BY <1>4, <1>5

LEMMA OrderInductive == OrderInv /\ [Next]_vars => OrderInv'
<1>. SUFFICES ASSUME OrderInv, [Next]_vars PROVE OrderInv'
  OBVIOUS
<1>1. CASE Change \/ StreamCopies \/ Crashes
  BY <1>1, CopyKeeps
<1>2. CASE \E t \in Threads : Sends(t)
  BY <1>2, SendsKeeps
<1>3. CASE Closes
  BY <1>3, ClosesKeeps
<1>4. CASE Restarts
  BY <1>4, RestartsKeeps
<1>5. CASE Lose \/ SilencePasses
  BY <1>5, NetworkKeeps
<1>6. CASE \E d \in net : Receive(d)
  BY <1>6, ReceiveKeeps
<1>7. CASE ReceiveStray \/ UNCHANGED vars
  <2>1. UNCHANGED <<alive, port, seq, run, version, copied, net, sourceVars>>
    BY <1>7 DEF ReceiveStray, vars, clientVars
  <2>2. TypeOK'
    BY <2>1 DEF OrderInv, TypeOK, sourceVars
  <2>. QED BY <2>1, <2>2 DEF OrderInv, Numbered, LastNumbered, Runs, sourceVars
<1>. QED BY <1>1, <1>2, <1>3, <1>4, <1>5, <1>6, <1>7 DEF Next

(* Client, network and source keep their types; no client is started more than MaxRuns times. *)
THEOREM LinkTypeCorrect == Spec => []TypeOK
<1>1. OrderInv => TypeOK
  BY DEF OrderInv
<1>. QED BY <1>1, OrderInit, OrderInductive, PTL DEF Spec

(* Among this run's datagrams, those that After accepts were sent after the last accepted one. *)
LEMMA AfterIsLater ==
  ASSUME OrderInv, NEW d \in net, outRun = run, After(d.seq)
  PROVE  d.age < outAge
<1>. USE DEF OrderInv
<1>1. /\ d.age \in 0..Window /\ d.seq \in 0..Space-1 /\ d.seq \in {seq - d.age, seq - d.age + Space}
      /\ seq \in 0..Space-1 /\ outAge \in 0..Window+1 /\ lastSeq \in 0..Space-1
  BY DEF TypeOK, Datagram, Numbered
<1>2. CASE outAge = Window + 1
  BY <1>1, <1>2
<1>3. CASE outAge # Window + 1
  <2>1. outAge \in 0..Window /\ lastSeq \in {seq - outAge, seq - outAge + Space}
    BY <1>1, <1>3 DEF LastNumbered
  <2>. QED BY <1>1, <2>1, WrappedComparison
<1>. QED BY <1>2, <1>3

(***************************************************************************)
(* Within a session the wrapped comparison is the order of sending, for    *)
(* every size of the number space and every datagram the network may still *)
(* deliver (udp_source.cpp:147).                                           *)
(***************************************************************************)
THEOREM OrderIsTold == Spec => []NumbersTellTheOrder
<1>1. OrderInv => NumbersTellTheOrder
  <2>. SUFFICES ASSUME OrderInv, NEW d \in net, d.run = outRun, After(d.seq)
                PROVE  d.age < outAge
    BY DEF NumbersTellTheOrder
  <2>1. outRun = run
    BY DEF OrderInv, Numbered
  <2>. QED BY <2>1, AfterIsLater
<1>. QED BY <1>1, OrderInit, OrderInductive, PTL DEF Spec
-----------------------------------------------------------------------------
(***************************************************************************)
(* With the lock a later datagram carries a state that is no older, and    *)
(* what is younger than the last accepted one, or of a later run, no older *)
(* a state than was accepted.                                              *)
(***************************************************************************)
Forward ==
  /\ out <= version
  /\ \A d \in net : d.version <= version
  /\ \A d, e \in net : d.age < e.age => e.version <= d.version
  /\ \A d \in net : outRun = run => (d.age < outAge => out <= d.version)
  /\ \A d \in net : outRun # run => out <= d.version

ForwardInv == OrderInv /\ Forward

LEMMA ForwardInit == Init => ForwardInv
BY OrderInit DEF Init, ForwardInv, Forward

(* The newest state is handed to the network. *)
LEMMA PutsForward ==
  ASSUME ForwardInv, version' \in 0..MaxVersion, version <= version', Puts(version')
  PROVE  Forward'
<1>. USE DEF ForwardInv, OrderInv
<1>1. /\ outAge' = (IF outAge > Window THEN outAge ELSE outAge + 1) /\ outAge \in 0..Window+1
      /\ out' = out /\ outRun' = outRun /\ run' = run
      /\ out \in 0..MaxVersion /\ version \in 0..MaxVersion /\ out <= version
  BY PutsFacts DEF TypeOK, Forward
<1>2. ASSUME NEW d \in net'
      PROVE  \/ d.age = 0 /\ d.version = version'
             \/ \E e \in net : /\ e.age \in 0..Window /\ e.age < Window /\ d.age = e.age + 1
                               /\ d.version = e.version /\ e.version \in 0..MaxVersion
  BY PutsFacts DEF TypeOK, Datagram
<1>3. ASSUME NEW d \in net' PROVE d.version <= version'
  BY <1>1, <1>2 DEF Forward
<1>4. ASSUME NEW d \in net', NEW e \in net', d.age < e.age PROVE e.version <= d.version
  <2>1. CASE d.age = 0 /\ d.version = version'
    BY <1>3, <2>1
  <2>2. CASE ~(d.age = 0 /\ d.version = version')
    <3>1. PICK c \in net : c.age \in 0..Window /\ d.age = c.age + 1 /\ d.version = c.version
      BY <1>2, <2>2
    <3>2. PICK f \in net : f.age \in 0..Window /\ e.age = f.age + 1 /\ e.version = f.version
      BY <1>2, <1>4, <3>1
    <3>. QED BY <1>4, <3>1, <3>2 DEF Forward
  <2>. QED BY <2>1, <2>2
<1>5. ASSUME NEW d \in net', outRun # run \/ d.age < outAge' PROVE out <= d.version
  <2>1. CASE d.age = 0 /\ d.version = version'
    BY <1>1, <2>1
  <2>2. CASE ~(d.age = 0 /\ d.version = version')
    <3>1. PICK c \in net : /\ c.age \in 0..Window /\ c.age < Window /\ d.age = c.age + 1
                           /\ d.version = c.version
      BY <1>2, <2>2
    <3>2. outRun # run \/ c.age < outAge
      BY <1>1, <1>5, <3>1
    <3>. QED BY <3>1, <3>2 DEF Forward
  <2>. QED BY <2>1, <2>2
<1>6. out' <= version'
  BY <1>1
<1>. QED BY <1>1, <1>3, <1>4, <1>5, <1>6 DEF Forward

(* What is accepted is younger than what was accepted before, or of a later run. *)
LEMMA AcceptsForward ==
  ASSUME ForwardInv, NEW d \in net, Accepts(d)
  PROVE  out <= d.version
<1>. USE DEF ForwardInv, OrderInv
<1>1. CASE outRun # run
  BY <1>1 DEF Forward
<1>2. CASE outRun = run
  <2>1. haveSeq /\ d.port = lastPort /\ (silent => d.age < outAge)
    BY <1>2 DEF LastNumbered, Numbered
  <2>2. d.age < outAge
    BY <1>2, <2>1, AfterIsLater DEF Accepts, NewSession
  <2>. QED BY <1>2, <2>2 DEF Forward
<1>. QED BY <1>1, <1>2

LEMMA ForwardStep ==
  ASSUME Locked, ForwardInv, [Next]_vars
  PROVE  Forward' /\ out <= out'
<1>. USE DEF ForwardInv, OrderInv
<1>. out \in Nat /\ version \in Nat /\ version \in 0..MaxVersion
  BY DEF TypeOK
<1>1. CASE Change \/ StreamCopies \/ Crashes
  <2>1. UNCHANGED <<run, net, sourceVars>> /\ version' \in {version, version + 1}
    BY <1>1 DEF Change, StreamCopies, Crashes
  <2>2. \A d \in net : d.version \in Nat
    BY DEF TypeOK, Datagram
  <2>. QED BY <2>1, <2>2 DEF Forward, sourceVars
<1>2. CASE \E t \in Threads : Sends(t)
  <2>1. version' = version /\ Puts(version')
    BY <1>2 DEF Sends
  <2>. QED BY <2>1, PutsForward, PutsFacts
<1>3. CASE Closes
  <2>1. version' = version + 1 /\ version' \in 0..MaxVersion /\ Puts(version')
    BY <1>3 DEF Closes
  <2>. QED BY <2>1, PutsForward, PutsFacts
<1>4. CASE Restarts
  BY <1>4 DEF Restarts, Forward, sourceVars
<1>5. CASE Lose \/ SilencePasses
  <2>1. net' \subseteq net /\ UNCHANGED <<run, version, out, outAge, outRun>>
    BY <1>5 DEF Lose, SilencePasses, clientVars, sourceVars
  <2>. QED BY <2>1 DEF Forward
<1>6. CASE \E d \in net : Receive(d)
  <2>1. PICK d \in net : Receive(d)
    BY <1>6
  <2>2. net' \subseteq net /\ run' = run /\ version' = version /\ d.run = run
    BY <2>1 DEF Receive, clientVars, Numbered
  <2>3. CASE Accepts(d)
    <3>1. out' = d.version /\ outAge' = d.age /\ outRun' = run
      BY <2>1, <2>2, <2>3 DEF Receive
    <3>2. out <= d.version
      BY <2>3, AcceptsForward
    <3>. QED BY <2>2, <3>1, <3>2 DEF Forward
  <2>4. CASE ~Accepts(d)
    <3>1. UNCHANGED <<out, outAge, outRun>>
      BY <2>1, <2>4 DEF Receive
    <3>. QED BY <2>2, <3>1 DEF Forward
  <2>. QED BY <2>3, <2>4
<1>7. CASE ReceiveStray \/ UNCHANGED vars
  <2>1. UNCHANGED <<run, version, net, out, outAge, outRun>>
    BY <1>7 DEF ReceiveStray, vars, clientVars, sourceVars
  <2>. QED BY <2>1 DEF Forward
<1>. QED BY <1>1, <1>2, <1>3, <1>4, <1>5, <1>6, <1>7 DEF Next

(***************************************************************************)
(* "Applying it would move the controller backwards"                       *)
(* (udp_source.cpp:142-146): a client that numbers and packs under a lock  *)
(* never has an older state accepted after a newer one, for any window     *)
(* below half the number space, any loss, duplication and reordering       *)
(* within it, and any pauses and restarts.                                 *)
(***************************************************************************)
THEOREM NeverGoesBack ==
  ASSUME Locked
  PROVE  Spec => NeverBackwards
<1>1. ForwardInv /\ [Next]_vars => ForwardInv'
  BY ForwardStep, OrderInductive DEF ForwardInv
<1>2. ForwardInv /\ [Next]_vars => [out' >= out]_vars
  <2>. SUFFICES ASSUME ForwardInv, [Next]_vars PROVE out' >= out
    OBVIOUS
  <2>1. out \in Nat /\ out' \in Nat
    BY OrderInductive DEF ForwardInv, OrderInv, TypeOK
  <2>. QED BY <2>1, ForwardStep
<1>. QED BY <1>1, <1>2, ForwardInit, PTL DEF Spec, NeverBackwards
=============================================================================
