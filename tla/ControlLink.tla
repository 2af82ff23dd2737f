---------------------------- MODULE ControlLink ----------------------------
(***************************************************************************)
(* A control client, the network and UdpSource (src/src/sources/           *)
(* udp_source.cpp).  The client is ControlClient of clients/cpp, or that   *)
(* of clients/python: two threads, the application's and the one that      *)
(* streams, call send().  The network loses, duplicates and reorders.      *)
(*                                                                         *)
(* The client's state is a version: every press, release or stick movement *)
(* makes the next one, and a restarted client goes on counting.  The       *)
(* 2^32 sequence numbers are 2 * Half ones.  What is timed is not timed    *)
(* here: a datagram is late by the number of datagrams sent after it, at   *)
(* most Window, which is below Half.                                       *)
(***************************************************************************)
EXTENDS Naturals

CONSTANTS Locked,       \* send() numbers and packs under a lock: Python does, C++ does not
          Half,         \* half as many as there are sequence numbers: 2^31
          Window,       \* bound: how many later datagrams may overtake one
          Ports,        \* UDP ports a client may get
          StrayPort,    \* where datagrams come from that fail authentication
          MaxVersion,   \* bound: changes of the client's state
          MaxRuns       \* bound: starts of the client

ASSUME LockedAssumption == Locked \in BOOLEAN
ASSUME WindowAssumption ==
  /\ Half \in Nat \ {0} /\ Window \in Nat \ {0} /\ Window < Half
ASSUME PortAssumption == StrayPort \notin Ports /\ Ports # {}
ASSUME BoundsAssumption == MaxVersion \in Nat /\ MaxRuns \in Nat \ {0}

VARIABLES alive, port, seq,  \* the client: connected, its source port, seq_
          run,               \* how many times the client was started
          version,           \* its state_
          copied,            \* per thread: the version send() has copied, or Idle
          net,               \* datagrams on their way
          lastPort,          \* last_from_ip_, last_from_port_; NoPort is 0
          haveSeq, lastSeq,  \* have_seq_, last_seq_
          silent,            \* now - last_accept_ns_ > session_gap_ns_
          out,               \* history: the version of the last accepted datagram
          outAge,            \* history: datagrams sent since that one, up to Window + 1
          outRun             \* history: the client run it came from

clientVars == <<alive, port, seq, run, version, copied>>
sourceVars == <<lastPort, haveSeq, lastSeq, silent, out, outAge, outRun>>
vars == <<clientVars, net, sourceVars>>

Threads == {"api", "stream"}
Idle == MaxVersion + 1
NoPort == 0
Space == 2 * Half

Init ==
  /\ alive = TRUE /\ port = (CHOOSE p \in Ports : TRUE) /\ seq = 0 /\ run = 1 /\ version = 0
  /\ copied = [t \in Threads |-> Idle]
  /\ net = {}
  /\ lastPort = NoPort /\ haveSeq = FALSE /\ lastSeq = 0 /\ silent = FALSE
  /\ out = 0 /\ outAge = Window + 1 /\ outRun = 0

-----------------------------------------------------------------------------
(* The client *)

(* press(), release(), set_axes(): change state_ and begin send(). *)
Change ==
  /\ alive /\ copied["api"] = Idle /\ version < MaxVersion
  /\ version' = version + 1
  /\ copied' = [copied EXCEPT !["api"] = version + 1]
  /\ UNCHANGED <<alive, port, seq, run, net, sourceVars>>

(* stream_loop() begins its next send(). *)
StreamCopies ==
  /\ alive /\ copied["stream"] = Idle
  /\ copied' = [copied EXCEPT !["stream"] = version]
  /\ UNCHANGED <<alive, port, seq, run, version, net, sourceVars>>

(* The datagrams still on their way after one more was sent. *)
Aged == {[d EXCEPT !.age = @ + 1] : d \in {e \in net : e.age < Window}}

Later(age) == IF age > Window THEN age ELSE age + 1

(* A datagram with the next number and state v is handed to the network. *)
Puts(v) ==
  /\ seq' = (seq + 1) % Space
  /\ net' = Aged \cup {[port |-> port, seq |-> seq', age |-> 0, run |-> run, version |-> v]}
  /\ outAge' = Later(outAge)
  /\ UNCHANGED <<port, run, lastPort, haveSeq, lastSeq, silent, out, outRun>>

(* send() goes on with the state it copied; under the lock, with the present one. *)
Sends(t) ==
  /\ copied[t] # Idle
  /\ Puts(IF Locked THEN version ELSE copied[t])
  /\ copied' = [copied EXCEPT ![t] = Idle]
  /\ UNCHANGED <<alive, version>>

(* close(): the streaming thread is joined, then a released state is sent once. *)
Closes ==
  /\ alive /\ run < MaxRuns /\ version < MaxVersion
  /\ \A t \in Threads : copied[t] = Idle
  /\ alive' = FALSE
  /\ version' = version + 1
  /\ Puts(version')
  /\ UNCHANGED copied

(* The process is killed. *)
Crashes ==
  /\ alive /\ run < MaxRuns
  /\ alive' = FALSE
  /\ copied' = [t \in Threads |-> Idle]
  /\ UNCHANGED <<port, seq, run, version, net, sourceVars>>

(* A new process numbers from 1; by then nothing of the old one is on its way. *)
Restarts ==
  /\ ~alive /\ net = {}
  /\ alive' = TRUE /\ seq' = 0 /\ run' = run + 1
  /\ port' \in Ports
  /\ UNCHANGED <<version, copied, net, sourceVars>>

-----------------------------------------------------------------------------
(* The network and time *)

Lose ==
  /\ \E d \in net : net' = net \ {d}
  /\ UNCHANGED <<clientVars, sourceVars>>

(* Nothing was accepted for session_gap_ms; what is still on its way is younger. *)
SilencePasses ==
  /\ haveSeq /\ ~silent
  /\ \A d \in net : d.age < outAge
  /\ silent' = TRUE
  /\ UNCHANGED <<clientVars, net, lastPort, haveSeq, lastSeq, out, outAge, outRun>>

-----------------------------------------------------------------------------
(* UdpSource::read(), one datagram of its loop *)

NewSession(d) == d.port # lastPort \/ silent

(* mutant: the numbers are compared without wrapping *)
AfterUnwrapped(s) == s > lastSeq

(* static_cast<int32_t>(in.seq - last_seq_) > 0 *)
After(s) == (s + Space - lastSeq) % Space \in 1..(Half - 1)

(* mutant: there is no session, a number must follow the last one *)
RefusesStrangers(d) == ~haveSeq \/ After(d.seq)

(* mutant: a new sender is told from the old one, a pause is not *)
AcceptsIgnoringSilence(d) == d.port # lastPort \/ ~haveSeq \/ After(d.seq)

Accepts(d) == NewSession(d) \/ ~haveSeq \/ After(d.seq)

(* recvfrom() may leave a duplicate behind. *)
Receive(d) ==
  /\ d \in net
  /\ net' \in {net, net \ {d}}
  /\ lastPort' = d.port
  /\ \/ /\ Accepts(d)
        /\ haveSeq' = TRUE /\ lastSeq' = d.seq /\ silent' = FALSE
        /\ out' = d.version /\ outAge' = d.age /\ outRun' = d.run
     \/ /\ ~Accepts(d)
        /\ UNCHANGED <<haveSeq, lastSeq, silent, out, outAge, outRun>>
  /\ UNCHANGED clientVars

(* mutant: the sender is remembered before the tag is checked *)
StrayStartsSession ==
  /\ lastPort' = StrayPort
  /\ haveSeq' = FALSE
  /\ UNCHANGED <<clientVars, net, lastSeq, silent, out, outAge, outRun>>

(* A datagram with a wrong tag, size or magic is counted and leaves no other trace. *)
ReceiveStray == UNCHANGED vars

ReceiveNewest == \E d \in net : d.age = 0 /\ Receive(d)

Next ==
  \/ Change \/ StreamCopies \/ (\E t \in Threads : Sends(t)) \/ Closes \/ Crashes \/ Restarts
  \/ Lose \/ SilencePasses
  \/ (\E d \in net : Receive(d)) \/ ReceiveStray

(***************************************************************************)
(* The client streams and time passes.  The network may lose anything, but *)
(* not everything: a datagram that no later one has overtaken arrives      *)
(* again and again.                                                        *)
(***************************************************************************)
Fairness ==
  /\ WF_vars(StreamCopies) /\ WF_vars(\E t \in Threads : Sends(t))
  /\ WF_vars(SilencePasses) /\ SF_vars(ReceiveNewest)

Spec == Init /\ [][Next]_vars /\ Fairness

-----------------------------------------------------------------------------
Datagram == [port : Ports, seq : 0..Space-1, age : 0..Window, run : 1..MaxRuns,
             version : 0..MaxVersion]

TypeOK ==
  /\ alive \in BOOLEAN /\ haveSeq \in BOOLEAN /\ silent \in BOOLEAN
  /\ port \in Ports /\ lastPort \in Ports \cup {NoPort}
  /\ seq \in 0..Space-1 /\ lastSeq \in 0..Space-1
  /\ run \in 1..MaxRuns /\ outRun \in 0..MaxRuns /\ outAge \in 0..Window+1
  /\ version \in 0..MaxVersion /\ out \in 0..MaxVersion
  /\ copied \in [Threads -> 0..Idle]
  /\ net \subseteq Datagram

(***************************************************************************)
(* "Applying it would move the controller backwards"                       *)
(* (udp_source.cpp:142-146): an accepted datagram never carries an older   *)
(* state than the one accepted before it, across loss, duplication,        *)
(* reordering, wrapped numbers, strays, pauses and restarts.               *)
(***************************************************************************)
NeverBackwards == [][out' >= out]_vars

(***************************************************************************)
(* Within a session the wrapped comparison is the order of sending, for    *)
(* every datagram the network may still deliver (udp_source.cpp:147).      *)
(***************************************************************************)
NumbersTellTheOrder ==
  \A d \in net : haveSeq /\ ~NewSession(d) /\ d.run = outRun /\ After(d.seq)
                   => d.age < outAge

(* "Loss self-heals within 8 ms" (README.md:283-284): a client that streams is in charge in the end. *)
LossHeals == <>[](~alive \/ out = version)

(***************************************************************************)
(* A restarted client is not "locked out permanently" (udp_source.cpp:     *)
(* 124-129), even if it comes from the same port and numbers from 1 again. *)
(***************************************************************************)
RestartIsHeard ==
  \A r \in 1..MaxRuns : (alive /\ run = r) ~> (outRun = r \/ ~alive)
=============================================================================
