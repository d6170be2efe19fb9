-------------------------- MODULE SnapshotRegister --------------------------
(***************************************************************************)
(* What the collector promises its callers, without the mutex, the reads   *)
(* and the goroutines: one register holding the time of the last good      *)
(* snapshot.  A request is answered in one step, with the register as it   *)
(* is at that step: fresh enough for when the request was made, or, with   *)
(* an error, older than the TTL and marked stale.                          *)
(***************************************************************************)
EXTENDS Integers

CONSTANTS Viewers, TTL, MaxTime

VARIABLES now, asked, good, phase, answer

vars == <<now, asked, good, phase, answer>>

Never    == -1
NoAnswer == [at |-> Never, stale |-> FALSE, err |-> FALSE]

Init ==
  /\ now = 0 /\ good = Never
  /\ asked = [v \in Viewers |-> 0]
  /\ phase = [v \in Viewers |-> "idle"]
  /\ answer = [v \in Viewers |-> NoAnswer]

Expired == good = Never \/ now - good >= TTL

Tick ==
  /\ now < MaxTime
  /\ now' = now + 1
  /\ UNCHANGED <<asked, good, phase, answer>>

Ask(v) ==
  /\ phase[v] = "idle"
  /\ phase' = [phase EXCEPT ![v] = "asked"]
  /\ asked' = [asked EXCEPT ![v] = now]
  /\ UNCHANGED <<now, good, answer>>

\* Someone is waiting, and the register is too old to serve.
Refresh ==
  /\ \E v \in Viewers : phase[v] = "asked"
  /\ Expired
  /\ good' = now
  /\ UNCHANGED <<now, asked, phase, answer>>

Return(v, err) ==
  /\ phase[v] = "asked"
  /\ phase' = [phase EXCEPT ![v] = "done"]
  /\ answer' = [answer EXCEPT ![v] = [at    |-> good,
                                      stale |-> err /\ good # Never,
                                      err   |-> err]]
  /\ UNCHANGED <<now, asked, good>>

Serve(v) ==
  /\ good # Never
  /\ good >= asked[v] \/ good + TTL > asked[v]
  /\ Return(v, FALSE)

Apologise(v) == Expired /\ Return(v, TRUE)

Respond(v) ==
  /\ phase[v] = "done"
  /\ phase' = [phase EXCEPT ![v] = "idle"]
  /\ asked' = [asked EXCEPT ![v] = 0]
  /\ answer' = [answer EXCEPT ![v] = NoAnswer]
  /\ UNCHANGED <<now, good>>

Next ==
  \/ Tick \/ Refresh
  \/ \E v \in Viewers : Ask(v) \/ Serve(v) \/ Apologise(v) \/ Respond(v)

Spec == Init /\ [][Next]_vars
=============================================================================
