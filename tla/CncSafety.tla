----------------------------- MODULE CncSafety -----------------------------
(* What the machine tool promises the robot and the operator.              *)
EXTENDS CncContext

\* A device stands where a completed response says, and only one of its two responses
\* works on it or vouches for it: the check of the related response (response.rb:91-93) and
\* the thread that only reports to an active response (:100-103) leave no way for a late
\* thread or a failure to complete the wrong one.
CompleteMeansThere ==
  \A r \in Responses :
    /\ c.resp[r] = "complete" => c.pos[Device[r]] = Dest[r]
    /\ c.resp[r] \in {"active", "complete"} => c.resp[Related[r]] \notin {"active", "complete"}

\* A disabled machine serves nobody: no response is offered, no material is asked for,
\* in whatever order a response's failure met the deactivation that caused it
\* (cnc.rb:199-209 calls response.rb:49-54, whose failure comes back to the machine).
DisabledIsQuiet ==
  c.cnc \in {"not_ready", "fault"} =>
    /\ \A r \in Responses : c.resp[r] \in {"not_ready", "fail"}
    /\ \A q \in Requests : c.req[q] = "not_ready"

\* A request that is being carried out, or has failed, is the one the machine is in:
\* completed and failed (cnc.rb:374-402), which do not say whose they are, cannot be taken
\* for the other's.
TransferOwned ==
  /\ c.req["load"] \in {"processing", "fail"} => c.cnc = "loading"
  /\ c.req["unload"] \in {"processing", "fail"} => c.cnc = "unloading"

\* The robot is never asked to load and to unload at once: each of loading, unloading and
\* idle (cnc.rb:298-312, 356-364) withdraws one request before it makes the other, and nothing that
\* happens to a machine that is not operational brings the withdrawn one back.
OneExchange ==
  ~(c.req["load"] \in {"active", "processing"} /\ c.req["unload"] \in {"active", "processing"})

\* While the machine is in its cycle the door and the chuck are shut, if the robot keeps to
\* the handshake: cycling (cnc.rb:267-296) looks at them once, and after that nothing but
\* the handshake keeps the robot from opening them; a cycle that was interrupted leaves its
\* execution ACTIVE and its thread asleep, and neither lets a later one start behind an open
\* door.
CycleBehindClosedDoor ==
  c.cnc = "cycle_start" /\ c.exec => \A d \in DOMAIN c.pos : c.pos[d] = "CLOSED"

\* A request that waits for the robot or for its own failure to pass has a timer or a timer's
\* thread that is about to speak (request.rb:58-71), whatever resets, late timeouts and
\* withdrawals came before: a silent robot is always noticed.
LimitedRequests ==
  \A q \in Requests : c.req[q] \in {"processing", "fail"} => c.timer[q] \/ c.late[q] > 0

\* As long as the robot keeps to the handshake, an operational machine always has the
\* exchange it needs on offer: neither a late failure nor a status change leaves it
\* waiting for an answer to a request it withdrew, as it would if the failing request's
\* own transition (request.rb:107-114) ended after the CNC had made it again.
OnOffer ==
  /\ c.cnc \in {"loading", "unloading"} =>
       c.req[IF c.cnc = "loading" THEN "load" ELSE "unload"] # "not_ready"
  /\ c.cnc = "idle" => \E q \in Requests : c.req[q] # "not_ready"

\* Nothing the machine has begun goes on for ever: a failure ends and is offered again or
\* withdrawn (the threads of response.rb:137-140 and request.rb:58-66); a transfer the robot
\* accepted is concluded, at the latest by its time limit (request.rb:58-66, 152-158); a cycle
\* comes to its end (cnc.rb:285-293), whatever threads of earlier cycles are still asleep.
NothingLasts ==
  /\ \A r \in Responses : c.resp[r] = "fail" ~> c.resp[r] # "fail"
  /\ \A q \in Requests, s \in {"fail", "processing"} : c.req[q] = s ~> c.req[q] # s
  /\ c.cnc = "cycle_start" ~> c.cnc # "cycle_start"
=============================================================================
