--------------------------- MODULE MetricsServer ---------------------------
(***************************************************************************)
(* libs/metrics_server: the accept thread, one detached thread per         *)
(* WebSocket client, and main(), which starts the server, stops it, and in *)
(* the end destroys it together with everything the snapshot reads.        *)
(* Boost.Asio and Boost.Beast are external: closing the acceptor makes the *)
(* pending accept() return an error, as stop() relies on; a handshake and  *)
(* a write may fail.                                                       *)
(***************************************************************************)
EXTENDS Integers

CONSTANT Clients    \* the connections made in one behaviour

VARIABLES
    running,        \* running_
    acceptor,       \* acceptor_: "none", "open", "closed"
    a_pc,           \* accept thread: "none", "check", "accept", "accepted", "done"
    c_pc,           \* client threads: "none" (not connected), "queued" (accepted),
                    \* "handshake", "check", "sleep", "recheck", "snapshot",
                    \* "write", "close", "done"
    m_pc            \* main thread: "start", "serving", "closing", "joining",
                    \* "stopped", "destroyed", "exited", "dead"

vars == << running, acceptor, a_pc, c_pc, m_pc >>

Init ==
    /\ running = FALSE
    /\ acceptor = "none"
    /\ a_pc = "none"
    /\ c_pc = [c \in Clients |-> "none"]
    /\ m_pc = "start"

----------------------------------------------------------------------------
(* main(): start() spawns the accept thread ...                             *)
start ==
    /\ m_pc = "start"
    /\ running' = TRUE
    /\ acceptor' = "open"
    /\ a_pc' = "check"
    /\ m_pc' = "serving"
    /\ UNCHANGED c_pc

(* ... or throws when the port cannot be bound, which ends the process ...  *)
StartFails ==
    /\ m_pc = "start"
    /\ running' = TRUE
    /\ m_pc' = "dead"
    /\ UNCHANGED << acceptor, a_pc, c_pc >>

(* ... stop() clears running_, closes the acceptor and joins it ...         *)
StopFlag ==
    /\ m_pc = "serving"
    /\ running' = FALSE
    /\ m_pc' = "closing"
    /\ UNCHANGED << acceptor, a_pc, c_pc >>

(* Mutant of StopClose: the acceptor stays open.                            *)
StopLeavesOpen ==
    /\ m_pc = "closing"
    /\ m_pc' = "joining"
    /\ UNCHANGED << running, acceptor, a_pc, c_pc >>

StopClose ==
    /\ m_pc = "closing"
    /\ acceptor' = "closed"
    /\ m_pc' = "joining"
    /\ UNCHANGED << running, a_pc, c_pc >>

(* Mutant of StopJoin: the accept thread is not waited for.                 *)
StopDetaches ==
    /\ m_pc = "joining"
    /\ m_pc' = "stopped"
    /\ UNCHANGED << running, acceptor, a_pc, c_pc >>

StopJoin ==
    /\ m_pc = "joining" /\ a_pc = "done"
    /\ m_pc' = "stopped"
    /\ UNCHANGED << running, acceptor, a_pc, c_pc >>

(* ... and at the end of main() the destructor, whose stop() finds running_ *)
(* clear and returns at once, frees Impl.  main's locals go with it.        *)
Destroy ==
    /\ m_pc = "stopped"
    /\ m_pc' = "destroyed"
    /\ UNCHANGED << running, acceptor, a_pc, c_pc >>

(* The process exits some time after main() returns; the detached threads   *)
(* end with it.                                                             *)
ProcessExit ==
    /\ m_pc = "destroyed"
    /\ m_pc' = "exited"
    /\ c_pc' = [c \in Clients |-> "done"]
    /\ UNCHANGED << running, acceptor, a_pc >>

Stop == StopClose \/ StopJoin \/ Destroy \/ ProcessExit

----------------------------------------------------------------------------
(* acceptLoop()                                                             *)
AcceptCheck ==
    /\ a_pc = "check"
    /\ a_pc' = IF running THEN "accept" ELSE "done"
    /\ UNCHANGED << running, acceptor, c_pc, m_pc >>

(* accept() returns with a connection ...                                   *)
AcceptClient(c) ==
    /\ a_pc = "accept" /\ acceptor = "open"
    /\ c_pc[c] = "none"
    /\ c_pc' = [c_pc EXCEPT ![c] = "queued"]
    /\ a_pc' = "accepted"
    /\ UNCHANGED << running, acceptor, m_pc >>

(* ... or with an error: operation_aborted once the acceptor is closed, or  *)
(* a failure of the system, after which nobody can connect any more.        *)
AcceptFails ==
    /\ a_pc = "accept"
    /\ a_pc' = "done"
    /\ UNCHANGED << running, acceptor, c_pc, m_pc >>

AcceptAborted == acceptor = "closed" /\ AcceptFails

(* if (ec || !running_) break; otherwise a detached thread serves it.       *)
Spawn ==
    /\ a_pc = "accepted"
    /\ c_pc' = [c \in Clients |-> IF c_pc[c] # "queued" THEN c_pc[c]
                                  ELSE IF running THEN "handshake" ELSE "done"]
    /\ a_pc' = IF running THEN "check" ELSE "done"
    /\ UNCHANGED << running, acceptor, m_pc >>

AcceptLoop == AcceptCheck \/ AcceptAborted \/ Spawn

----------------------------------------------------------------------------
(* serveClient().  Reading running_ after Impl is gone is undefined.        *)
SeenRunning == IF m_pc = "destroyed" THEN BOOLEAN ELSE {running}

(* A step of client c from one point of its program to another.             *)
Step(c, from, to) ==
    /\ c_pc[c] = from
    /\ c_pc' = [c_pc EXCEPT ![c] = to]
    /\ UNCHANGED << running, acceptor, a_pc, m_pc >>

Handshake(c) == Step(c, "handshake", "check") \/ Step(c, "handshake", "done")
LoopCheck(c) == \E r \in SeenRunning : Step(c, "check", IF r THEN "sleep" ELSE "close")
Sleep(c) == Step(c, "sleep", "recheck")
Recheck(c) ==
    \E r \in SeenRunning : Step(c, "recheck", IF r THEN "snapshot" ELSE "close")
Snapshot(c) == Step(c, "snapshot", "write")
Write(c) == Step(c, "write", "check") \/ Step(c, "write", "close")
Close(c) == Step(c, "close", "done")

serveClient(c) == \/ Handshake(c) \/ LoopCheck(c) \/ Sleep(c) \/ Recheck(c)
                  \/ Snapshot(c) \/ Write(c) \/ Close(c)

Next == \/ start \/ StartFails \/ StopFlag \/ Stop \/ AcceptLoop \/ AcceptFails
        \/ \E c \in Clients : AcceptClient(c) \/ serveClient(c)

Spec == Init /\ [][Next]_vars

(* The server's own threads run.  Connections, the call of stop(), and      *)
(* progress of a client, which waits for its peer, may never come.          *)
FairSpec ==
    /\ Spec
    /\ WF_vars(Stop) /\ WF_vars(AcceptLoop)

----------------------------------------------------------------------------
(* Impl outlives the accept thread, and once stop() has returned nobody is  *)
(* served who was not served before: a connection that accept() returned    *)
(* while stop() was running is either given its thread before the join or   *)
(* closed.                                                                  *)
StopIsComplete ==
    m_pc \in {"stopped", "destroyed", "exited"} =>
        /\ a_pc = "done"
        /\ \A c \in Clients : c_pc[c] # "queued"

(* stop() returns and the process exits, whatever the accept thread and the *)
(* clients are doing: nobody waits for a client that is slow or silent.     *)
StopTerminates == m_pc = "closing" ~> m_pc = "exited"
============================================================================
