------------------------------- MODULE Tunnel -------------------------------
(***************************************************************************)
(* deploy/tunnel/run.py: keeps one ssh child connected to localhost.run,   *)
(* writes the address the child announces to URL_FILE and starts a new     *)
(* child 5 seconds after the last one ended.  SIGTERM and SIGINT run       *)
(* shutdown() in the main thread, between any two of its steps.            *)
(*                                                                         *)
(* Children are named relative to the last one started: "current" is that  *)
(* one, "old" any earlier one, so no counter bounds the reconnections.  Of *)
(* what ssh prints only the lines that announce an address are kept.       *)
(***************************************************************************)

VARIABLES
    pc,       \* the next step of main(), or how the program ended
    stop,     \* STOP
    handler,  \* "set" while shutdown() is inside STOP.set(), "stuck" if it cannot
    process,  \* which child the global process refers to
    child,    \* the last child: "alive", "asked" to end, or "dead"
    unread,   \* an announcement is waiting in the child's stdout
    file      \* whose address URL_FILE holds

vars == <<pc, stop, handler, process, child, unread, file>>

Ended == {"exited", "crashed", "killed"}
Steps == {"boot", "check", "clear", "spawn", "assign", "read", "test", "write",
          "replace", "wait", "clean", "unwind", "enter", "sleep", "leave"}
Running == child \in {"alive", "asked"}

TypeOK ==
    /\ pc \in Steps \cup Ended
    /\ stop \in BOOLEAN
    /\ handler \in {"idle", "set", "stuck"}
    /\ process \in {"none", "old", "current"}
    /\ child \in {"none", "alive", "asked", "dead"}
    /\ unread \in BOOLEAN
    /\ file \in {"none", "old", "current"}

\* The container starts with no file and no child.
Init ==
    /\ pc = "boot"
    /\ stop = FALSE
    /\ handler = "idle"
    /\ process = "none"
    /\ child = "none"
    /\ unread = FALSE
    /\ file = "none"

\* A step of main(): the handler is not running.
Goes(from, to) ==
    /\ pc = from
    /\ handler = "idle"
    /\ pc' = to

-----------------------------------------------------------------------------
(* main()                                                                  *)

\* Directories, the stale file and the key; then the handlers are installed.
Boot ==
    /\ Goes("boot", "check")
    /\ file' = "none"
    /\ UNCHANGED <<stop, handler, process, child, unread>>

\* ssh-keygen runs after the stale file is gone, and may fail.
BootFails ==
    /\ Goes("boot", "crashed")
    /\ file' = "none"
    /\ UNCHANGED <<stop, handler, process, child, unread>>

\* Mutant: one connection is all there is.
CheckStopOnce ==
    /\ Goes("check", IF stop \/ process = "current" THEN "exited" ELSE "clear")
    /\ UNCHANGED <<stop, handler, process, child, unread, file>>

\* while not STOP.is_set()
CheckStop ==
    /\ Goes("check", IF stop THEN "exited" ELSE "clear")
    /\ UNCHANGED <<stop, handler, process, child, unread, file>>

Clear ==
    /\ Goes("clear", "spawn")
    /\ file' = "none"
    /\ UNCHANGED <<stop, handler, process, child, unread>>

Older(name) == IF name = "current" THEN "old" ELSE name

\* Popen() has started ssh; its result is not yet in process.
Spawn ==
    /\ Goes("spawn", "assign")
    /\ child' = "alive"
    /\ unread' = FALSE
    /\ process' = Older(process)
    /\ file' = Older(file)
    /\ UNCHANGED <<stop, handler>>

SpawnFails ==
    /\ Goes("spawn", "unwind")
    /\ UNCHANGED <<stop, handler, process, child, unread, file>>

Assign ==
    /\ Goes("assign", "read")
    /\ process' = "current"
    /\ UNCHANGED <<stop, handler, child, unread, file>>

\* The next line announces an address.
ReadUrl ==
    /\ unread
    /\ Goes("read", "test")
    /\ unread' = FALSE
    /\ UNCHANGED <<stop, handler, process, child, file>>

ReadEnd ==
    /\ ~unread
    /\ ~Running
    /\ Goes("read", "wait")
    /\ UNCHANGED <<stop, handler, process, child, unread, file>>

\* if url and not STOP.is_set()
TestStop ==
    /\ Goes("test", IF stop THEN "read" ELSE "write")
    /\ UNCHANGED <<stop, handler, process, child, unread, file>>

\* The second name of the file is written; the disk may refuse.
Write ==
    /\ Goes("write", "replace") \/ Goes("write", "unwind")
    /\ UNCHANGED <<stop, handler, process, child, unread, file>>

Replace ==
    /\ Goes("replace", "read")
    /\ file' = "current"
    /\ UNCHANGED <<stop, handler, process, child, unread>>

Wait ==
    /\ ~Running
    /\ Goes("wait", "clean")
    /\ UNCHANGED <<stop, handler, process, child, unread, file>>

\* Mutant: the finally clause is missing, as the next round clears the file too.
CleanedLater(name) == name

\* What the finally clause leaves of the file.
Cleaned(name) == "none"

\* finally, then the test of STOP before the pause
Clean ==
    /\ Goes("clean", IF stop THEN "check" ELSE "enter")
    /\ file' = Cleaned(file)
    /\ UNCHANGED <<stop, handler, process, child, unread>>

\* finally under an exception: main() ends, and the container with it.
Unwind ==
    /\ Goes("unwind", "crashed")
    /\ file' = Cleaned(file)
    /\ child' = IF Running THEN "dead" ELSE child
    /\ UNCHANGED <<stop, handler, process, unread>>

\* STOP.wait(5) holds STOP's lock on its way in and on its way out.
EnterPause ==
    /\ Goes("enter", IF stop THEN "leave" ELSE "sleep")
    /\ UNCHANGED <<stop, handler, process, child, unread, file>>

Wake ==
    /\ Goes("sleep", "leave")
    /\ UNCHANGED <<stop, handler, process, child, unread, file>>

LeavePause ==
    /\ Goes("leave", "check")
    /\ UNCHANGED <<stop, handler, process, child, unread, file>>

Main ==
    \/ Boot \/ BootFails \/ CheckStop \/ Clear \/ Spawn \/ SpawnFails \/ Assign
    \/ ReadUrl \/ ReadEnd \/ TestStop \/ Write \/ Replace \/ Wait
    \/ Clean \/ Unwind \/ EnterPause \/ Wake \/ LeavePause

-----------------------------------------------------------------------------
(* shutdown()                                                              *)

\* STOP's lock is not reentrant: who holds it is the thread that is interrupted.
Locked == pc \in {"enter", "leave"} \/ handler = "set"

Signal ==
    /\ pc \notin Ended \cup {"boot"}
    /\ handler # "stuck"
    /\ handler' = IF Locked THEN "stuck" ELSE "set"
    /\ UNCHANGED <<pc, stop, process, child, unread, file>>

\* Mutant: shutdown() leaves the child to the loop, which will see STOP.
AskedNever == child

\* What shutdown() makes of the child process refers to.
Asked == IF process = "current" /\ child = "alive" THEN "asked" ELSE child

Shutdown ==
    /\ handler = "set"
    /\ handler' = "idle"
    /\ stop' = TRUE
    /\ file' = "none"
    /\ child' = Asked
    /\ UNCHANGED <<pc, process, unread>>

-----------------------------------------------------------------------------
(* The child and the container                                             *)

Announce ==
    /\ Running
    /\ unread' = TRUE
    /\ UNCHANGED <<pc, stop, handler, process, child, file>>

\* The connection is lost or SIGTERM takes effect.
Die ==
    /\ Running
    /\ child' = "dead"
    /\ UNCHANGED <<pc, stop, handler, process, unread, file>>

\* The container is killed, with everything in it; the file stays.
Kill ==
    /\ pc \notin Ended
    /\ pc' = "killed"
    /\ child' = IF Running THEN "dead" ELSE child
    /\ UNCHANGED <<stop, handler, process, unread, file>>

\* restart: unless-stopped
Restart ==
    /\ pc \in Ended
    /\ pc' = "boot"
    /\ stop' = FALSE
    /\ handler' = "idle"
    /\ process' = "none"
    /\ unread' = FALSE
    /\ UNCHANGED <<child, file>>

Next == Main \/ Signal \/ Shutdown \/ Announce \/ Die \/ Kill \/ Restart

\* Python runs on even between signals that keep coming, ends a handler it has
\* begun and wakes from a pause; a child that was asked to end does.  Nothing
\* else is promised of ssh, of the network or of signals.
Fairness ==
    /\ SF_vars(Main)
    /\ WF_vars(Shutdown)
    /\ WF_vars(Die /\ child = "asked")

Spec == Init /\ [][Next]_vars
FairSpec == Spec /\ Fairness

-----------------------------------------------------------------------------
(* The file never names a child that another one has replaced.             *)
PublishedIsCurrent == file # "old"

\* However the program ends by itself, and whenever it pauses between two
\* children, the file is gone, even if shutdown() removed it and the line being
\* read at that moment published it again.
GoneWhenDone == pc \in {"exited", "crashed", "enter", "sleep", "leave"} => file = "none"

\* Between the test of STOP and the assignment of the new child shutdown() knows
\* an earlier child at most, so a signal then leaves the new one running.
Blind == pc \in {"clear", "spawn", "assign"}

\* Any other signal ends the program, unless it interrupts a holder of STOP's
\* lock: shutdown() then waits for the very thread it runs in.
StopEnds == (handler = "set" /\ ~Blind) ~> (pc \in Ended \/ handler = "stuck")

\* A child that ended is replaced as long as nobody stops the program and no
\* error ends it.
Reconnects ==
    child = "dead" ~>
        (child = "alive" \/ stop \/ handler = "stuck" \/ pc \in {"crashed", "killed"})
=============================================================================
