------------------------------ MODULE CmdWatch ------------------------------
(***************************************************************************)
(* cmd-watch: runs a command whenever an interesting file of the directory *)
(* has changed (extension-cmd-watch/cmd-watch.c).  It looks at the files   *)
(* one after the other, and remembers a single modification time, the      *)
(* newest it has ever seen, for all of them; meanwhile an editor saves     *)
(* files, each time by removing the file and writing it again.             *)
(***************************************************************************)
EXTENDS Integers

CONSTANTS
    Files,          \* in the directory
    Interesting,    \* those whose suffix is in suffixes[]
    LastSecond      \* bound: the clock stops here

VARIABLES
    last_mtime, changed_p,
    entries,        \* what readdir has still to return
    watch,          \* "sleep", "scan", "run", "waitpid" or "exited"
    exists, modified,   \* the files: are they there, st_mtime
    clock,          \* in seconds, as st_mtime
    dirty           \* history: saved since the command was last started

scan == <<last_mtime, changed_p, entries>>
files == <<exists, modified, clock>>
watchVars == <<scan, watch, files, dirty>>

Init ==
    /\ last_mtime = 0 /\ changed_p = FALSE /\ entries = {} /\ watch = "sleep"
    /\ exists = [f \in Files |-> TRUE] /\ modified = [f \in Files |-> 1] /\ clock = 1
    /\ dirty = {}

-----------------------------------------------------------------------------
\* check_activity begins after the half second.
Opendir ==
    /\ watch = "sleep"
    /\ entries' = Files /\ changed_p' = FALSE /\ watch' = "scan"
    /\ UNCHANGED <<last_mtime, files, dirty>>

\* Variant for mutation: a second later does not count.
NewerBySeconds(f) == f \in Interesting /\ exists[f] /\ modified[f] > last_mtime + 1

\* stat succeeds, and the file is newer than all that was seen.
Newer(f) == f \in Interesting /\ exists[f] /\ modified[f] > last_mtime

Seen(f) == changed_p \/ Newer(f)

Newest(f) == IF Newer(f) THEN modified[f] ELSE last_mtime

\* One turn of the loop over the directory.
Stat(f) ==
    /\ watch = "scan" /\ f \in entries
    /\ entries' = entries \ {f}
    /\ changed_p' = Seen(f) /\ last_mtime' = Newest(f)
    /\ UNCHANGED <<watch, files, dirty>>

Closedir ==
    /\ watch = "scan" /\ entries = {}
    /\ watch' = IF changed_p THEN "run" ELSE "sleep"
    /\ UNCHANGED <<scan, files, dirty>>

\* The child reads the files as they are now; fork may fail.
Fork ==
    /\ watch = "run"
    /\ \/ watch' = "waitpid" /\ dirty' = {}
       \/ watch' = "exited" /\ UNCHANGED dirty
    /\ UNCHANGED <<scan, files>>

\* The exit status of the command is printed and nothing else.
Waitpid ==
    /\ watch = "waitpid" /\ watch' = "sleep"
    /\ UNCHANGED <<scan, files, dirty>>

Remove(f) ==
    /\ exists[f] /\ clock < LastSecond
    /\ exists' = [exists EXCEPT ![f] = FALSE]
    /\ UNCHANGED <<scan, watch, modified, clock, dirty>>

Save(f) ==
    /\ ~exists[f]
    /\ exists' = [exists EXCEPT ![f] = TRUE]
    /\ modified' = [modified EXCEPT ![f] = clock]
    /\ dirty' = dirty \union ({f} \intersect Interesting)
    /\ UNCHANGED <<scan, watch, clock>>

Second ==
    /\ clock < LastSecond /\ clock' = clock + 1
    /\ UNCHANGED <<scan, watch, exists, modified, dirty>>

Watch == Opendir \/ Closedir \/ Fork \/ Waitpid \/ \E f \in Files : Stat(f)
Next == Watch \/ Second \/ \E f \in Files : Remove(f) \/ Save(f)

\* The tool and the clock go on, and an editor writes the file it has removed.
Fairness ==
    /\ WF_watchVars(Watch) /\ WF_watchVars(Second)
    /\ \A f \in Files : WF_watchVars(Save(f))
Spec == Init /\ [][Next]_watchVars /\ Fairness

-----------------------------------------------------------------------------
TypeOK ==
    /\ last_mtime \in 0..clock /\ changed_p \in BOOLEAN /\ entries \subseteq Files
    /\ watch \in {"sleep", "scan", "run", "waitpid", "exited"}
    /\ dirty \subseteq Interesting
    /\ (watch # "scan" => entries = {})

\* One time for all the files is enough in so far as the time of a save that
\* the command has not seen is never below it, unless the command is about to
\* be run (cmd-watch.c:52-59).
NoSaveOvertaken ==
    \A f \in dirty : exists[f] => modified[f] >= last_mtime \/ changed_p

\* A save in a later second than any that was seen is followed by a start of
\* the command, whatever is saved or removed and written again while the
\* directory is being read, unless fork fails and ends the tool.  A save in a
\* second that was already seen is not "Fresh" and is never noticed
\* (cmd-watch.c:56), although the comment promises "any" change (29-31).
Fresh(f) == f \in dirty /\ modified[f] > last_mtime
Settled(f) == f \notin dirty \/ watch = "exited"
SavesBuilt == \A f \in Interesting : Fresh(f) ~> Settled(f)
-----------------------------------------------------------------------------
(* Why: what is saved while nothing is read is saved at the latest time.   *)

Types ==
    /\ last_mtime \in Nat /\ clock \in Nat /\ last_mtime <= clock
    /\ exists \in [Files -> BOOLEAN] /\ modified \in [Files -> Nat]
    /\ \A f \in Files : modified[f] <= clock
    /\ dirty \subseteq Files

\* Outside of a scan and of what it led to, changed_p is not relied on.
NoneOvertaken ==
    watch \in {"sleep", "waitpid"} => \A f \in dirty : exists[f] => modified[f] >= last_mtime

IInv == Types /\ NoSaveOvertaken /\ NoneOvertaken
=============================================================================
