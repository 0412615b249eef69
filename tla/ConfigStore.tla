---------------------------- MODULE ConfigStore -----------------------------
(***************************************************************************)
(* The rules editor's file (config_store.EditableFile): every save names   *)
(* the ETag it started from, and writes under a lock that other saves, in  *)
(* this process or another, respect, and that nothing else on the host     *)
(* does.  Saves die half way: the process is killed, the disk is full.     *)
(*                                                                         *)
(* An ETag is a hash of the content, so a text stands for its ETag too.    *)
(* The clients are the page static/editor.js, which remembers the text and *)
(* the ETag it last loaded or saved (its baseline), and whose requests are *)
(* not answered in the order it sends them.                                *)
(***************************************************************************)
EXTENDS Naturals, FiniteSets, SequencesExt

CONSTANTS
    Client,         \* editors: browser tabs, of one server or of two
    Text,           \* the texts that are saved, and Empty
    Empty,          \* what a missing file reads as
    Missing, Half,  \* no file; one whose writing was cut off
    Nobody, None,
    Keep,           \* HISTORY_KEEP
    MaxSaves, MaxReads, MaxEdits, MaxFaults     \* bounds

ASSUME ConfigStoreAssumption ==
    /\ Empty \in Text /\ {Missing, Half} \cap Text = {} /\ Missing # Half
    /\ None \notin Text
    /\ Nobody \notin Client
    /\ Keep \in Nat \ {0}
    /\ {MaxSaves, MaxReads, MaxEdits, MaxFaults} \subseteq Nat

VARIABLES
    file,           \* rules.yml
    replaceable,    \* os.replace works: not a single-file bind mount
    lock,           \* who holds the flock
    history,        \* the history directory, newest first
    editor,         \* each client: its baseline, its save in progress, its read under way
    meddled,        \* history: clients in whose save someone else wrote the file
    ousted,         \* history: the last whole text a save found and replaced
    saves, reads, edits, faults     \* so far

counters == <<saves, reads, edits, faults>>
vars == <<file, replaceable, lock, history, editor, meddled, ousted, counters>>

Readable == Text \cup {Half}

\* state.baseline: the ETag of the next save, and the content it is compared with.
Baseline == [etag : Readable, content : Readable]
Pair(text) == [etag |-> text, content |-> text]

\* A read the server has answered and the page has not seen yet: one for a tab
\* that is shown again, or one of loadSource.
Reply == [why : {"none", "shown", "load"}, text : Readable]
NoReply == [why |-> "none", text |-> Empty]

Writing == {"backup", "prune", "replace", "create", "rewrite", "answer"}

Editor == [pc : {"closed", "open", "lock", "check"} \cup Writing,
           baseline : Baseline, from : Baseline, reply : Reply,
           text : Text, existed : BOOLEAN, current : Readable]

At(c, pc) == editor[c].pc = pc

TypeOK ==
    /\ file \in Readable \cup {Missing}
    /\ replaceable \in BOOLEAN
    /\ lock \in Client \cup {Nobody}
    /\ history \in Seq(Readable)
    /\ Len(history) <= Keep + faults + Cardinality({c \in Client : At(c, "prune")})
    /\ editor \in [Client -> Editor]
    /\ meddled \subseteq Client
    /\ ousted \in Text \cup {None}
    /\ {saves, reads, edits, faults} \subseteq Nat

Closed == [pc |-> "closed", baseline |-> Pair(Empty), from |-> Pair(Empty), reply |-> NoReply,
           text |-> Empty, existed |-> FALSE, current |-> Empty]

\* A missing file reads as empty.
Read == IF file = Missing THEN Empty ELSE file

Init ==
    /\ file \in Text \cup {Missing}
    /\ replaceable \in BOOLEAN
    /\ lock = Nobody
    /\ history \in {<<>>, [i \in 1..Keep |-> Empty]}  \* none, or full from earlier saves
    /\ editor = [c \in Client |-> Closed]
    /\ meddled = {}
    /\ ousted = None
    /\ saves = 0 /\ reads = 0 /\ edits = 0 /\ faults = 0

Goes(c, pc) == editor' = [editor EXCEPT ![c].pc = pc]

\* The save is over; what it worked with is forgotten.
Over(c) == [Closed EXCEPT !.pc = "open", !.baseline = editor[c].baseline,
                          !.reply = editor[c].reply]
Ends(c) == editor' = [editor EXCEPT ![c] = Over(c)]
EndsWith(c, baseline) == editor' = [editor EXCEPT ![c] = [Over(c) EXCEPT !.baseline = baseline]]
Release == lock' = Nobody

-----------------------------------------------------------------------------
(* The editor.                                                             *)

\* The page is opened, or reloaded.
Open(c) ==
    /\ At(c, "closed") \/ At(c, "open")
    /\ editor' = [editor EXCEPT ![c] = [Closed EXCEPT !.pc = "open", !.baseline = Pair(Read)]]
    /\ meddled' = meddled \ {c}
    /\ UNCHANGED <<file, replaceable, lock, history, ousted, counters>>

\* A GET of the file goes out and is answered.  Bound: one at a time.
Reads(c, why) ==
    /\ editor[c].reply = NoReply
    /\ reads < MaxReads
    /\ reads' = reads + 1
    /\ editor' = [editor EXCEPT ![c] = [Over(c) EXCEPT !.reply = [why |-> why, text |-> Read]]]

\* The tab is shown again, and no save is in progress.
Shown(c) ==
    /\ At(c, "open")
    /\ Reads(c, "shown")
    /\ UNCHANGED <<file, replaceable, lock, history, meddled, ousted, saves, edits, faults>>

\* Mutant of Arrives: only the ETag is taken over, the buffer is left alone.
ArrivesAlone(c) ==
    /\ editor[c].reply # NoReply
    /\ editor' = [editor EXCEPT ![c].reply = NoReply, ![c].baseline.etag = editor[c].reply.text]
    /\ UNCHANGED <<file, replaceable, lock, history, meddled, ousted, counters>>

\* The answer arrives, maybe during or after a save it was sent before.  One to a
\* tab shown again is taken over when it is news and the buffer clean, which is up
\* to the user, who may go on typing while a save is in progress.
Arrives(c) ==
    LET r == editor[c].reply
    IN /\ r # NoReply
       /\ \/ /\ r.why = "shown" => r.text # editor[c].baseline.etag
             /\ editor' = [editor EXCEPT ![c].reply = NoReply, ![c].baseline = Pair(r.text)]
             /\ meddled' = IF At(c, "open") THEN meddled \ {c} ELSE meddled
          \/ /\ r.why = "shown"
             /\ editor' = [editor EXCEPT ![c].reply = NoReply]
             /\ UNCHANGED meddled
       /\ UNCHANGED <<file, replaceable, lock, history, ousted, counters>>

\* The PUT, with the ETag of the baseline.
Save(c, text) ==
    /\ At(c, "open")
    /\ saves < MaxSaves
    /\ saves' = saves + 1
    /\ editor' = [editor EXCEPT ![c].pc = "lock", ![c].text = text, ![c].from = editor[c].baseline]
    /\ UNCHANGED <<file, replaceable, lock, history, meddled, ousted, reads, edits, faults>>

\* 422; or 403, upon which the page loads the file anew (that it may be read-only
\* from then on is left out).
NotValid(c) == Ends(c) /\ UNCHANGED reads
NotWritable(c) == Reads(c, "load")

\* Refused without a look at the content.
Refused(c) ==
    /\ At(c, "lock")
    /\ NotWritable(c) \/ NotValid(c)
    /\ UNCHANGED <<file, replaceable, lock, history, meddled, ousted, saves, edits, faults>>

\* The lock, and the look whether there is a file.
Lock(c) ==
    /\ At(c, "lock")
    /\ lock = Nobody
    /\ lock' = c
    /\ editor' = [editor EXCEPT ![c].pc = "check", ![c].existed = file # Missing]
    /\ UNCHANGED <<file, replaceable, history, meddled, ousted, counters>>

-----------------------------------------------------------------------------
(* write(), under the lock.                                                *)

\* 412 with the current content and its ETag: the user looks at the difference
\* and goes on from it (load, overwrite), or closes the dialog, at once.
Conflict(c) ==
    /\ EndsWith(c, Pair(Read)) \/ Ends(c)
    /\ Release

Proceeds(c) == editor' = [editor EXCEPT
    ![c].current = Read,
    ![c].pc = IF editor[c].existed THEN "backup" ELSE "create"]
Unchanged(c) == editor[c].existed /\ editor[c].text = Read

\* Mutant of Check: the conflict keeps the lock.
CheckKeepsLock(c) ==
    /\ At(c, "check")
    /\ IF editor[c].from.etag # Read THEN Ends(c) ELSE Proceeds(c)
    /\ UNCHANGED <<file, replaceable, lock, history, meddled, ousted, counters>>

Check(c) ==
    /\ At(c, "check")
    /\ \/ editor[c].from.etag # Read /\ Conflict(c)
       \/ \* saved as it is
          editor[c].from.etag = Read /\ Unchanged(c) /\ EndsWith(c, Pair(Read)) /\ Release
       \/ /\ editor[c].from.etag = Read /\ ~Unchanged(c)
          /\ Proceeds(c)
          /\ UNCHANGED lock
    /\ UNCHANGED <<file, replaceable, history, meddled, ousted, counters>>

Backup(c) ==
    /\ At(c, "backup")
    /\ history' = Cons(editor[c].current, history)
    /\ Goes(c, "prune")
    /\ UNCHANGED <<file, replaceable, lock, meddled, ousted, counters>>

\* Mutants of Prune: the newest go; nothing goes.
PruneNewest(c) ==
    /\ At(c, "prune")
    /\ history' = IF Len(history) > Keep THEN Tail(history) ELSE history
    /\ Goes(c, "replace")
    /\ UNCHANGED <<file, replaceable, lock, meddled, ousted, counters>>
PruneNothing(c) ==
    /\ At(c, "prune")
    /\ Goes(c, "replace")
    /\ UNCHANGED <<file, replaceable, lock, history, meddled, ousted, counters>>

Prune(c) ==
    /\ At(c, "prune")
    /\ history' = SubSeq(history, 1, IF Len(history) > Keep THEN Keep ELSE Len(history))
    /\ Goes(c, "replace")
    /\ UNCHANGED <<file, replaceable, lock, meddled, ousted, counters>>

\* The last whole text stays the last whole one while torn ones come and go.
Ousts(c) == ousted' = IF editor[c].current = Half THEN ousted ELSE editor[c].current

\* Mutant of Replace: the answer is read after the lock is released.
ReplaceReleases(c) ==
    /\ At(c, "replace")
    /\ replaceable
    /\ file' = editor[c].text
    /\ Goes(c, "answer")
    /\ Ousts(c)
    /\ Release
    /\ UNCHANGED <<replaceable, history, meddled, counters>>

\* A temporary file takes the place of whatever is there by then; where that
\* cannot be done, the file is rewritten in place.
Replace(c) ==
    /\ At(c, "replace")
    /\ \/ replaceable /\ file' = editor[c].text /\ Goes(c, "answer")
       \/ ~replaceable /\ file # Missing /\ file' = Half /\ Goes(c, "rewrite")
    /\ Ousts(c)
    /\ UNCHANGED <<replaceable, lock, history, meddled, counters>>

\* The file was deleted meanwhile: stat, or the open for rewriting, raises.
ReplaceNothing(c) ==
    /\ At(c, "replace")
    /\ file = Missing
    /\ Ends(c)
    /\ Release
    /\ UNCHANGED <<file, replaceable, history, meddled, ousted, counters>>

\* Opened exclusively: a file that appeared meanwhile is a conflict.
Create(c) ==
    /\ At(c, "create")
    /\ \/ file = Missing /\ file' = Half /\ ousted' = None /\ Goes(c, "rewrite")
          /\ UNCHANGED lock
       \/ file # Missing /\ Conflict(c) /\ UNCHANGED <<file, ousted>>
    /\ UNCHANGED <<replaceable, history, meddled, counters>>

\* The rest of the text, if this is still the file that was opened.
Rewrite(c) ==
    /\ At(c, "rewrite")
    /\ \/ file # Missing /\ file' = editor[c].text
       \/ file # Half /\ UNCHANGED file
    /\ Goes(c, "answer")
    /\ UNCHANGED <<replaceable, lock, history, meddled, ousted, counters>>

\* 200 with the ETag of what is read back; the editor goes on showing its text.
Answer(c) ==
    /\ At(c, "answer")
    /\ EndsWith(c, [etag |-> Read, content |-> editor[c].text])
    /\ Release
    /\ UNCHANGED <<file, replaceable, history, meddled, ousted, counters>>

-----------------------------------------------------------------------------
(* Everybody else.                                                         *)

\* A host-side editor, docker cp, git: no lock, no ETag.
EditFile ==
    /\ edits < MaxEdits
    /\ edits' = edits + 1
    /\ \E f \in Text \cup {Missing} : f # file /\ file' = f
    /\ meddled' = meddled \cup {c \in Client : editor[c].pc \in Writing}
    /\ UNCHANGED <<replaceable, lock, history, editor, ousted, saves, reads, faults>>

\* The process dies, or a call of the operating system raises, under the lock,
\* which goes with it; a backup can be left half written.
SaveDies(c) ==
    /\ lock = c
    /\ faults < MaxFaults
    /\ faults' = faults + 1
    /\ Ends(c)
    /\ Release
    /\ UNCHANGED history \/ (At(c, "backup") /\ history' = Cons(Half, history))
    /\ UNCHANGED <<file, replaceable, meddled, ousted, saves, reads, edits>>

-----------------------------------------------------------------------------
SaveStep(c) ==
    \/ Check(c) \/ Backup(c) \/ Prune(c)
    \/ Replace(c) \/ ReplaceNothing(c) \/ Create(c) \/ Rewrite(c) \/ Answer(c)

Next ==
    \/ \E c \in Client :
         \/ Open(c) \/ Shown(c) \/ Arrives(c) \/ (\E text \in Text : Save(c, text))
         \/ Refused(c) \/ Lock(c) \/ SaveStep(c) \/ SaveDies(c)
    \/ EditFile

Spec == Init /\ [][Next]_vars

\* A save in progress goes on, and who waits for the lock gets it in the end.
FairSpec == Spec /\ \A c \in Client : WF_vars(SaveStep(c)) /\ SF_vars(Lock(c))

-----------------------------------------------------------------------------
(* Correctness.                                                            *)

\* What c's step writes over: the editor had not shown what was there.
Overwrites(c) ==
    /\ editor[c].pc \in {"replace", "create"}
    /\ editor'[c].pc \in {"rewrite", "answer"}

Unseen(c) ==
    LET seen == editor[c].from.content IN file # seen /\ ~(file = Missing /\ seen = Empty)

\* Saves never overwrite each other, nor an edit from outside the editor, unless
\* that edit lands in the middle of a save of this client: "refused ..., whoever
\* changed it (another browser tab, a host-side editor, `docker cp`)".
OverwritesOnlyWhatItShowed ==
    [][\A c \in Client : Overwrites(c) /\ Unseen(c) => c \in meddled]_vars

\* "a save can never silently overwrite a change made elsewhere" (editor.js:9), so
\* the ETag the page sends next must be that of the text it shows.  It is, unless
\* somebody outside the editor wrote the file between the save and the read that
\* answers it: then the page holds the ETag of a text it never saw, and its next
\* save overwrites that text without a conflict.
AnsweredEtagIsOfTheText ==
    \A c \in Client :
        At(c, "open") /\ editor[c].baseline.etag # editor[c].baseline.content => c \in meddled

\* "Which is why the backup is taken first": while the file is torn, the last
\* whole text a save took out of it is in the history, as long as fewer saves
\* died than the history keeps.
TornFileHasABackup ==
    file = Half /\ ousted # None /\ faults < Keep => Contains(history, ousted)

\* Every save is answered: the lock is let go of on every path.
SaveEnds ==
    \A c \in Client : editor[c].pc \notin {"closed", "open"} ~> At(c, "open")
=============================================================================
