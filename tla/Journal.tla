------------------------------- MODULE Journal -------------------------------
(***************************************************************************)
(* The event journal of one turn, and who opens it: writers (`oca f`, the    *)
(* headed helper), readers (`oca events`, page by page) and the pruning in   *)
(* `oca ls`.  They meet at a path and lock the file that they have opened,   *)
(* which pruning may have removed from the path meanwhile.  Records are torn *)
(* by a crash or a failed write.                                             *)
(***************************************************************************)
EXTENDS Naturals, Sequences, FiniteSetsExt

CONSTANTS Actor,      \* processes
          MaxFiles,   \* bound: files that the path has had
          MaxLines,   \* bound: records of a file
          PageLimit,  \* records of a page
          MaxPages    \* bound: pages that a reader asks for

ASSUME JournalAssumption ==
  /\ MaxFiles \in Nat \ {0} /\ MaxLines \in Nat \ {0} /\ MaxPages \in Nat
  /\ PageLimit \in Nat \ {0}

File == 1..MaxFiles
NoFile == 0

VARIABLES
  path,     \* the file at the journal's path
  files,    \* how many files there have been
  lines,    \* the sequence numbers of a file's records
  torn,     \* the file ends with an incomplete record
  old,      \* the file's modification time is past the retention
  role,     \* of each actor: "write", "read" or "prune"
  where, fd, lock, ends,   \* its place, its file, its lock, how it ended
  next,     \* of a writer: next_sequence
  live,     \* of a reader: writer_is_live
  since, got, pages,    \* of a reader: its cursor, what it has shown, its pages
  moved     \* ghost: actors whose file was removed from the path

store == <<path, files, lines, torn, old>>
reading == <<live, since, got, pages>>
journalVars == <<store, role, where, fd, lock, ends, next, reading, moved>>

JournalTypeOK ==
  /\ files \in 0..MaxFiles /\ path \in 0..files
  /\ lines \in [File -> Seq(1..MaxLines)]
  /\ torn \in [File -> BOOLEAN] /\ old \in [File -> BOOLEAN]
  /\ role \in [Actor -> {"write", "read", "prune"}]
  /\ where \in [Actor -> {"open", "lock", "scan", "append", "flush", "stat", "read", "remove",
                       "ended", "killed"}]
  /\ fd \in [Actor -> 0..files]
  /\ lock \in [Actor -> {"none", "shared", "exclusive"}]
  /\ ends \in [Actor -> {"none", "ok", "writer_active", "corrupt", "io"}]
  /\ next \in [Actor -> 1..(MaxLines + 1)]
  /\ live \in [Actor -> BOOLEAN]
  /\ since \in [Actor -> 0..MaxLines] /\ got \in [Actor -> Seq(1..MaxLines)]
  /\ pages \in [Actor -> 0..MaxPages]
  /\ moved \subseteq Actor
  /\ \A p, q \in Actor :
       lock[p] = "exclusive" /\ lock[q] # "none" /\ fd[p] = fd[q] => p = q

(* An earlier writer may have left a journal, whole or torn.                 *)
JournalInit ==
  /\ path \in {0, 1} /\ files = path
  /\ lines = [f \in File |-> IF f = path THEN <<1>> ELSE <<>>]
  /\ torn \in [File -> BOOLEAN] /\ \A f \in File : torn[f] => f = path
  /\ old = [f \in File |-> FALSE]
  /\ role \in [Actor -> {"write", "read", "prune"}]
  /\ where = [p \in Actor |-> IF role[p] = "prune" THEN "stat" ELSE "open"]
  /\ fd = [p \in Actor |-> NoFile] /\ lock = [p \in Actor |-> "none"]
  /\ ends = [p \in Actor |-> "none"]
  /\ next = [p \in Actor |-> 1]
  /\ live = [p \in Actor |-> FALSE]
  /\ since = [p \in Actor |-> 0] /\ got = [p \in Actor |-> <<>>]
  /\ pages = [p \in Actor |-> 0]
  /\ moved = {}

Go(p, from, to) == where[p] = from /\ where' = [where EXCEPT ![p] = to]

(* The end of a process closes its file.                                     *)
Close(p, from, how) ==
  /\ Go(p, from, "ended")
  /\ ends' = [ends EXCEPT ![p] = how]
  /\ lock' = [lock EXCEPT ![p] = "none"]

Stay == UNCHANGED <<lock, ends>>

(* flock without waiting.                                                   *)
Free(p, mode) ==
  \A q \in Actor \ {p} : fd[q] = fd[p] /\ lock[q] # "none" =>
    mode = "shared" /\ lock[q] = "shared"

-----------------------------------------------------------------------------
(* EventJournal::create, append and finish                                  *)

OpenToWrite(p) ==
  /\ role[p] = "write"
  /\ Go(p, "open", "lock")
  /\ IF path = NoFile
     THEN /\ files < MaxFiles
          /\ files' = files + 1 /\ path' = files + 1
     ELSE UNCHANGED <<files, path>>
  /\ fd' = [fd EXCEPT ![p] = path']
  /\ Stay
  /\ UNCHANGED <<lines, torn, old, role, next, reading, moved>>

LockToWrite(p) ==
  /\ role[p] = "write"
  /\ IF Free(p, "exclusive")
     THEN /\ Go(p, "lock", "scan")
          /\ lock' = [lock EXCEPT ![p] = "exclusive"]
          /\ UNCHANGED ends
     ELSE Close(p, "lock", "writer_active")
  /\ UNCHANGED <<store, role, fd, next, reading, moved>>

NextSequence(f) ==
  IF f = NoFile \/ lines[f] = <<>> THEN 1 ELSE lines[f][Len(lines[f])] + 1

(* next_sequence looks at the path, not at the file.                         *)
ScanPath(p) ==
  /\ IF path # NoFile /\ torn[path]
     THEN Close(p, "scan", "corrupt") /\ UNCHANGED next
     ELSE /\ Go(p, "scan", "append")
          /\ next' = [next EXCEPT ![p] = NextSequence(path)]
          /\ Stay
  /\ UNCHANGED <<store, role, fd, reading, moved>>

BeginRecord(p) ==
  /\ Go(p, "append", "flush")
  /\ next[p] <= MaxLines /\ Len(lines[fd[p]]) < MaxLines
  /\ torn' = [torn EXCEPT ![fd[p]] = TRUE]
  /\ old' = [old EXCEPT ![fd[p]] = FALSE]
  /\ Stay
  /\ UNCHANGED <<path, files, lines, role, fd, next, reading, moved>>

EndRecord(p) ==
  /\ Go(p, "flush", "append")
  /\ torn' = [torn EXCEPT ![fd[p]] = FALSE]
  /\ lines' = [lines EXCEPT ![fd[p]] = Append(@, next[p])]
  /\ next' = [next EXCEPT ![p] = next[p] + 1]
  /\ Stay
  /\ UNCHANGED <<path, files, old, role, fd, reading, moved>>

WriteFails(p) ==
  /\ Close(p, "flush", "io")
  /\ UNCHANGED <<store, role, fd, next, reading, moved>>

EndWriting(p) ==
  /\ Close(p, "append", "ok")
  /\ UNCHANGED <<store, role, fd, next, reading, moved>>

-----------------------------------------------------------------------------
(* EventJournal::open and page                                              *)

OpenToRead(p) ==
  /\ role[p] = "read"
  /\ IF path = NoFile THEN Close(p, "open", "ok") ELSE Go(p, "open", "lock") /\ Stay
  /\ fd' = [fd EXCEPT ![p] = path]
  /\ UNCHANGED <<store, role, next, reading, moved>>

(* Mutant of TryShared: the lock that tells that no writer lives is not kept. *)
TrySharedBriefly(p) ==
  /\ role[p] = "read"
  /\ Go(p, "lock", "read")
  /\ live' = [live EXCEPT ![p] = ~Free(p, "shared")]
  /\ Stay
  /\ UNCHANGED <<store, role, fd, next, since, got, pages, moved>>

TryShared(p) ==
  /\ role[p] = "read"
  /\ Go(p, "lock", "read")
  /\ live' = [live EXCEPT ![p] = ~Free(p, "shared")]
  /\ lock' = [lock EXCEPT ![p] = IF Free(p, "shared") THEN "shared" ELSE "none"]
  /\ UNCHANGED <<store, role, fd, ends, next, since, got, pages, moved>>

(* SelectSeq(s, LAMBDA n : n > cursor), as a function that can be reasoned     *)
(* about.                                                                   *)
After(s, cursor) ==
  LET after[i \in 0..Len(s)] ==
        IF i = 0 THEN <<>>
        ELSE IF s[i] > cursor THEN Append(after[i - 1], s[i]) ELSE after[i - 1]
  IN  after[Len(s)]

Newer(p) == After(lines[path], since[p])
Page(p) == SubSeq(Newer(p), 1, Min({PageLimit, Len(Newer(p))}))

(* Mutant of NewCursor: the cursor moves on to the newest record.            *)
NewCursorLast(p) == IF Newer(p) = <<>> THEN since[p] ELSE Newer(p)[Len(Newer(p))]

NewCursor(p) == IF Page(p) = <<>> THEN since[p] ELSE Page(p)[Len(Page(p))]

(* The path is read, which is not what the lock is on if it was pruned.      *)
ReadPage(p) ==
  \/ /\ path = NoFile
     /\ Close(p, "read", "io")
     /\ UNCHANGED <<since, got>>
  \/ /\ path # NoFile /\ torn[path] /\ ~live[p]
     /\ Close(p, "read", "corrupt")
     /\ UNCHANGED <<since, got>>
  \/ /\ path # NoFile /\ (torn[path] => live[p])
     /\ Close(p, "read", "ok")
     /\ got' = [got EXCEPT ![p] = got[p] \o Page(p)]
     /\ since' = [since EXCEPT ![p] = NewCursor(p)]

ReadPath(p) ==
  /\ ReadPage(p)
  /\ UNCHANGED <<store, role, fd, next, live, pages, moved>>

(* The next `oca events --since`.                                            *)
NextPage(p) ==
  /\ role[p] = "read" /\ ends[p] = "ok" /\ pages[p] < MaxPages
  /\ Go(p, "ended", "open")
  /\ ends' = [ends EXCEPT ![p] = "none"]
  /\ pages' = [pages EXCEPT ![p] = pages[p] + 1]
  /\ UNCHANGED <<store, role, fd, lock, next, live, since, got, moved>>

-----------------------------------------------------------------------------
(* prune_expired_journals                                                   *)

StatJournal(p) ==
  /\ IF path # NoFile /\ old[path]
     THEN Go(p, "stat", "open") /\ Stay
     ELSE Close(p, "stat", "ok")
  /\ UNCHANGED <<store, role, fd, next, reading, moved>>

OpenToPrune(p) ==
  /\ role[p] = "prune"
  /\ IF path = NoFile THEN Close(p, "open", "io") ELSE Go(p, "open", "lock") /\ Stay
  /\ fd' = [fd EXCEPT ![p] = path]
  /\ UNCHANGED <<store, role, next, reading, moved>>

(* Mutant of LockToPrune: an expired journal is taken to be idle.            *)
LockToPruneNot(p) ==
  /\ role[p] = "prune"
  /\ Go(p, "lock", "remove")
  /\ Stay
  /\ UNCHANGED <<store, role, fd, next, reading, moved>>

LockToPrune(p) ==
  /\ role[p] = "prune"
  /\ IF Free(p, "shared")
     THEN /\ Go(p, "lock", "remove")
          /\ lock' = [lock EXCEPT ![p] = "shared"]
          /\ UNCHANGED ends
     ELSE Close(p, "lock", "ok")
  /\ UNCHANGED <<store, role, fd, next, reading, moved>>

RemoveJournal(p) ==
  /\ Close(p, "remove", IF path = NoFile THEN "io" ELSE "ok")
  /\ path' = NoFile
  /\ moved' = moved \cup {q \in Actor \ {p} : where[q] \notin {"ended", "killed"} /\ fd[q] = path}
  /\ UNCHANGED <<files, lines, torn, old, role, fd, next, reading>>

-----------------------------------------------------------------------------

(* A journal that nobody has written for the retention period.              *)
AgeJournal ==
  /\ path # NoFile
  /\ old' = [old EXCEPT ![path] = TRUE]
  /\ UNCHANGED <<path, files, lines, torn, role, where, fd, lock, ends, next, reading, moved>>

KillActor(p) ==
  /\ where[p] \notin {"ended", "killed"}
  /\ where' = [where EXCEPT ![p] = "killed"]
  /\ lock' = [lock EXCEPT ![p] = "none"]
  /\ UNCHANGED <<store, role, fd, ends, next, reading, moved>>

Write(p) ==
  \/ OpenToWrite(p) \/ LockToWrite(p) \/ ScanPath(p) \/ BeginRecord(p) \/ EndRecord(p)
  \/ WriteFails(p) \/ EndWriting(p)
Read(p) == OpenToRead(p) \/ TryShared(p) \/ ReadPath(p) \/ NextPage(p)
Prune(p) == StatJournal(p) \/ OpenToPrune(p) \/ LockToPrune(p) \/ RemoveJournal(p)

JournalNext ==
  \/ \E p \in Actor : Write(p) \/ Read(p) \/ Prune(p) \/ KillActor(p)
  \/ AgeJournal

JournalSpec == JournalInit /\ [][JournalNext]_journalVars

-----------------------------------------------------------------------------

(* The pruning of `oca ls` never removes a journal that somebody has locked   *)
(* to write it, whatever happens between its look at the age and the removal. *)
(* The removal goes by the path, though: a pruning whose file another one has *)
(* removed meanwhile may take the journal of a new writer.                    *)
PruneSparesWriters ==
  [][\A p, q \in Actor :
       /\ path' # path /\ path' = NoFile
       /\ where[p] = "remove" /\ where'[p] = "ended" /\ p \notin moved
       /\ where[q] \in {"scan", "append", "flush"}
       => fd[q] # path]_journalVars

(* A journal is reported corrupt only if a record of it is torn for good: a   *)
(* reader never takes the record that a writer is at for damage, unless the   *)
(* file that it has locked was pruned and replaced.                           *)
CorruptionIsReal ==
  [][\A p \in Actor : ends'[p] = "corrupt" /\ ends[p] # "corrupt" /\ p \notin moved =>
       \A q \in Actor : where[q] = "flush" => fd[q] # path]_journalVars

Intact == files <= 1 /\ path = files

(* The records of a journal are numbered without a gap by one writer after    *)
(* another, some of them killed, and page after page a reader gets each of    *)
(* them once and in order; as long as the journal was not pruned.             *)
PagesAreComplete ==
  Intact =>
    /\ \A f \in File : lines[f] = [n \in 1..Len(lines[f]) |-> n]
    /\ \A p \in Actor : got[p] = [n \in 1..since[p] |-> n]

(* Why the first two hold: who writes has its file locked against everybody,  *)
(* who prunes, or reads in the belief that no writer lives, against writers;  *)
(* and the file is the one at the path, unless it was taken from there.       *)
JournalInv ==
  /\ \A p, q \in Actor :
       lock[p] = "exclusive" /\ lock[q] # "none" /\ fd[p] = fd[q] => p = q
  /\ \A p \in Actor :
       /\ where[p] \in {"open", "stat", "lock", "ended", "killed"} => lock[p] = "none"
       /\ where[p] \in {"scan", "append", "flush"} => lock[p] = "exclusive"
       /\ where[p] = "remove" => lock[p] = "shared"
       /\ where[p] = "read" /\ ~live[p] => lock[p] = "shared"
       /\ p \notin moved /\ where[p] \in {"lock", "scan", "append", "flush", "read", "remove"} =>
            fd[p] = path /\ path # NoFile

(* And why the pages are: until something is pruned there is one file at most, *)
(* and its writer has the number of its next record.                         *)
PagesInv ==
  /\ files \in 0..MaxFiles /\ path \in 0..files
  /\ Intact =>
       /\ moved = {}
       /\ lines \in [File -> Seq(Nat)] /\ \A f \in File \ {path} : lines[f] = <<>>
       /\ next \in [Actor -> Nat]
       /\ since \in [Actor -> Nat] /\ got \in [Actor -> Seq(Nat)]
       /\ \A p \in Actor : where[p] \in {"append", "flush"} =>
            next[p] = Len(lines[path]) + 1
  /\ PagesAreComplete
=============================================================================
