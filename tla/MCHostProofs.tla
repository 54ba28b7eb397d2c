----------------------------- MODULE MCHostProofs -----------------------------
(***************************************************************************)
(* The invariant of the host, from those of its parts: while one part runs,   *)
(* each step of the host is a step of that part.                             *)
(***************************************************************************)
EXTENDS MCHost, HostProofs, InvocationProofs

(* What each part's proof keeps.                                             *)
JournalPart == JournalIInv /\ PagesInv /\ RecordInv

FollowPart ==
  /\ DisplayInv /\ JournalingInv /\ TrackingInv /\ TellingInv /\ HistoryInv
  /\ TypingInv /\ ScreenTyped

HostIInv ==
  /\ part = "publication" => PublicationInv
  /\ part = "journal" => JournalPart
  /\ part = "follow" => FollowPart
  /\ part = "spawner" => SpawnerInv
  /\ part = "line" => LineTypeOK

(* Whichever part runs, it has its invariant at first.                       *)
LEMMA InitHost == HostInit => HostIInv
<1> SUFFICES ASSUME HostInit PROVE HostIInv
  OBVIOUS
<1>1. ASSUME part = "publication" PROVE PublicationInv
  <2>1. PublicationInit
    BY <1>1 DEF HostInit, PublicationStarts
  <2>2. QED
    BY <2>1, InitPublication
<1>2. ASSUME part = "journal" PROVE JournalPart
  <2>1. JournalInit
    BY <1>2 DEF HostInit, JournalStarts
  <2>2. QED
    BY <2>1, InitJournal, InitPages, InitRecords DEF JournalPart
<1>3. ASSUME part = "follow" PROVE FollowPart
  <2>1. HeadedInit
    BY <1>3 DEF HostInit
  <2>2. FollowInit /\ ScreenTyped
    BY <2>1 DEF HeadedInit, ScreenTyped
  <2>3. QED
    BY <2>1, <2>2, InitDisplay, InitJournaling, InitTracking, InitTelling,
       InitHistory, InitTyping
       DEF FollowPart
<1>4. ASSUME part = "spawner" PROVE SpawnerInv
  <2>1. SpawnerInit
    BY <1>4 DEF HostInit
  <2>2. QED
    BY <2>1, InitSpawner
<1>5. ASSUME part = "line" PROVE LineTypeOK
  <2>1. LineInit
    BY <1>5 DEF HostInit
  <2>2. QED
    BY <2>1, InitLine
<1>6. QED
  BY <1>1, <1>2, <1>3, <1>4, <1>5 DEF HostIInv

LEMMA NextHost == HostIInv /\ [HostNext]_hostVars => HostIInv'
<1> SUFFICES ASSUME HostIInv, [HostNext]_hostVars PROVE HostIInv'
  OBVIOUS
<1>0. /\ part' = part
      /\ part = "publication" => [PublicationNext]_pubVars
      /\ part = "journal" => [JournalNext]_journalVars
      /\ part = "follow" => [HeadedNext]_headedVars
      /\ part = "spawner" => [SpawnerNext]_spawnerVars
      /\ part = "line" => [LineNext]_lineVars
  BY DEF HostNext, hostVars
<1>1. ASSUME part = "publication" PROVE PublicationInv'
  <2>1. PublicationInv /\ [PublicationNext]_pubVars
    BY <1>0, <1>1 DEF HostIInv
  <2>2. QED
    BY <2>1, NextPublication
<1>2. ASSUME part = "journal" PROVE JournalPart'
  <2>1. JournalIInv /\ PagesInv /\ RecordInv /\ [JournalNext]_journalVars
    BY <1>0, <1>2 DEF HostIInv, JournalPart
  <2>2. JournalIInv' /\ PagesInv' /\ RecordInv'
    BY <2>1, NextJournal, NextPages, NextRecordInv
  <2>3. QED
    BY <2>2 DEF JournalPart
<1>3. ASSUME part = "follow" PROVE FollowPart'
  <2>1. /\ DisplayInv /\ JournalingInv /\ TrackingInv /\ TellingInv /\ HistoryInv
        /\ TypingInv /\ ScreenTyped /\ [HeadedNext]_headedVars
    BY <1>0, <1>3 DEF HostIInv, FollowPart
  <2>2. JournalingInv' /\ TrackingInv' /\ TellingInv' /\ HistoryInv'
    BY <2>1, HelperFollows, HelperKeepsTelling, HelperKeepsHistory
  <2>3. DisplayInv' /\ TypingInv' /\ ScreenTyped'
    BY <2>1, NextDisplay, HelperKeepsTypes
  <2>4. QED
    BY <2>2, <2>3 DEF FollowPart
<1>4. ASSUME part = "spawner" PROVE SpawnerInv'
  <2>1. SpawnerInv /\ [SpawnerNext]_spawnerVars
    BY <1>0, <1>4 DEF HostIInv
  <2>2. QED
    BY <2>1, NextSpawner
<1>5. ASSUME part = "line" PROVE LineTypeOK'
  <2>1. LineTypeOK /\ [LineNext]_lineVars
    BY <1>0, <1>5 DEF HostIInv
  <2>2. QED
    BY <2>1, NextLine
<1>6. QED
  BY <1>0, <1>1, <1>2, <1>3, <1>4, <1>5 DEF HostIInv

(* Of a host, whose parts share no state and of which one runs, what each     *)
(* part's types and invariants say holds for any commands, files, processes,  *)
(* turns and command lines: publication, the event journal, the follow with   *)
(* its display, the spawner tag and the parser of the command line.           *)
THEOREM HostInvariant == HostSpec => []HostInv
<1>1. HostIInv => HostInv
  <2>1. JournalPart => JournalTypeOK /\ JournalInv /\ PagesInv
    BY JournalIsTyped DEF JournalPart, JournalIInv
  <2>2. FollowPart =>
          /\ HeadedTypeOK /\ DisplayInv /\ JournalingInv /\ TrackingInv /\ TellingInv
          /\ HistoryInv
    BY FollowIsTyped DEF FollowPart, HeadedTypeOK, ScreenTyped
  <2>3. QED
    BY <2>1, <2>2 DEF HostIInv, HostInv
<1>2. QED
  BY <1>1, InitHost, NextHost, PTL DEF HostSpec
=============================================================================
