----------------------------- MODULE StoreOpen -----------------------------
(***************************************************************************)
(* Opening the database: the switch of an older, plaintext bridge.db to    *)
(* the encrypted one, the plaintext copy kept beside it meanwhile, its     *)
(* restoration after a switch that was cut short, and the quarantine of a  *)
(* file the stored key does not open.  A file and its write-ahead log are  *)
(* renamed and removed one after the other, each of these may fail, and    *)
(* the process may die between any two of them, or while a copy is being   *)
(* overwritten.                                                            *)
(***************************************************************************)
EXTENDS Naturals, FiniteSets

CONSTANTS
  Rows,            \* rows of the older database
  NewRows,         \* rows written after it was opened
  MaxCrashes,      \* bound on deaths of the process
  MaxFailures      \* bound on file operations that fail

ASSUME StoreBounds == MaxCrashes \in Nat /\ MaxFailures \in Nat
ASSUME RowsApart == Rows \cap NewRows = {} /\ IsFiniteSet(Rows \union NewRows)

VARIABLES
  file,            \* bridge.db, bridge.db.enc and bridge.db.plain: form and rows
  wal,             \* rows in the plaintext write-ahead logs beside bridge.db and bridge.db.plain
  aside,           \* rows in files set aside under another name
  step,            \* where open_keyed stands; "down", "open" or "failed" outside it
  expected,        \* row counts taken before the switch, as the rows seen
  \* observation only
  written,         \* rows the program ever had
  parted,          \* rows of a log that a start left apart from its file
  mistaken,        \* rows of a copy removed because what is open has as many
  shredCut,        \* the process died while a copy was being overwritten
  storeCrashes, failures

storeVars == <<file, wal, aside, step, expected, written, parted, mistaken, shredCut,
               storeCrashes, failures>>

Names == {"db", "enc", "plain"}
Missing == [form |-> "missing", rows |-> {}]
Plain(rs) == [form |-> "plain", rows |-> rs]
Cipher(rs) == [form |-> "cipher", rows |-> rs]
Torn == [form |-> "torn", rows |-> {}]    \* what neither the key nor anything else opens
Exists(n) == file[n].form # "missing"

(* What a connection that can read the file sees, its log included. *)
Seen(n) == IF file[n].form \in {"plain", "cipher"} THEN file[n].rows \union wal[n] ELSE {}

(* The log of a readable plaintext file, when it is beside the other name. *)
Apart ==
  CASE file["plain"].form = "plain" /\ ~Exists("db") -> wal["db"]
    [] file["db"].form = "plain" /\ ~Exists("plain") -> wal["plain"]
    [] OTHER -> {}

Steps == {"down", "restore", "restore_file", "restore_log", "probe", "fold", "tidy", "export",
          "verify", "make_way", "set_aside", "move_log", "swap", "back", "back_log", "drop",
          "shred", "shred_log", "discard", "wipe", "wipe_log", "open", "failed"}

(* An older program wrote bridge.db; some of its rows are still in its log.  An
   older plaintext copy may stand beside it. *)
StoreInit ==
  /\ \E folded \in SUBSET Rows, copy \in {Missing, Plain(Rows)} :
       /\ file = [n \in Names |-> CASE n = "db" -> Plain(folded) [] n = "enc" -> Missing
                                    [] n = "plain" -> copy]
       /\ wal = [n \in {"db", "plain"} |-> IF n = "db" THEN Rows \ folded ELSE {}]
  /\ aside = {} /\ step = "down" /\ expected = {}
  /\ written = Rows /\ parted = {} /\ mistaken = {} /\ shredCut = FALSE
  /\ storeCrashes = 0 /\ failures = 0

Fail == failures < MaxFailures /\ failures' = failures + 1
Go(s) == step' = s /\ UNCHANGED parted
(* The start ends here; a log that has not followed its file is on its own. *)
GiveUp == step' = "failed" /\ parted' = parted \union Apart

(* rename of a file; rename of the log that goes with it. *)
FileMoves(from, to) == file' = [file EXCEPT ![to] = file[from], ![from] = Missing]
LogMoves(from, to) == wal' = [wal EXCEPT ![to] = wal[from], ![from] = {}]

-----------------------------------------------------------------------------
(* restore_plaintext_backup: without bridge.db but with a plaintext copy, the
   switch was cut short. *)

OpenBegins ==
  /\ step = "down"
  /\ Go(IF ~Exists("db") /\ Exists("plain") THEN "restore" ELSE "probe")
  /\ UNCHANGED <<file, wal, aside, expected, written, mistaken, shredCut, storeCrashes, failures>>

(* A log left beside bridge.db is removed when the copy has none. *)
Restore ==
  /\ step = "restore" /\ Go("restore_file")
  /\ \/ wal' = [wal EXCEPT !["db"] = IF wal["plain"] = {} THEN {} ELSE @]
        /\ UNCHANGED failures
     \/ Fail /\ wal["db"] # {} /\ UNCHANGED wal
  /\ UNCHANGED <<file, aside, expected, written, mistaken, shredCut, storeCrashes>>

(* move_db_files: the copy becomes bridge.db again ... *)
RestoreFile ==
  /\ step = "restore_file"
  /\ \/ FileMoves("plain", "db") /\ Go("restore_log") /\ UNCHANGED failures
     \/ Fail /\ GiveUp /\ UNCHANGED file
  /\ UNCHANGED <<wal, aside, expected, written, mistaken, shredCut, storeCrashes>>

(* ... and its log follows, if it has one; the renaming of the shared-memory
   file after it may be what fails. *)
RestoreLog ==
  /\ step = "restore_log"
  /\ \/ wal["plain"] = {} /\ Go("probe") /\ UNCHANGED <<wal, failures>>
     \/ wal["plain"] # {} /\ LogMoves("plain", "db") /\ Go("probe") /\ UNCHANGED failures
     \/ wal["plain"] # {} /\ Fail /\ GiveUp /\ (UNCHANGED wal \/ LogMoves("plain", "db"))
  /\ UNCHANGED <<file, aside, expected, written, mistaken, shredCut, storeCrashes>>

-----------------------------------------------------------------------------
(* The probe *)

(* A file the key opens is used, a readable plaintext file is switched; without
   a file an encrypted one is created. *)
Probe ==
  /\ step = "probe" /\ file["db"].form # "torn"
  /\ Go(IF file["db"].form = "plain" THEN "fold" ELSE "discard")
  /\ file' = IF Exists("db") THEN file ELSE [file EXCEPT !["db"] = Cipher({})]
  /\ UNCHANGED <<wal, aside, expected, written, mistaken, shredCut, storeCrashes, failures>>

(* quarantine_unreadable_db: what cannot be read either way is set aside and a
   fresh file opened.  That is a copy restored after it had been overwritten in
   part, or a file written under another key than the one stored: its rows are
   out of anybody's reach, except those another file still has. *)
Quarantine ==
  /\ file' = [file EXCEPT !["db"] = Cipher({})] /\ wal' = [wal EXCEPT !["db"] = {}]
  /\ Go("discard")
  /\ UNCHANGED <<aside, expected, mistaken, shredCut, storeCrashes>>

KeyLost ==
  /\ step = "probe" /\ file["db"].form = "cipher" /\ Fail /\ Quarantine
  /\ written' = written \cap (aside \union Seen("plain"))

QuarantineTorn ==
  /\ step = "probe" /\ file["db"].form = "torn" /\ Quarantine
  /\ UNCHANGED <<written, failures>>

-----------------------------------------------------------------------------
(* migrate_plaintext_with_rename *)

(* The log is folded into the file, or that fails and is ignored; the rows are
   counted. *)
Fold ==
  /\ step = "fold"
  /\ \/ /\ file' = [file EXCEPT !["db"].rows = Seen("db")]
        /\ wal' = [wal EXCEPT !["db"] = {}] /\ UNCHANGED failures
     \/ Fail /\ UNCHANGED <<file, wal>>
  /\ expected' = Seen("db") /\ Go("tidy")
  /\ UNCHANGED <<aside, written, mistaken, shredCut, storeCrashes>>

(* bridge.db.enc is removed: what a broken-off export left, or the copy of a
   switch that failed. *)
EncGoes == \/ file' = [file EXCEPT !["enc"] = Missing] /\ UNCHANGED failures
           \/ Exists("enc") /\ Fail /\ UNCHANGED file

Tidy ==
  /\ step = "tidy" /\ EncGoes /\ Go("export")
  /\ UNCHANGED <<wal, aside, expected, written, mistaken, shredCut, storeCrashes>>

Drop ==
  /\ step = "drop" /\ EncGoes /\ GiveUp
  /\ UNCHANGED <<wal, aside, expected, written, mistaken, shredCut, storeCrashes>>

(* sqlcipher_export writes the encrypted copy, not over one that is there. *)
Export ==
  /\ step = "export"
  /\ \/ /\ ~Exists("enc") /\ file' = [file EXCEPT !["enc"] = Cipher(Seen("db"))]
        /\ Go("verify") /\ UNCHANGED failures
     \/ ~Exists("enc") /\ Fail /\ file' = [file EXCEPT !["enc"] = Torn] /\ Go("drop")
     \/ Exists("enc") /\ Go("drop") /\ UNCHANGED <<file, failures>>
  /\ UNCHANGED <<wal, aside, expected, written, mistaken, shredCut, storeCrashes>>

(* The process dies inside the export. *)
ExportBreaksOff ==
  /\ step = "export" /\ storeCrashes < MaxCrashes /\ storeCrashes' = storeCrashes + 1
  /\ file' = [file EXCEPT !["enc"] = Torn]
  /\ step' = "down" /\ parted' = parted \union Apart
  /\ UNCHANGED <<wal, aside, expected, written, mistaken, shredCut, failures>>

(* The copy must hold what was counted. *)
Verify ==
  /\ step = "verify"
  /\ \/ Go(IF file["enc"] = Cipher(expected) THEN "make_way" ELSE "drop") /\ UNCHANGED failures
     \/ Fail /\ Go("drop")
  /\ UNCHANGED <<file, wal, aside, expected, written, mistaken, shredCut, storeCrashes>>

(* An older plaintext copy, which has no log here, makes room. *)
MakeWay ==
  /\ step = "make_way"
  /\ \/ /\ aside' = aside \union Seen("plain")
        /\ file' = [file EXCEPT !["plain"] = Missing] /\ Go("set_aside") /\ UNCHANGED failures
     \/ Exists("plain") /\ Fail /\ Go("drop") /\ UNCHANGED <<aside, file>>
  /\ UNCHANGED <<wal, expected, written, mistaken, shredCut, storeCrashes>>

(* move_db_files: bridge.db becomes bridge.db.plain, then its log follows. *)
SetAside ==
  /\ step = "set_aside"
  /\ \/ FileMoves("db", "plain") /\ Go("move_log") /\ UNCHANGED failures
     \/ Fail /\ Go("back") /\ UNCHANGED file
  /\ UNCHANGED <<wal, aside, expected, written, mistaken, shredCut, storeCrashes>>

MoveLog ==
  /\ step = "move_log"
  /\ \/ wal["db"] = {} /\ Go("swap") /\ UNCHANGED <<wal, failures>>
     \/ wal["db"] # {} /\ LogMoves("db", "plain") /\ Go("swap") /\ UNCHANGED failures
     \/ wal["db"] # {} /\ Fail /\ Go("back") /\ (UNCHANGED wal \/ LogMoves("db", "plain"))
  /\ UNCHANGED <<file, aside, expected, written, mistaken, shredCut, storeCrashes>>

(* The encrypted copy becomes bridge.db. *)
Swap ==
  /\ step = "swap"
  /\ \/ FileMoves("enc", "db") /\ Go("shred") /\ UNCHANGED failures
     \/ Fail /\ Go("back") /\ UNCHANGED file
  /\ UNCHANGED <<wal, aside, expected, written, mistaken, shredCut, storeCrashes>>

(* The plaintext file is moved back, and its log after it; where one of them
   cannot be, the rest stays as it is. *)
Back ==
  /\ step = "back"
  /\ \/ ~Exists("plain") /\ Go("back_log") /\ UNCHANGED <<file, failures>>
     \/ Exists("plain") /\ FileMoves("plain", "db") /\ Go("back_log") /\ UNCHANGED failures
     \/ Exists("plain") /\ Fail /\ Go("drop") /\ UNCHANGED file
  /\ UNCHANGED <<wal, aside, expected, written, mistaken, shredCut, storeCrashes>>

BackLog ==
  /\ step = "back_log" /\ Go("drop")
  /\ \/ wal["plain"] = {} /\ UNCHANGED <<wal, failures>>
     \/ wal["plain"] # {} /\ LogMoves("plain", "db") /\ UNCHANGED failures
     \/ wal["plain"] # {} /\ Fail /\ UNCHANGED wal
  /\ UNCHANGED <<file, aside, expected, written, mistaken, shredCut, storeCrashes>>

-----------------------------------------------------------------------------
(* The plaintext copy goes *)

(* shred_db_files: the copy is overwritten from its start and removed.  What
   cannot be removed is left, overwritten or not. *)
ShredFile ==
  /\ \/ step = "shred" /\ Go("shred_log")
     \/ step = "wipe" /\ Go("wipe_log")
  /\ \/ file' = [file EXCEPT !["plain"] = Missing] /\ UNCHANGED failures
     \/ Fail /\ UNCHANGED file
     \/ Fail /\ file' = [file EXCEPT !["plain"] = Torn]
  /\ UNCHANGED <<wal, aside, expected, written, mistaken, shredCut, storeCrashes>>

(* Then its log.  Right after the switch the comparison below comes next, at
   its end the database is open. *)
ShredLog ==
  /\ \/ step = "shred_log" /\ Go("discard")
     \/ step = "wipe_log" /\ Go("open")
  /\ \/ wal' = [wal EXCEPT !["plain"] = {}] /\ UNCHANGED failures
     \/ wal["plain"] # {} /\ Fail /\ UNCHANGED wal
  /\ UNCHANGED <<file, aside, expected, written, mistaken, shredCut, storeCrashes>>

(* best_effort_overwrite: the process dies with the head of the copy gone and
   the rest of it still there. *)
ShredBreaksOff ==
  /\ step \in {"shred", "wipe"} /\ storeCrashes < MaxCrashes /\ storeCrashes' = storeCrashes + 1
  /\ file' = [file EXCEPT !["plain"] = Torn] /\ shredCut' = TRUE /\ Go("down")
  /\ UNCHANGED <<wal, aside, expected, written, mistaken, failures>>

(* Mutant: the copy is removed without comparing it with what is open. *)
MayDiscardMut == file["plain"].form = "plain"
(* holds_same_rows: as many rows in every table of the copy. *)
SameCounts == Cardinality(file["db"].rows) = Cardinality(Seen("plain"))
MayDiscard == file["plain"].form = "plain" /\ SameCounts

(* Mutant: the copy is only removed right after the switch, never at a later
   start. *)
DiscardMut ==
  /\ step = "discard" /\ Go("open")
  /\ UNCHANGED <<file, wal, aside, expected, written, mistaken, shredCut, storeCrashes, failures>>

(* discard_copied_plaintext_backup, the last step of open_keyed: a copy that
   has other rows, or that cannot be read as plaintext, is kept. *)
Discard ==
  /\ step = "discard" /\ Go(IF MayDiscard THEN "wipe" ELSE "open")
  /\ mistaken' = IF SameCounts THEN mistaken \union (Seen("plain") \ file["db"].rows) ELSE mistaken
  /\ UNCHANGED <<file, wal, aside, expected, written, shredCut, storeCrashes, failures>>

-----------------------------------------------------------------------------
(* The open database, and what cuts a start short *)

Write ==
  /\ step = "open"
  /\ \E r \in NewRows \ file["db"].rows :
       /\ file' = [file EXCEPT !["db"].rows = @ \union {r}]
       /\ written' = written \union {r}
  /\ UNCHANGED <<wal, aside, step, expected, parted, mistaken, shredCut, storeCrashes, failures>>

(* The schema of the open database cannot be prepared: it is moved aside and
   a fresh one opened, for which a plaintext copy is restored first. *)
QuarantineIncompatible ==
  /\ step = "open" /\ Fail /\ Go("down")
  /\ aside' = aside \union file["db"].rows
  /\ file' = [file EXCEPT !["db"] = Missing]
  /\ UNCHANGED <<wal, expected, written, mistaken, shredCut, storeCrashes>>

(* The process dies between two file operations. *)
Crash ==
  /\ step # "down" /\ storeCrashes < MaxCrashes /\ storeCrashes' = storeCrashes + 1
  /\ step' = "down" /\ parted' = parted \union Apart
  /\ UNCHANGED <<file, wal, aside, expected, written, mistaken, shredCut, failures>>

(* A failed start is tried again; an open database is closed. *)
Reopen ==
  /\ step \in {"failed", "open"} /\ Go("down")
  /\ UNCHANGED <<file, wal, aside, expected, written, mistaken, shredCut, storeCrashes, failures>>

RestoreStep == OpenBegins \/ Restore \/ RestoreFile \/ RestoreLog
ProbeStep == Probe \/ KeyLost \/ QuarantineTorn
SwitchStep == \/ Fold \/ Tidy \/ Export \/ ExportBreaksOff \/ Verify \/ MakeWay \/ SetAside
              \/ MoveLog \/ Swap \/ Back \/ BackLog \/ Drop
ShredStep == ShredFile \/ ShredLog \/ ShredBreaksOff \/ Discard
StoreNext == \/ RestoreStep \/ ProbeStep \/ SwitchStep \/ ShredStep
             \/ Write \/ QuarantineIncompatible \/ Crash \/ Reopen

StoreSpec == StoreInit /\ [][StoreNext]_storeVars

-----------------------------------------------------------------------------
(* Properties *)

Forms == {"missing", "plain", "cipher", "torn"}
AllRows == Rows \union NewRows

StoreTypeOK ==
  /\ file \in [Names -> [form : Forms, rows : SUBSET AllRows]]
  /\ \A n \in Names : file[n].form \in {"missing", "torn"} => file[n].rows = {}
  /\ wal \in [{"db", "plain"} -> SUBSET AllRows]
  /\ aside \subseteq AllRows /\ step \in Steps /\ expected \subseteq AllRows
  /\ written \subseteq AllRows /\ parted \subseteq AllRows /\ mistaken \subseteq AllRows
  /\ shredCut \in BOOLEAN /\ storeCrashes \in Nat /\ failures \in Nat

(* The steps at which a log waits to follow its file. *)
Moving == {"restore_log", "move_log", "back", "back_log", "drop"}

(* Where a row can still be read from. *)
Kept == aside \union Seen("db") \union Seen("plain") \union (IF step \in Moving THEN Apart ELSE {})

(* No row the program had under a key it still has is lost, wherever the
   process dies and whatever file operation fails: it is in bridge.db, in the
   plaintext copy, or in a file set aside.  The code gives two kinds of rows no
   more than that chance, and they are counted row by row: those in a log that
   could not be folded in and that a crash, or the failing rename of the log,
   left beside the other name than its file (the next start switches the file
   without them and deletes the log), and those of a copy beside a database
   that took the place of one the key did not open, of which rows are only
   counted.  (migrate_plaintext_with_rename, move_db_files,
   restore_plaintext_backup, discard_copied_plaintext_backup.) *)
NoRowLost == written \subseteq Kept \union parted \union mistaken

(* The database that is open is the encrypted one and no half-made copy stays
   beside it.  Unless a file operation failed no plaintext copy that opens is
   left beside it either, however often the switch was cut short, and none at
   all unless the process died inside the overwriting of one: that leaves a
   file whose head is zeroes and whose rest is in the clear, which no later
   start can read or removes.  Copies under another name stay until the user
   signs out (remove_old_copies).  (open_keyed, shred_db_files,
   best_effort_overwrite, discard_copied_plaintext_backup.) *)
NothingInTheClear ==
  step = "open" =>
    /\ file["db"].form = "cipher" /\ ~Exists("enc")
    /\ failures = 0 => /\ file["plain"].form # "plain" /\ wal["plain"] = {}
                       /\ Exists("plain") => shredCut
=============================================================================
