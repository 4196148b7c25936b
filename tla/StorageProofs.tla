--------------------------- MODULE StorageProofs ----------------------------
(***************************************************************************)
(* What is in the local database, for any rows and accounts and any        *)
(* number of crashes and failing file operations.                          *)
(***************************************************************************)
EXTENDS StoreOpen, CacheOwner, TLAPS

-----------------------------------------------------------------------------
(* The switch to the encrypted file: no row is lost but for those the invariant
   counts, and nothing is left in the clear. *)

(* Which files stand beside which: a log is in one place, a copy torn by the
   overwriting is never beside a plaintext bridge.db, and the half-made
   encrypted copy only beside what it was made from. *)
Files ==
  /\ file["plain"].form # "cipher" /\ file["enc"].form # "plain"
  /\ file["db"].form = "torn" => ~Exists("plain")
  /\ file["db"].form = "plain" => file["plain"].form # "torn"
  /\ Exists("enc") => file["db"].form = "plain" \/ (~Exists("db") /\ file["plain"].form = "plain")
  /\ wal["db"] = {} \/ wal["plain"] = {}
  /\ file["db"].form = "cipher" \/ (~Exists("db") /\ ~Exists("plain")) => wal["db"] = {}
  /\ file["db"].form = "plain" /\ Exists("plain") => wal["plain"] = {}

(* What holds at every step of open_keyed. *)
Switching == {"fold", "tidy", "export", "verify", "make_way", "set_aside"}
Stage ==
  /\ step \in {"restore", "restore_file"} => Exists("plain") /\ ~Exists("db")
  /\ step = "restore_log" => ~Exists("plain") /\ file["db"].form \in {"plain", "torn"}
  /\ step = "probe" => Exists("db") \/ ~Exists("plain")
  /\ step \in Switching => file["db"].form = "plain"
  /\ step \in {"tidy", "export", "verify"} => expected = Seen("db")
  /\ step \in {"make_way", "set_aside"} => file["enc"] = Cipher(Seen("db"))
  /\ step = "set_aside" => ~Exists("plain")
  /\ step \in {"move_log", "swap"} =>
       ~Exists("db") /\ file["plain"].form = "plain" /\ file["enc"].form = "cipher"
  /\ step \in {"move_log", "swap"} =>
       file["plain"].rows \union wal["db"] \union wal["plain"] \subseteq file["enc"].rows \union parted
  /\ step = "swap" => wal["db"] = {}
  /\ step = "back" => \/ file["db"].form = "plain" /\ ~Exists("plain")
                      \/ file["plain"].form = "plain" /\ ~Exists("db")
  /\ step = "back_log" => file["db"].form = "plain" /\ ~Exists("plain")
  /\ step \in {"shred", "wipe"} => file["plain"].form = "plain"
  /\ step \in {"shred", "shred_log"} => Seen("plain") \subseteq file["db"].rows \union parted
  /\ step \in {"wipe", "wipe_log"} => Seen("plain") \subseteq file["db"].rows \union mistaken
  /\ step \in {"shred", "shred_log", "discard", "wipe", "wipe_log", "open"} => file["db"].form = "cipher"
  /\ step \notin Moving => Apart \subseteq parted

(* As long as no file operation failed, logs are folded in, and a plaintext
   copy beside an encrypted database has the same rows. *)
Clear ==
  failures = 0 =>
    /\ wal["plain"] = {}
    /\ step \in Switching \ {"fold"} \/ step = "move_log" => wal["db"] = {}
    /\ step \in {"move_log", "swap"} => file["enc"].rows = file["plain"].rows
    /\ file["db"].form = "cipher" /\ file["plain"].form = "plain" =>
         file["db"].rows = file["plain"].rows /\ step \notin {"wipe_log", "open"}
    /\ file["plain"].form = "torn" => shredCut

StoreIInv == StoreTypeOK /\ Files /\ Stage /\ Clear /\ NoRowLost

LEMMA StoreInitHolds == StoreInit => StoreIInv
<1> SUFFICES ASSUME StoreInit PROVE StoreIInv
  OBVIOUS
<1> USE DEF Seen, Exists, Names, Plain, Missing
<1>1. PICK folded \in SUBSET Rows, copy \in {Missing, Plain(Rows)} :
        /\ file = [n \in Names |-> CASE n = "db" -> Plain(folded) [] n = "enc" -> Missing
                                     [] n = "plain" -> copy]
        /\ wal = [n \in {"db", "plain"} |-> IF n = "db" THEN Rows \ folded ELSE {}]
  BY DEF StoreInit
<1>2. /\ aside = {} /\ step = "down" /\ expected = {} /\ written = Rows
      /\ parted = {} /\ mistaken = {} /\ shredCut = FALSE /\ storeCrashes = 0 /\ failures = 0
  BY DEF StoreInit
<1>3. /\ file["db"] = Plain(folded) /\ file["enc"] = Missing /\ file["plain"] = copy
      /\ wal["db"] = Rows \ folded /\ wal["plain"] = {}
  BY <1>1
<1>4. StoreTypeOK
  <2>1. /\ Missing \in [form : Forms, rows : SUBSET AllRows]
        /\ \A rs \in SUBSET Rows : Plain(rs) \in [form : Forms, rows : SUBSET AllRows]
    BY DEF Forms, AllRows
  <2>2. file \in [Names -> [form : Forms, rows : SUBSET AllRows]]
    BY <1>1, <2>1
  <2>3. wal \in [{"db", "plain"} -> SUBSET AllRows]
    BY <1>1 DEF AllRows
  <2>4. \A n \in Names : file[n].form \in {"missing", "torn"} => file[n].rows = {}
    BY <1>3
  <2>5. /\ aside \subseteq AllRows /\ step \in Steps /\ expected \subseteq AllRows
        /\ written \subseteq AllRows /\ parted \subseteq AllRows /\ mistaken \subseteq AllRows
        /\ shredCut \in BOOLEAN /\ storeCrashes \in Nat /\ failures \in Nat
    BY <1>2 DEF AllRows, Steps
  <2> QED BY <2>2, <2>3, <2>4, <2>5 DEF StoreTypeOK
<1>5. Files /\ Stage /\ Clear /\ NoRowLost
  BY <1>2, <1>3 DEF Files, Stage, Switching, Clear, NoRowLost, Kept, Apart, Moving
<1> QED BY <1>4, <1>5 DEF StoreIInv

LEMMA ApartIsRows == ASSUME StoreTypeOK PROVE Apart \subseteq AllRows
  BY DEF StoreTypeOK, Apart

LEMMA OpenBeginsKeeps == ASSUME StoreIInv, OpenBegins PROVE StoreIInv'
<1> USE DEF OpenBegins, Seen, Exists, Names, Missing, Plain, Cipher, Go, Fail
<1>1. StoreTypeOK'
  BY StoreBounds, ApartIsRows DEF StoreIInv, StoreTypeOK, Forms, AllRows, Steps
<1>2. Files'
  BY DEF StoreIInv, StoreTypeOK, Files, Stage, Switching, Forms
<1>3. Stage'
  BY DEF StoreIInv, StoreTypeOK, Files, Stage, Switching, Forms, Apart, Moving
<1>4. Clear'
  BY DEF StoreIInv, StoreTypeOK, Files, Stage, Switching, Clear, Forms
<1>5. NoRowLost'
  BY DEF StoreIInv, StoreTypeOK, Files, Stage, NoRowLost, Kept, Apart, Moving, Forms
<1> QED BY <1>1, <1>2, <1>3, <1>4, <1>5 DEF StoreIInv

LEMMA RestoreKeeps == ASSUME StoreIInv, Restore PROVE StoreIInv'
<1> USE DEF Restore, Seen, Exists, Names, Missing, Plain, Cipher, Go, Fail
<1>1. StoreTypeOK'
  BY StoreBounds, ApartIsRows DEF StoreIInv, StoreTypeOK, Forms, AllRows, Steps
<1>2. Files'
  BY DEF StoreIInv, StoreTypeOK, Files, Stage, Switching, Forms
<1>3. Stage'
  BY DEF StoreIInv, StoreTypeOK, Files, Stage, Switching, Forms, Apart, Moving
<1>4. Clear'
  BY DEF StoreIInv, StoreTypeOK, Files, Stage, Switching, Clear, Forms
<1>5. NoRowLost'
  BY DEF StoreIInv, StoreTypeOK, Files, Stage, NoRowLost, Kept, Apart, Moving, Forms
<1> QED BY <1>1, <1>2, <1>3, <1>4, <1>5 DEF StoreIInv

LEMMA RestoreFileKeeps == ASSUME StoreIInv, RestoreFile PROVE StoreIInv'
<1> USE DEF RestoreFile, FileMoves, GiveUp, Seen, Exists, Names, Missing, Plain, Cipher, Go, Fail
<1>1. StoreTypeOK'
  BY StoreBounds, ApartIsRows DEF StoreIInv, StoreTypeOK, Forms, AllRows, Steps
<1>2. Files'
  BY DEF StoreIInv, StoreTypeOK, Files, Stage, Switching, Forms
<1>3. Stage'
  BY DEF StoreIInv, StoreTypeOK, Files, Stage, Switching, Forms, Apart, Moving
<1>4. Clear'
  BY DEF StoreIInv, StoreTypeOK, Files, Stage, Switching, Clear, Forms
<1>5. NoRowLost'
  BY DEF StoreIInv, StoreTypeOK, Files, Stage, NoRowLost, Kept, Apart, Moving, Forms
<1> QED BY <1>1, <1>2, <1>3, <1>4, <1>5 DEF StoreIInv

LEMMA RestoreLogKeeps == ASSUME StoreIInv, RestoreLog PROVE StoreIInv'
<1> USE DEF RestoreLog, LogMoves, GiveUp, Seen, Exists, Names, Missing, Plain, Cipher, Go, Fail
<1>1. StoreTypeOK'
  BY StoreBounds, ApartIsRows DEF StoreIInv, StoreTypeOK, Forms, AllRows, Steps
<1>2. Files'
  BY DEF StoreIInv, StoreTypeOK, Files, Stage, Switching, Forms
<1>3. Stage'
  BY DEF StoreIInv, StoreTypeOK, Files, Stage, Switching, Forms, Apart, Moving
<1>4. Clear'
  BY DEF StoreIInv, StoreTypeOK, Files, Stage, Switching, Clear, Forms
<1>5. NoRowLost'
  BY DEF StoreIInv, StoreTypeOK, Files, Stage, NoRowLost, Kept, Apart, Moving, Forms
<1> QED BY <1>1, <1>2, <1>3, <1>4, <1>5 DEF StoreIInv

LEMMA ProbeKeeps == ASSUME StoreIInv, Probe PROVE StoreIInv'
<1> USE DEF Probe, Seen, Exists, Names, Missing, Plain, Cipher, Go, Fail
<1>1. StoreTypeOK'
  BY StoreBounds, ApartIsRows DEF StoreIInv, StoreTypeOK, Forms, AllRows, Steps
<1>2. Files'
  BY DEF StoreIInv, StoreTypeOK, Files, Stage, Switching, Forms
<1>3. Stage'
  BY DEF StoreIInv, StoreTypeOK, Files, Stage, Switching, Forms, Apart, Moving
<1>4. Clear'
  BY DEF StoreIInv, StoreTypeOK, Files, Stage, Switching, Clear, Forms
<1>5. NoRowLost'
  BY DEF StoreIInv, StoreTypeOK, Files, Stage, NoRowLost, Kept, Apart, Moving, Forms
<1> QED BY <1>1, <1>2, <1>3, <1>4, <1>5 DEF StoreIInv

LEMMA KeyLostKeeps == ASSUME StoreIInv, KeyLost PROVE StoreIInv'
<1> USE DEF KeyLost, Quarantine, Seen, Exists, Names, Missing, Plain, Cipher, Go, Fail
<1>1. StoreTypeOK'
  BY StoreBounds, ApartIsRows DEF StoreIInv, StoreTypeOK, Forms, AllRows, Steps
<1>2. Files'
  BY DEF StoreIInv, StoreTypeOK, Files, Stage, Switching, Forms
<1>3. Stage'
  BY DEF StoreIInv, StoreTypeOK, Files, Stage, Switching, Forms, Apart, Moving
<1>4. Clear'
  BY DEF StoreIInv, StoreTypeOK, Files, Stage, Switching, Clear, Forms
<1>5. NoRowLost'
  BY DEF StoreIInv, StoreTypeOK, Files, Stage, NoRowLost, Kept, Apart, Moving, Forms
<1> QED BY <1>1, <1>2, <1>3, <1>4, <1>5 DEF StoreIInv

LEMMA QuarantineTornKeeps == ASSUME StoreIInv, QuarantineTorn PROVE StoreIInv'
<1> USE DEF QuarantineTorn, Quarantine, Seen, Exists, Names, Missing, Plain, Cipher, Go, Fail
<1>1. StoreTypeOK'
  BY StoreBounds, ApartIsRows DEF StoreIInv, StoreTypeOK, Forms, AllRows, Steps
<1>2. Files'
  BY DEF StoreIInv, StoreTypeOK, Files, Stage, Switching, Forms
<1>3. Stage'
  BY DEF StoreIInv, StoreTypeOK, Files, Stage, Switching, Forms, Apart, Moving
<1>4. Clear'
  BY DEF StoreIInv, StoreTypeOK, Files, Stage, Switching, Clear, Forms
<1>5. NoRowLost'
  BY DEF StoreIInv, StoreTypeOK, Files, Stage, NoRowLost, Kept, Apart, Moving, Forms
<1> QED BY <1>1, <1>2, <1>3, <1>4, <1>5 DEF StoreIInv

LEMMA FoldKeeps == ASSUME StoreIInv, Fold PROVE StoreIInv'
<1> USE DEF Fold, Seen, Exists, Names, Missing, Plain, Cipher, Go, Fail
<1>1. StoreTypeOK'
  BY StoreBounds, ApartIsRows DEF StoreIInv, StoreTypeOK, Forms, AllRows, Steps
<1>2. Files'
  BY DEF StoreIInv, StoreTypeOK, Files, Stage, Switching, Forms
<1>3. Stage'
  <2>1. /\ file'["db"].form = "plain" /\ file'["plain"] = file["plain"] /\ wal'["plain"] = wal["plain"]
        /\ file'["db"].rows \union wal'["db"] = file["db"].rows \union wal["db"]
    BY DEF StoreIInv, StoreTypeOK, Stage, Switching
  <2>2. expected' = file["db"].rows \union wal["db"] /\ step' = "tidy" /\ parted' = parted
    BY DEF StoreIInv, Stage, Switching
  <2>3. Apart' = Apart /\ Apart \subseteq parted
    BY <2>1 DEF StoreIInv, Stage, Switching, Apart, Moving
  <2> HIDE DEF Fold
  <2> QED BY <2>1, <2>2, <2>3 DEF Stage, Switching, Moving
<1>4. Clear'
  BY DEF StoreIInv, StoreTypeOK, Files, Stage, Switching, Clear, Forms
<1>5. NoRowLost'
  BY DEF StoreIInv, StoreTypeOK, Files, Stage, NoRowLost, Kept, Apart, Moving, Forms
<1> QED BY <1>1, <1>2, <1>3, <1>4, <1>5 DEF StoreIInv

LEMMA TidyKeeps == ASSUME StoreIInv, Tidy PROVE StoreIInv'
<1> USE DEF Tidy, EncGoes, Seen, Exists, Names, Missing, Plain, Cipher, Go, Fail
<1>1. StoreTypeOK'
  BY StoreBounds, ApartIsRows DEF StoreIInv, StoreTypeOK, Forms, AllRows, Steps
<1>2. Files'
  BY DEF StoreIInv, StoreTypeOK, Files, Stage, Switching, Forms
<1>3. Stage'
  BY DEF StoreIInv, StoreTypeOK, Files, Stage, Switching, Forms, Apart, Moving
<1>4. Clear'
  BY DEF StoreIInv, StoreTypeOK, Files, Stage, Switching, Clear, Forms
<1>5. NoRowLost'
  BY DEF StoreIInv, StoreTypeOK, Files, Stage, NoRowLost, Kept, Apart, Moving, Forms
<1> QED BY <1>1, <1>2, <1>3, <1>4, <1>5 DEF StoreIInv

LEMMA ExportKeeps == ASSUME StoreIInv, Export PROVE StoreIInv'
<1> USE DEF Export, Torn, Seen, Exists, Names, Missing, Plain, Cipher, Go, Fail
<1>1. StoreTypeOK'
  BY StoreBounds, ApartIsRows DEF StoreIInv, StoreTypeOK, Forms, AllRows, Steps
<1>2. Files'
  BY DEF StoreIInv, StoreTypeOK, Files, Stage, Switching, Forms
<1>3. Stage'
  BY DEF StoreIInv, StoreTypeOK, Files, Stage, Switching, Forms, Apart, Moving
<1>4. Clear'
  BY DEF StoreIInv, StoreTypeOK, Files, Stage, Switching, Clear, Forms
<1>5. NoRowLost'
  BY DEF StoreIInv, StoreTypeOK, Files, Stage, NoRowLost, Kept, Apart, Moving, Forms
<1> QED BY <1>1, <1>2, <1>3, <1>4, <1>5 DEF StoreIInv

LEMMA ExportBreaksOffKeeps == ASSUME StoreIInv, ExportBreaksOff PROVE StoreIInv'
<1> USE DEF ExportBreaksOff, Torn, Seen, Exists, Names, Missing, Plain, Cipher, Go, Fail
<1>1. StoreTypeOK'
  BY StoreBounds, ApartIsRows DEF StoreIInv, StoreTypeOK, Forms, AllRows, Steps
<1>2. Files'
  BY DEF StoreIInv, StoreTypeOK, Files, Stage, Switching, Forms
<1>3. Stage'
  BY DEF StoreIInv, StoreTypeOK, Files, Stage, Switching, Forms, Apart, Moving
<1>4. Clear'
  BY DEF StoreIInv, StoreTypeOK, Files, Stage, Switching, Clear, Forms
<1>5. NoRowLost'
  BY DEF StoreIInv, StoreTypeOK, Files, Stage, NoRowLost, Kept, Apart, Moving, Forms
<1> QED BY <1>1, <1>2, <1>3, <1>4, <1>5 DEF StoreIInv

LEMMA VerifyKeeps == ASSUME StoreIInv, Verify PROVE StoreIInv'
<1> USE DEF Verify, Seen, Exists, Names, Missing, Plain, Cipher, Go, Fail
<1>1. StoreTypeOK'
  BY StoreBounds, ApartIsRows DEF StoreIInv, StoreTypeOK, Forms, AllRows, Steps
<1>2. Files'
  BY DEF StoreIInv, StoreTypeOK, Files, Stage, Switching, Forms
<1>3. Stage'
  BY DEF StoreIInv, StoreTypeOK, Files, Stage, Switching, Forms, Apart, Moving
<1>4. Clear'
  BY DEF StoreIInv, StoreTypeOK, Files, Stage, Switching, Clear, Forms
<1>5. NoRowLost'
  BY DEF StoreIInv, StoreTypeOK, Files, Stage, NoRowLost, Kept, Apart, Moving, Forms
<1> QED BY <1>1, <1>2, <1>3, <1>4, <1>5 DEF StoreIInv

LEMMA MakeWayKeeps == ASSUME StoreIInv, MakeWay PROVE StoreIInv'
<1> USE DEF MakeWay, Seen, Exists, Names, Missing, Plain, Cipher, Go, Fail
<1>1. StoreTypeOK'
  BY StoreBounds, ApartIsRows DEF StoreIInv, StoreTypeOK, Forms, AllRows, Steps
<1>2. Files'
  BY DEF StoreIInv, StoreTypeOK, Files, Stage, Switching, Forms
<1>3. Stage'
  <2>1. CASE step' = "set_aside"
    <3>1. /\ file'["plain"] = Missing /\ file'["db"] = file["db"] /\ file'["enc"] = file["enc"]
          /\ wal' = wal /\ parted' = parted
      BY <2>1 DEF StoreIInv, StoreTypeOK
    <3>2. Apart' \subseteq parted'
      BY <2>1, <3>1 DEF StoreIInv, Files, Stage, Switching, Apart, Moving
    <3>3. file'["enc"] = Cipher(Seen("db"))' /\ file'["db"].form = "plain" /\ ~Exists("plain")'
      BY <3>1 DEF StoreIInv, Stage, Switching, MakeWay
    <3> HIDE DEF MakeWay, Seen, Exists, Cipher, Missing
    <3> QED BY <2>1, <3>2, <3>3 DEF Stage, Switching, Moving
  <2>2. CASE step' = "drop"
    BY <2>2 DEF StoreIInv, StoreTypeOK, Files, Stage, Switching, Forms, Apart, Moving
  <2> QED BY <2>1, <2>2
<1>4. Clear'
  BY DEF StoreIInv, StoreTypeOK, Files, Stage, Switching, Clear, Forms
<1>5. NoRowLost'
  BY DEF StoreIInv, StoreTypeOK, Files, Stage, NoRowLost, Kept, Apart, Moving, Forms
<1> QED BY <1>1, <1>2, <1>3, <1>4, <1>5 DEF StoreIInv

LEMMA SetAsideKeeps == ASSUME StoreIInv, SetAside PROVE StoreIInv'
<1> USE DEF SetAside, FileMoves, Seen, Exists, Names, Missing, Plain, Cipher, Go, Fail
<1>1. StoreTypeOK'
  BY StoreBounds, ApartIsRows DEF StoreIInv, StoreTypeOK, Forms, AllRows, Steps
<1>2. Files'
  BY DEF StoreIInv, StoreTypeOK, Files, Stage, Switching, Forms
<1>3. Stage'
  BY DEF StoreIInv, StoreTypeOK, Files, Stage, Switching, Forms, Apart, Moving
<1>4. Clear'
  BY DEF StoreIInv, StoreTypeOK, Files, Stage, Switching, Clear, Forms
<1>5. NoRowLost'
  BY DEF StoreIInv, StoreTypeOK, Files, Stage, NoRowLost, Kept, Apart, Moving, Forms
<1> QED BY <1>1, <1>2, <1>3, <1>4, <1>5 DEF StoreIInv

LEMMA MoveLogKeeps == ASSUME StoreIInv, MoveLog PROVE StoreIInv'
<1> USE DEF MoveLog, LogMoves, Seen, Exists, Names, Missing, Plain, Cipher, Go, Fail
<1>1. StoreTypeOK'
  BY StoreBounds, ApartIsRows DEF StoreIInv, StoreTypeOK, Forms, AllRows, Steps
<1>2. Files'
  BY DEF StoreIInv, StoreTypeOK, Files, Stage, Switching, Forms
<1>3. Stage'
  BY DEF StoreIInv, StoreTypeOK, Files, Stage, Switching, Forms, Apart, Moving
<1>4. Clear'
  BY DEF StoreIInv, StoreTypeOK, Files, Stage, Switching, Clear, Forms
<1>5. NoRowLost'
  BY DEF StoreIInv, StoreTypeOK, Files, Stage, NoRowLost, Kept, Apart, Moving, Forms
<1> QED BY <1>1, <1>2, <1>3, <1>4, <1>5 DEF StoreIInv

LEMMA SwapKeeps == ASSUME StoreIInv, Swap PROVE StoreIInv'
<1> USE DEF Swap, FileMoves, Seen, Exists, Names, Missing, Plain, Cipher, Go, Fail
<1>1. StoreTypeOK'
  BY StoreBounds, ApartIsRows DEF StoreIInv, StoreTypeOK, Forms, AllRows, Steps
<1>2. Files'
  BY DEF StoreIInv, StoreTypeOK, Files, Stage, Switching, Forms
<1>3. Stage'
  BY DEF StoreIInv, StoreTypeOK, Files, Stage, Switching, Forms, Apart, Moving
<1>4. Clear'
  BY DEF StoreIInv, StoreTypeOK, Files, Stage, Switching, Clear, Forms
<1>5. NoRowLost'
  BY DEF StoreIInv, StoreTypeOK, Files, Stage, NoRowLost, Kept, Apart, Moving, Forms
<1> QED BY <1>1, <1>2, <1>3, <1>4, <1>5 DEF StoreIInv

LEMMA BackKeeps == ASSUME StoreIInv, Back PROVE StoreIInv'
<1> USE DEF Back, FileMoves, Seen, Exists, Names, Missing, Plain, Cipher, Go, Fail
<1>1. StoreTypeOK'
  BY StoreBounds, ApartIsRows DEF StoreIInv, StoreTypeOK, Forms, AllRows, Steps
<1>2. Files'
  BY DEF StoreIInv, StoreTypeOK, Files, Stage, Switching, Forms
<1>3. Stage'
  BY DEF StoreIInv, StoreTypeOK, Files, Stage, Switching, Forms, Apart, Moving
<1>4. Clear'
  BY DEF StoreIInv, StoreTypeOK, Files, Stage, Switching, Clear, Forms
<1>5. NoRowLost'
  BY DEF StoreIInv, StoreTypeOK, Files, Stage, NoRowLost, Kept, Apart, Moving, Forms
<1> QED BY <1>1, <1>2, <1>3, <1>4, <1>5 DEF StoreIInv

LEMMA BackLogKeeps == ASSUME StoreIInv, BackLog PROVE StoreIInv'
<1> USE DEF BackLog, LogMoves, Seen, Exists, Names, Missing, Plain, Cipher, Go, Fail
<1>1. StoreTypeOK'
  BY StoreBounds, ApartIsRows DEF StoreIInv, StoreTypeOK, Forms, AllRows, Steps
<1>2. Files'
  BY DEF StoreIInv, StoreTypeOK, Files, Stage, Switching, Forms
<1>3. Stage'
  BY DEF StoreIInv, StoreTypeOK, Files, Stage, Switching, Forms, Apart, Moving
<1>4. Clear'
  BY DEF StoreIInv, StoreTypeOK, Files, Stage, Switching, Clear, Forms
<1>5. NoRowLost'
  BY DEF StoreIInv, StoreTypeOK, Files, Stage, NoRowLost, Kept, Apart, Moving, Forms
<1> QED BY <1>1, <1>2, <1>3, <1>4, <1>5 DEF StoreIInv

LEMMA DropKeeps == ASSUME StoreIInv, Drop PROVE StoreIInv'
<1> USE DEF Drop, EncGoes, GiveUp, Seen, Exists, Names, Missing, Plain, Cipher, Go, Fail
<1>1. StoreTypeOK'
  BY StoreBounds, ApartIsRows DEF StoreIInv, StoreTypeOK, Forms, AllRows, Steps
<1>2. Files'
  BY DEF StoreIInv, StoreTypeOK, Files, Stage, Switching, Forms
<1>3. Stage'
  BY DEF StoreIInv, StoreTypeOK, Files, Stage, Switching, Forms, Apart, Moving
<1>4. Clear'
  BY DEF StoreIInv, StoreTypeOK, Files, Stage, Switching, Clear, Forms
<1>5. NoRowLost'
  BY DEF StoreIInv, StoreTypeOK, Files, Stage, NoRowLost, Kept, Apart, Moving, Forms
<1> QED BY <1>1, <1>2, <1>3, <1>4, <1>5 DEF StoreIInv

LEMMA ShredFileKeeps == ASSUME StoreIInv, ShredFile PROVE StoreIInv'
<1> USE DEF ShredFile, Torn, Seen, Exists, Names, Missing, Plain, Cipher, Go, Fail
<1>1. StoreTypeOK'
  BY StoreBounds, ApartIsRows DEF StoreIInv, StoreTypeOK, Forms, AllRows, Steps
<1>2. Files'
  BY DEF StoreIInv, StoreTypeOK, Files, Stage, Switching, Forms
<1>3. Stage'
  BY DEF StoreIInv, StoreTypeOK, Files, Stage, Switching, Forms, Apart, Moving
<1>4. Clear'
  BY DEF StoreIInv, StoreTypeOK, Files, Stage, Switching, Clear, Forms
<1>5. NoRowLost'
  BY DEF StoreIInv, StoreTypeOK, Files, Stage, NoRowLost, Kept, Apart, Moving, Forms
<1> QED BY <1>1, <1>2, <1>3, <1>4, <1>5 DEF StoreIInv

LEMMA ShredLogKeeps == ASSUME StoreIInv, ShredLog PROVE StoreIInv'
<1> USE DEF ShredLog, Seen, Exists, Names, Missing, Plain, Cipher, Go, Fail
<1>1. StoreTypeOK'
  BY StoreBounds, ApartIsRows DEF StoreIInv, StoreTypeOK, Forms, AllRows, Steps
<1>2. Files'
  BY DEF StoreIInv, StoreTypeOK, Files, Stage, Switching, Forms
<1>3. Stage'
  BY DEF StoreIInv, StoreTypeOK, Files, Stage, Switching, Forms, Apart, Moving
<1>4. Clear'
  BY DEF StoreIInv, StoreTypeOK, Files, Stage, Switching, Clear, Forms
<1>5. NoRowLost'
  BY DEF StoreIInv, StoreTypeOK, Files, Stage, NoRowLost, Kept, Apart, Moving, Forms
<1> QED BY <1>1, <1>2, <1>3, <1>4, <1>5 DEF StoreIInv

LEMMA ShredBreaksOffKeeps == ASSUME StoreIInv, ShredBreaksOff PROVE StoreIInv'
<1> USE DEF ShredBreaksOff, Torn, Seen, Exists, Names, Missing, Plain, Cipher, Go, Fail
<1>1. StoreTypeOK'
  BY StoreBounds, ApartIsRows DEF StoreIInv, StoreTypeOK, Forms, AllRows, Steps
<1>2. Files'
  BY DEF StoreIInv, StoreTypeOK, Files, Stage, Switching, Forms
<1>3. Stage'
  BY DEF StoreIInv, StoreTypeOK, Files, Stage, Switching, Forms, Apart, Moving
<1>4. Clear'
  BY DEF StoreIInv, StoreTypeOK, Files, Stage, Switching, Clear, Forms
<1>5. NoRowLost'
  BY DEF StoreIInv, StoreTypeOK, Files, Stage, NoRowLost, Kept, Apart, Moving, Forms
<1> QED BY <1>1, <1>2, <1>3, <1>4, <1>5 DEF StoreIInv

LEMMA DiscardKeeps == ASSUME StoreIInv, Discard PROVE StoreIInv'
<1> USE DEF Discard, MayDiscard, SameCounts, Seen, Exists, Names, Missing, Plain, Cipher, Go, Fail
<1>1. StoreTypeOK'
  BY StoreBounds, ApartIsRows DEF StoreIInv, StoreTypeOK, Forms, AllRows, Steps
<1>2. Files'
  BY DEF StoreIInv, StoreTypeOK, Files, Stage, Switching, Forms
<1>3. Stage'
  BY DEF StoreIInv, StoreTypeOK, Files, Stage, Switching, Forms, Apart, Moving
<1>4. Clear'
  BY DEF StoreIInv, StoreTypeOK, Files, Stage, Switching, Clear, Forms
<1>5. NoRowLost'
  BY DEF StoreIInv, StoreTypeOK, Files, Stage, NoRowLost, Kept, Apart, Moving, Forms
<1> QED BY <1>1, <1>2, <1>3, <1>4, <1>5 DEF StoreIInv

LEMMA WriteKeeps == ASSUME StoreIInv, Write PROVE StoreIInv'
<1> USE DEF Write, Seen, Exists, Names, Missing, Plain, Cipher, Go, Fail
<1>1. StoreTypeOK'
  <2>1. PICK r \in NewRows \ file["db"].rows :
          /\ file' = [file EXCEPT !["db"].rows = @ \union {r}]
          /\ written' = written \union {r}
    OBVIOUS
  <2> DEFINE grown == [form |-> file["db"].form, rows |-> file["db"].rows \union {r}]
  <2>2. /\ grown \in [form : Forms, rows : SUBSET AllRows]
        /\ file' = [file EXCEPT !["db"] = grown] /\ grown.form = "cipher"
        /\ written' \subseteq AllRows
    BY <2>1 DEF StoreIInv, StoreTypeOK, Stage, AllRows
  <2> HIDE DEF grown
  <2> QED BY <2>2 DEF StoreIInv, StoreTypeOK
<1>2. Files'
  BY DEF StoreIInv, StoreTypeOK, Files, Stage, Switching, Forms
<1>3. Stage'
  BY DEF StoreIInv, StoreTypeOK, Files, Stage, Switching, Forms, Apart, Moving
<1>4. Clear'
  BY DEF StoreIInv, StoreTypeOK, Files, Stage, Switching, Clear, Forms
<1>5. NoRowLost'
  BY DEF StoreIInv, StoreTypeOK, Files, Stage, NoRowLost, Kept, Apart, Moving, Forms
<1> QED BY <1>1, <1>2, <1>3, <1>4, <1>5 DEF StoreIInv

LEMMA QuarantineIncompatibleKeeps == ASSUME StoreIInv, QuarantineIncompatible PROVE StoreIInv'
<1> USE DEF QuarantineIncompatible, Seen, Exists, Names, Missing, Plain, Cipher, Go, Fail
<1>1. StoreTypeOK'
  BY StoreBounds, ApartIsRows DEF StoreIInv, StoreTypeOK, Forms, AllRows, Steps
<1>2. Files'
  BY DEF StoreIInv, StoreTypeOK, Files, Stage, Switching, Forms
<1>3. Stage'
  BY DEF StoreIInv, StoreTypeOK, Files, Stage, Switching, Forms, Apart, Moving
<1>4. Clear'
  BY DEF StoreIInv, StoreTypeOK, Files, Stage, Switching, Clear, Forms
<1>5. NoRowLost'
  BY DEF StoreIInv, StoreTypeOK, Files, Stage, NoRowLost, Kept, Apart, Moving, Forms
<1> QED BY <1>1, <1>2, <1>3, <1>4, <1>5 DEF StoreIInv

LEMMA CrashKeeps == ASSUME StoreIInv, Crash PROVE StoreIInv'
<1> USE DEF Crash, Seen, Exists, Names, Missing, Plain, Cipher, Go, Fail
<1>1. StoreTypeOK'
  BY StoreBounds, ApartIsRows DEF StoreIInv, StoreTypeOK, Forms, AllRows, Steps
<1>2. Files'
  BY DEF StoreIInv, StoreTypeOK, Files, Stage, Switching, Forms
<1>3. Stage'
  BY DEF StoreIInv, StoreTypeOK, Files, Stage, Switching, Forms, Apart, Moving
<1>4. Clear'
  BY DEF StoreIInv, StoreTypeOK, Files, Stage, Switching, Clear, Forms
<1>5. NoRowLost'
  BY DEF StoreIInv, StoreTypeOK, Files, Stage, NoRowLost, Kept, Apart, Moving, Forms
<1> QED BY <1>1, <1>2, <1>3, <1>4, <1>5 DEF StoreIInv

LEMMA ReopenKeeps == ASSUME StoreIInv, Reopen PROVE StoreIInv'
<1> USE DEF Reopen, Seen, Exists, Names, Missing, Plain, Cipher, Go, Fail
<1>1. StoreTypeOK'
  BY StoreBounds, ApartIsRows DEF StoreIInv, StoreTypeOK, Forms, AllRows, Steps
<1>2. Files'
  BY DEF StoreIInv, StoreTypeOK, Files, Stage, Switching, Forms
<1>3. Stage'
  BY DEF StoreIInv, StoreTypeOK, Files, Stage, Switching, Forms, Apart, Moving
<1>4. Clear'
  BY DEF StoreIInv, StoreTypeOK, Files, Stage, Switching, Clear, Forms
<1>5. NoRowLost'
  BY DEF StoreIInv, StoreTypeOK, Files, Stage, NoRowLost, Kept, Apart, Moving, Forms
<1> QED BY <1>1, <1>2, <1>3, <1>4, <1>5 DEF StoreIInv

LEMMA StoreStep == StoreIInv /\ [StoreNext]_storeVars => StoreIInv'
<1> SUFFICES ASSUME StoreIInv, [StoreNext]_storeVars PROVE StoreIInv'
  OBVIOUS
<1>1. CASE RestoreStep
  BY <1>1, OpenBeginsKeeps, RestoreKeeps, RestoreFileKeeps, RestoreLogKeeps DEF RestoreStep
<1>2. CASE ProbeStep
  BY <1>2, ProbeKeeps, KeyLostKeeps, QuarantineTornKeeps DEF ProbeStep
<1>3. CASE SwitchStep
  BY <1>3, FoldKeeps, TidyKeeps, ExportKeeps, ExportBreaksOffKeeps, VerifyKeeps, MakeWayKeeps,
     SetAsideKeeps, MoveLogKeeps, SwapKeeps, BackKeeps, BackLogKeeps, DropKeeps DEF SwitchStep
<1>4. CASE ShredStep
  BY <1>4, ShredFileKeeps, ShredLogKeeps, ShredBreaksOffKeeps, DiscardKeeps DEF ShredStep
<1>5. CASE Write \/ QuarantineIncompatible \/ Crash \/ Reopen
  BY <1>5, WriteKeeps, QuarantineIncompatibleKeeps, CrashKeeps, ReopenKeeps
<1>6. CASE UNCHANGED storeVars
  BY <1>6 DEF storeVars, StoreIInv, StoreTypeOK, Files, Stage, Clear, NoRowLost, Kept, Seen, Exists, Apart
<1> QED BY <1>1, <1>2, <1>3, <1>4, <1>5, <1>6 DEF StoreNext

(* For any rows, any number of crashes and any number of failing file
   operations, every row is in bridge.db, its plaintext copy or a file set
   aside, but for the rows of a log left apart from its file and those of a
   copy removed by its count, row by row (open_keyed and what it calls). *)
THEOREM RowsSurvive == StoreSpec => []NoRowLost
<1>1. StoreIInv => NoRowLost
  BY DEF StoreIInv
<1> QED BY StoreInitHolds, StoreStep, <1>1, PTL DEF StoreSpec

(* What is open is encrypted; unless a file operation failed no copy that opens
   is beside it, and none at all but what a crash inside the overwriting left
   (assert_cipher_active, shred_db_files, discard_copied_plaintext_backup). *)
THEOREM OpenIsEncrypted == StoreSpec => []NothingInTheClear
<1>1. StoreIInv => NothingInTheClear
  <2> SUFFICES ASSUME StoreIInv, step = "open" PROVE NothingInTheClear
    BY DEF NothingInTheClear
  <2>1. file["db"].form = "cipher" /\ Exists("db")
    BY DEF StoreIInv, Stage, Exists
  <2>2. ~Exists("enc")
    BY <2>1 DEF StoreIInv, Files
  <2>3. ASSUME failures = 0
        PROVE  /\ file["plain"].form # "plain" /\ wal["plain"] = {}
               /\ Exists("plain") => shredCut
    <3>1. file["plain"].form \in {"missing", "torn", "plain"}
      BY DEF StoreIInv, StoreTypeOK, Files, Forms, Names
    <3> QED BY <2>1, <2>3, <3>1 DEF StoreIInv, Clear, Exists
  <2> QED BY <2>1, <2>2, <2>3 DEF NothingInTheClear
<1> QED BY StoreInitHolds, StoreStep, <1>1, PTL DEF StoreSpec

(* The files keep their forms and their rows (open_keyed). *)
THEOREM StoreTypesHold == StoreSpec => []StoreTypeOK
<1>1. StoreIInv => StoreTypeOK
  BY DEF StoreIInv
<1> QED BY StoreInitHolds, StoreStep, <1>1, PTL DEF StoreSpec

-----------------------------------------------------------------------------
(* Whose mail the cache holds. *)

OwnerTypeOK ==
  /\ shell \in {"desktop", "cli"} /\ doing \in OwnerSteps /\ marker \in BOOLEAN
  /\ cacheRows \subseteq Accounts /\ left \subseteq Accounts /\ kept \subseteq Accounts
  /\ owner \in Accounts \union {Nobody} /\ account \in Accounts \union {Nobody}
  /\ secrets \in Accounts \union {Nobody} /\ session \in Accounts \union {Nobody}
  /\ ownerFaults \in Nat

(* The desktop shell serves the account whose secrets are stored, or one it gave
   up; rows of another than that are known to have been kept.  The secrets go
   after the rows. *)
DesktopCache ==
  shell = "desktop" =>
    /\ doing \in {"down", "login", "run", "clear", "forget"}
    /\ session # Nobody => /\ doing = "run" /\ (session = secrets \/ session \in kept)
                           /\ cacheRows \subseteq {session} \union left \union kept
    /\ session = Nobody => cacheRows \subseteq {secrets} \union left \union kept
    /\ doing = "login" => secrets # Nobody
    /\ doing = "forget" => cacheRows \subseteq left

(* The command line client's owner is settled before the account is, and an
   account whose secrets are stored is the owner. *)
CliCache ==
  shell = "cli" =>
    /\ doing \in {"down", "run", "destroy", "finish", "record"} /\ kept = {}
    /\ session = IF doing = "run" THEN secrets ELSE Nobody
    /\ cacheRows \subseteq {owner} \union left
    /\ account # Nobody /\ secrets # Nobody => owner = secrets
    /\ doing = "run" => account # Nobody /\ secrets # Nobody
    /\ doing \in {"finish", "record"} => account = Nobody /\ secrets # Nobody
    /\ doing = "record" => cacheRows \subseteq {secrets} \union left
    /\ doing = "destroy" => secrets = Nobody

OwnerIInv == OwnerTypeOK /\ DesktopCache /\ CliCache

LEMMA OwnerInitHolds == OwnerInit => OwnerIInv
<1> SUFFICES ASSUME OwnerInit PROVE OwnerIInv
  OBVIOUS
<1>1. marker \in BOOLEAN
  BY DEF OwnerInit
<1>2. OwnerTypeOK
  BY <1>1 DEF OwnerInit, OwnerTypeOK, OwnerSteps
<1>3. DesktopCache /\ CliCache
  BY DEF OwnerInit, DesktopCache, CliCache
<1> QED BY <1>2, <1>3 DEF OwnerIInv

LEMMA SyncKeeps == ASSUME OwnerIInv, Sync PROVE OwnerIInv'
<1> USE OwnerAssumption DEF Sync, NextDoes, Fault, CacheCleared, ClearWorks, ScrubFails, ClearFails
<1>1. OwnerTypeOK'
  BY DEF OwnerIInv, OwnerTypeOK, OwnerSteps, DesktopCache, CliCache
<1>2. DesktopCache' /\ CliCache'
  BY DEF OwnerIInv, OwnerTypeOK, DesktopCache, CliCache
<1> QED BY <1>1, <1>2 DEF OwnerIInv

LEMMA OwnerCrashKeeps == ASSUME OwnerIInv, OwnerCrash PROVE OwnerIInv'
<1> USE OwnerAssumption DEF OwnerCrash, NextDoes, Fault, CacheCleared, ClearWorks, ScrubFails, ClearFails
<1>1. OwnerTypeOK'
  BY DEF OwnerIInv, OwnerTypeOK, OwnerSteps, DesktopCache, CliCache
<1>2. DesktopCache' /\ CliCache'
  BY DEF OwnerIInv, OwnerTypeOK, DesktopCache, CliCache
<1> QED BY <1>1, <1>2 DEF OwnerIInv

LEMMA OwnerQuitKeeps == ASSUME OwnerIInv, OwnerQuit PROVE OwnerIInv'
<1> USE OwnerAssumption DEF OwnerQuit, NextDoes, Fault, CacheCleared, ClearWorks, ScrubFails, ClearFails
<1>1. OwnerTypeOK'
  BY DEF OwnerIInv, OwnerTypeOK, OwnerSteps, DesktopCache, CliCache
<1>2. DesktopCache' /\ CliCache'
  BY DEF OwnerIInv, OwnerTypeOK, DesktopCache, CliCache
<1> QED BY <1>1, <1>2 DEF OwnerIInv

LEMMA DesktopStartKeeps == ASSUME OwnerIInv, DesktopStart PROVE OwnerIInv'
<1> USE OwnerAssumption DEF DesktopStart, FinishPendingClear, NextDoes, Fault, CacheCleared, ClearWorks, ScrubFails, ClearFails
<1>0. marker \in BOOLEAN /\ marker' \in BOOLEAN
  BY Zenon DEF OwnerIInv, OwnerTypeOK
<1>1. OwnerTypeOK'
  BY <1>0 DEF OwnerIInv, OwnerTypeOK, OwnerSteps, DesktopCache, CliCache
<1>2. DesktopCache' /\ CliCache'
  BY DEF OwnerIInv, OwnerTypeOK, DesktopCache, CliCache
<1> QED BY <1>1, <1>2 DEF OwnerIInv

LEMMA AutoLoginKeeps == ASSUME OwnerIInv, AutoLogin PROVE OwnerIInv'
<1> USE OwnerAssumption DEF AutoLogin, NextDoes, Fault
<1>1. OwnerTypeOK'
  BY DEF OwnerIInv, OwnerTypeOK, OwnerSteps, DesktopCache, CliCache
<1>2. DesktopCache' /\ CliCache'
  BY DEF OwnerIInv, OwnerTypeOK, DesktopCache, CliCache
<1> QED BY <1>1, <1>2 DEF OwnerIInv

LEMMA DesktopSignInKeeps == ASSUME OwnerIInv, DesktopSignIn PROVE OwnerIInv'
<1> USE OwnerAssumption DEF DesktopSignIn, NextDoes, Fault, CacheCleared, ClearWorks, ScrubFails, ClearFails
<1>1. OwnerTypeOK'
  BY DEF OwnerIInv, OwnerTypeOK, OwnerSteps, DesktopCache, CliCache
<1>2. DesktopCache' /\ CliCache'
  BY DEF OwnerIInv, OwnerTypeOK, DesktopCache, CliCache
<1> QED BY <1>1, <1>2 DEF OwnerIInv

LEMMA DesktopSignOutKeeps == ASSUME OwnerIInv, DesktopSignOut PROVE OwnerIInv'
<1> USE OwnerAssumption DEF DesktopSignOut, NextDoes, Fault, CacheCleared, ClearWorks, ScrubFails, ClearFails
<1>0. marker \in BOOLEAN /\ marker' \in BOOLEAN
  BY Zenon DEF OwnerIInv, OwnerTypeOK
<1>1. OwnerTypeOK'
  BY <1>0 DEF OwnerIInv, OwnerTypeOK, OwnerSteps, DesktopCache, CliCache
<1>2. DesktopCache' /\ CliCache'
  BY DEF OwnerIInv, OwnerTypeOK, DesktopCache, CliCache
<1> QED BY <1>1, <1>2 DEF OwnerIInv

LEMMA DesktopClearKeeps == ASSUME OwnerIInv, DesktopClear PROVE OwnerIInv'
<1> USE OwnerAssumption DEF DesktopClear, NextDoes, Fault, CacheCleared, ClearWorks, ScrubFails, ClearFails
<1>0. marker \in BOOLEAN /\ marker' \in BOOLEAN
  BY Zenon DEF OwnerIInv, OwnerTypeOK
<1>1. OwnerTypeOK'
  BY <1>0 DEF OwnerIInv, OwnerTypeOK, OwnerSteps, DesktopCache, CliCache
<1>2. DesktopCache' /\ CliCache'
  BY DEF OwnerIInv, OwnerTypeOK, DesktopCache, CliCache
<1> QED BY <1>1, <1>2 DEF OwnerIInv

LEMMA DesktopForgetKeeps == ASSUME OwnerIInv, DesktopForget PROVE OwnerIInv'
<1> USE OwnerAssumption DEF DesktopForget, NextDoes, Fault, CacheCleared, ClearWorks, ScrubFails, ClearFails
<1>1. OwnerTypeOK'
  BY DEF OwnerIInv, OwnerTypeOK, OwnerSteps, DesktopCache, CliCache
<1>2. DesktopCache' /\ CliCache'
  BY DEF OwnerIInv, OwnerTypeOK, DesktopCache, CliCache
<1> QED BY <1>1, <1>2 DEF OwnerIInv

LEMMA ResetBridgeDataKeeps == ASSUME OwnerIInv, ResetBridgeData PROVE OwnerIInv'
<1> USE OwnerAssumption DEF ResetBridgeData, NextDoes, Fault, CacheCleared, ClearWorks, ScrubFails, ClearFails
<1>1. OwnerTypeOK'
  BY DEF OwnerIInv, OwnerTypeOK, OwnerSteps, DesktopCache, CliCache
<1>2. DesktopCache' /\ CliCache'
  BY DEF OwnerIInv, OwnerTypeOK, DesktopCache, CliCache
<1> QED BY <1>1, <1>2 DEF OwnerIInv

LEMMA CliServeKeeps == ASSUME OwnerIInv, CliServe PROVE OwnerIInv'
<1> USE OwnerAssumption DEF CliServe, NextDoes, Fault, CacheCleared, ClearWorks, ScrubFails, ClearFails
<1>1. OwnerTypeOK'
  BY DEF OwnerIInv, OwnerTypeOK, OwnerSteps, DesktopCache, CliCache
<1>2. DesktopCache' /\ CliCache'
  BY DEF OwnerIInv, OwnerTypeOK, DesktopCache, CliCache
<1> QED BY <1>1, <1>2 DEF OwnerIInv

LEMMA CliLoginKeeps == ASSUME OwnerIInv, CliLogin PROVE OwnerIInv'
<1> USE OwnerAssumption DEF CliLogin, NextDoes, Fault, CacheCleared, ClearWorks, ScrubFails, ClearFails
<1>1. OwnerTypeOK'
  BY DEF OwnerIInv, OwnerTypeOK, OwnerSteps, DesktopCache, CliCache
<1>2. DesktopCache' /\ CliCache'
  BY DEF OwnerIInv, OwnerTypeOK, DesktopCache, CliCache
<1> QED BY <1>1, <1>2 DEF OwnerIInv

LEMMA CliFinishKeeps == ASSUME OwnerIInv, CliFinish PROVE OwnerIInv'
<1> USE OwnerAssumption DEF CliFinish, OtherOwner, NextDoes, Fault, CacheCleared, ClearWorks, ScrubFails, ClearFails
<1>1. OwnerTypeOK'
  BY DEF OwnerIInv, OwnerTypeOK, OwnerSteps, DesktopCache, CliCache
<1>2. DesktopCache' /\ CliCache'
  BY DEF OwnerIInv, OwnerTypeOK, DesktopCache, CliCache
<1> QED BY <1>1, <1>2 DEF OwnerIInv

LEMMA CliRecordKeeps == ASSUME OwnerIInv, CliRecord PROVE OwnerIInv'
<1> USE OwnerAssumption DEF CliRecord, NextDoes, Fault, CacheCleared, ClearWorks, ScrubFails, ClearFails
<1>1. OwnerTypeOK'
  BY DEF OwnerIInv, OwnerTypeOK, OwnerSteps, DesktopCache, CliCache
<1>2. DesktopCache' /\ CliCache'
  BY DEF OwnerIInv, OwnerTypeOK, DesktopCache, CliCache
<1> QED BY <1>1, <1>2 DEF OwnerIInv

LEMMA ForgetDeviceKeeps == ASSUME OwnerIInv, ForgetDevice PROVE OwnerIInv'
<1> USE OwnerAssumption DEF ForgetDevice, NextDoes, Fault, CacheCleared, ClearWorks, ScrubFails, ClearFails
<1>1. OwnerTypeOK'
  BY DEF OwnerIInv, OwnerTypeOK, OwnerSteps, DesktopCache, CliCache
<1>2. DesktopCache' /\ CliCache'
  BY DEF OwnerIInv, OwnerTypeOK, DesktopCache, CliCache
<1> QED BY <1>1, <1>2 DEF OwnerIInv

LEMMA CliLogoutKeeps == ASSUME OwnerIInv, CliLogout PROVE OwnerIInv'
<1> USE OwnerAssumption DEF CliLogout, NextDoes, Fault, CacheCleared, ClearWorks, ScrubFails, ClearFails
<1>1. OwnerTypeOK'
  BY DEF OwnerIInv, OwnerTypeOK, OwnerSteps, DesktopCache, CliCache
<1>2. DesktopCache' /\ CliCache'
  BY DEF OwnerIInv, OwnerTypeOK, DesktopCache, CliCache
<1> QED BY <1>1, <1>2 DEF OwnerIInv

LEMMA KeepCacheKeeps == ASSUME OwnerIInv, KeepCache PROVE OwnerIInv'
<1> USE OwnerAssumption DEF KeepCache, NextDoes, Fault, CacheCleared, ClearWorks, ScrubFails, ClearFails
<1>1. OwnerTypeOK'
  BY DEF OwnerIInv, OwnerTypeOK, OwnerSteps, DesktopCache, CliCache
<1>2. DesktopCache' /\ CliCache'
  BY DEF OwnerIInv, OwnerTypeOK, DesktopCache, CliCache
<1> QED BY <1>1, <1>2 DEF OwnerIInv

LEMMA DestroyCacheKeeps == ASSUME OwnerIInv, DestroyCache PROVE OwnerIInv'
<1> USE OwnerAssumption DEF DestroyCache, NextDoes, Fault, CacheCleared, ClearWorks, ScrubFails, ClearFails
<1>1. OwnerTypeOK'
  BY DEF OwnerIInv, OwnerTypeOK, OwnerSteps, DesktopCache, CliCache
<1>2. DesktopCache' /\ CliCache'
  BY DEF OwnerIInv, OwnerTypeOK, DesktopCache, CliCache
<1> QED BY <1>1, <1>2 DEF OwnerIInv

LEMMA OwnerStepKeeps == OwnerIInv /\ [OwnerStep]_ownerVars => OwnerIInv'
<1> SUFFICES ASSUME OwnerIInv, [OwnerStep]_ownerVars PROVE OwnerIInv'
  OBVIOUS
<1>1. CASE OwnerStep
  BY <1>1, SyncKeeps, OwnerCrashKeeps, OwnerQuitKeeps, DesktopStartKeeps, AutoLoginKeeps, DesktopSignInKeeps, DesktopSignOutKeeps,
     DesktopClearKeeps, DesktopForgetKeeps, ResetBridgeDataKeeps, CliServeKeeps, CliLoginKeeps,
     CliFinishKeeps, CliRecordKeeps, ForgetDeviceKeeps, CliLogoutKeeps, KeepCacheKeeps, DestroyCacheKeeps DEF OwnerStep
<1>2. CASE UNCHANGED ownerVars
  BY <1>2 DEF ownerVars, OwnerIInv, OwnerTypeOK, DesktopCache, CliCache
<1> QED BY <1>1, <1>2

(* Nobody is served another account's mail unless a clearing failed or the
   desktop shell gave the account up without one, wherever a sign-in or sign-out
   is cut short (sign_out, the sign-in at the start, check_setup_status, login
   finish, logout). *)
THEOREM OwnMailOnly == OwnerSpec => []OnlyOwnMail
<1>1. OwnerIInv => OnlyOwnMail
  BY DEF OwnerIInv, OwnerTypeOK, DesktopCache, CliCache, OnlyOwnMail
<1> QED BY OwnerInitHolds, OwnerStepKeeps, <1>1, PTL DEF OwnerSpec

(* The recorded owner is the one whose rows the cache holds (login finish,
   state::update). *)
THEOREM OwnerIsKnown == OwnerSpec => []OwnerKnown
<1>1. OwnerIInv => OwnerKnown
  BY DEF OwnerIInv, CliCache, OwnerKnown
<1> QED BY OwnerInitHolds, OwnerStepKeeps, <1>1, PTL DEF OwnerSpec
=============================================================================
