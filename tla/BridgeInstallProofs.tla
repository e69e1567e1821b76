------------------------ MODULE BridgeInstallProofs ------------------------
(***************************************************************************)
(* Proofs that a command of the Bridge keeps its types, tells the truth of *)
(* its success and of its failure, makes one failing call good, keeps the  *)
(* payload the record names and spares what others wrote; for any releases *)
(* and numbers of commands, edits and failing calls.                       *)
(***************************************************************************)
EXTENDS BridgeInstall, SequenceTheorems, TLAPS

Early == {"read", "inspect", "registered", "list", "stage"}
Publishing == {"recheck", "move", "unmove", "unstage"}
Registering == {"addMarketplace", "addPlugin", "removePlugin"}
Unregistering == {"undoPlugin", "undoMarketplace"}
Erasing == {"erase", "remove", "sweep"}
Restoring == {"restore", "unrestore", "readd"}
Recording == {"write", "rename"}
Committing == {"dropBackup", "committed", "uncleaned"}
Forgetting == {"forget", "unlink"}

USE DEF Early, Publishing, Registering, Unregistering, Erasing, Restoring, Recording, Committing,
        Forgetting

(* The order of the directories, and the number of renames of a publication *)
Rank(t) == IF t = "bin" THEN 1 ELSE 2
MoveCount == IF Op = "install" THEN 2 ELSE 4

(* Which command can be where                                               *)
PlaceInv ==
    /\ pc \in {"inspect", "registered", "removePlugin"} \union Restoring \union Committing => Op = "update"
    /\ pc \in {"recheck", "addMarketplace"} => Op = "install"
    /\ pc \in {"list"} \union Forgetting => Op = "uninstall"
    /\ pc \in {"stage", "rolledBack"} \union Publishing \union Registering => Op # "uninstall"
    /\ pc = "undoMarketplace" => Op # "update"
    /\ pc \notin {"idle", "read"} => (read = NoRecord <=> Op = "install")
    /\ pc = "idle" <=> outcome # "running"

(* On which directory or rename it is                                       *)
IndexInv ==
    /\ pc \in {"erase", "remove", "restore"} => i \in 1..2
    /\ pc = "move" => i \in 1..MoveCount
    /\ pc = "unmove" => i \in 0..(MoveCount - 1)
    /\ pc \in {"idle", "recheck", "sweep", "unrestore"} \union Early \union Registering \union Unregistering \union Recording
          => i = 1

(* What it remembers of its failures                                        *)
DirectionInv ==
    /\ backward = TRUE => Op # "uninstall" /\ pc \notin {"idle"} \union Early \union Publishing \union Registering \union Committing
    /\ backward = FALSE => pc \notin {"rolledBack"} \union Restoring
    /\ pc \in Unregistering \union Erasing /\ Op # "uninstall" => backward = TRUE
    /\ pc \in Recording /\ Op = "update" => backward = FALSE
    /\ backward = FALSE /\ Op # "uninstall" => remaining = {} /\ failed = FALSE
    /\ pc \in {"idle", "undoPlugin", "rolledBack"} \union Early => failed = FALSE
    /\ Op # "update" /\ pc \in Erasing \union Forgetting => failed = FALSE
    /\ Op = "uninstall" /\ pc \in Recording => failed = FALSE /\ remaining # {}
    /\ pc \notin {"erase", "remove", "sweep", "write", "rename", "giveUp"} => remaining = {}
    /\ pc \in Unregistering /\ Op = "install" => "marketplace" \in undo

(* What it saw last                                                         *)
LookInv == /\ pc \in {"rename", "unlink"} => seen.record = read
           /\ pc = "remove" => T \in Owned.files /\ seen.file = {Owned.version}

ControlInv == TypeOK /\ PlaceInv /\ IndexInv /\ DirectionInv /\ LookInv

(* Every record names a file.                                               *)
RecordsInv == \A r \in {record, read, before.record} : r # NoRecord => r.files # {}

(* Nothing is in a directory that is missing; and what is in the            *)
(* directories nobody but the command reaches                               *)
Settled == \A p \in Places, t \in Tops : disk[p][t].there \/ disk[p][t] = NoDir
Nowhere == [t \in Tops |-> NoDir]
Staged == Dir({request.version})
StagingInv ==
    /\ Settled
    /\ pc \in {"idle"} \union Early => disk["stage"] = Nowhere /\ disk["backup"] = Nowhere
    /\ pc = "recheck" => \A t \in Tops : disk["stage"][t] = Staged
    /\ pc = "move" => \A t \in Tops :
          /\ disk["stage"][t] = IF MoveCount - 2 + Rank(t) < i THEN NoDir ELSE Staged
          /\ Op = "update" /\ i <= Rank(t) => disk["backup"][t] = NoDir

(* Where a directory of the payload nobody else touched is: in its place,   *)
(* set aside, replaced by the new one; at least, its files are somewhere.   *)
Original(t) == disk["live"][t] = before.live[t]
Aside(t) == Op = "update" => disk["backup"][t] = before.live[t]
Away(t) == ~disk["live"][t].there /\ Aside(t)
Replaced(t) == disk["live"][t] = Staged /\ Aside(t)
Saved(t) == Op = "update" => before.live[t].items \subseteq Live(t) \union disk["backup"][t].items
Erased(t) == Aside(t) /\ (Live(t) = {} \/ t \in remaining)
Left(t) == (Live(t) \intersect OwnPath # {}) <=> t \in remaining

(* So many calls have failed, unless somebody else interfered               *)
Faulted(n) == touched # {} \/ faults >= n

PublicationInv(t) ==
    /\ pc \in Early \union {"recheck"} => Original(t)
    /\ Op = "install" /\ pc \notin {"idle"} \union Early => before.live[t] = NoDir
    /\ Op = "update" /\ pc \notin {"idle", "read", "inspect"} =>
          before.live[t] = Dir(IF t \in read.files THEN {read.version} ELSE {})
    /\ pc = "move" => IF MoveCount - 2 + Rank(t) < i THEN Replaced(t)
                      ELSE IF Op = "update" /\ Rank(t) < i THEN Away(t) ELSE Original(t)
    /\ pc = "unmove" =>
          /\ MoveCount - 2 + Rank(t) <= i => Replaced(t) /\ disk["stage"][t] = NoDir
          /\ Op = "update" /\ Rank(t) <= i /\ i < Rank(t) + 2 => Aside(t) /\ (Away(t) \/ Faulted(2))
          /\ i < Rank(t) => Saved(t) /\ (Original(t) \/ Faulted(2))
    /\ pc = "unstage" => Saved(t) /\ (Original(t) \/ Faulted(2))
    /\ pc \in Registering => Replaced(t)
    /\ pc \in Recording /\ Op # "uninstall" /\ backward = FALSE => Replaced(t)
    /\ pc \in Committing => disk["live"][t] = Staged

RollbackInv(t) ==
    /\ pc \in Unregistering => IF Op = "uninstall" THEN Original(t) ELSE Replaced(t)
    /\ pc \in {"erase", "remove"} /\ Op # "uninstall" => IF Rank(t) < i THEN Erased(t) ELSE Replaced(t)
    /\ pc = "sweep" /\ Op # "uninstall" => Erased(t)
    /\ pc = "restore" => IF Rank(t) < i THEN Original(t) ELSE Live(t) = {} /\ Aside(t)
    /\ pc \in {"unrestore", "giveUp"} => Saved(t)
    /\ pc = "unrestore" /\ t = "bin" => Original(t)
    /\ pc = "readd" => Original(t)
    /\ pc = "rolledBack" => Saved(t) /\ Live(t) = before.live[t].items

RemovalInv(t) ==
    Op = "uninstall" /\ t \in read.files =>
        /\ pc \in {"erase", "remove"} => IF Rank(t) < i THEN Left(t) ELSE t \notin remaining
        /\ pc = "remove" /\ T = t => Live(t) \intersect OwnPath # {}
        /\ pc \in {"sweep"} \union Recording \union Forgetting => Left(t)

PayloadInv == \A t \in Tops : Untouched(t) => PublicationInv(t) /\ RollbackInv(t) /\ RemovalInv(t)

(* The record, if nobody else touched it                                    *)
RecordInv ==
    Untouched("record") =>
        /\ pc \notin {"idle"} \union Committing => record = before.record
        /\ pc \in Committing => record = Full(request.version)
        /\ pc \notin {"idle", "read"} => read = before.record

(* The registrations, if nobody else touched them; what Codex registers     *)
(* depends on the marketplace directory                                     *)
Exactly(v) == [marketplace |-> "ours", plugin |-> v]
Cleared(c) == c \in {"none", "twice"}
CodexInv ==
    Untouched("codex") =>
        /\ pc \in Early \union Publishing \union {"addMarketplace", "removePlugin"} => codex = before.codex
        /\ pc = "addPlugin" => codex.marketplace = "ours"
        /\ Op = "update" /\ pc \notin {"idle", "read", "inspect", "registered"} =>
              before.codex = Exactly(read.version) /\ codex.marketplace = "ours"
        /\ Op = "install" /\ backward = TRUE =>
              /\ pc = "undoPlugin" => "plugin" \in undo \/ codex.plugin = before.codex.plugin
              /\ pc = "undoMarketplace" /\ failed = FALSE => codex.plugin \in {"none", before.codex.plugin}
              /\ pc \in Erasing \union {"rolledBack"} =>
                    codex.marketplace = "none" /\ codex.plugin \in {"none", before.codex.plugin}
        /\ Op = "uninstall" =>
              /\ pc = "undoPlugin" => "plugin" \in undo \/ Cleared(codex.plugin)
              /\ pc \in Unregistering => "marketplace" \in undo \/ Cleared(codex.marketplace)
              /\ pc = "undoMarketplace" /\ failed = FALSE => Cleared(codex.plugin)
              /\ pc \in Erasing \union Recording \union Forgetting => Cleared(codex.plugin) /\ Cleared(codex.marketplace)
        /\ Untouched("marketplace") =>
              /\ Op = "update" /\ pc = "rolledBack" => codex = before.codex
              /\ Op # "uninstall" /\ pc \in Recording /\ backward = FALSE => codex = Exactly(request.version)
              /\ pc \in Committing => codex = Exactly(request.version)

(* How many calls it takes to come here                                     *)
Whole == Op = "update" => before.record.files \in {{}, Tops}
FaultInv ==
    Op # "uninstall" =>
        /\ pc \in {"unmove", "unstage"} \/ backward = TRUE => Faulted(1)
        /\ backward = TRUE /\ (failed = TRUE \/ remaining # {}) => Faulted(2)
        /\ pc \in {"giveUp", "unrestore"} /\ Whole => Faulted(2)
        /\ pc \in Recording /\ backward = TRUE => Faulted(2)

(* What a command that has ended says is true.                              *)
ReportInv == /\ FailureIsHonest /\ OneFaultIsUndone /\ SuccessIsComplete
             /\ pc = "idle" => PreviousPayloadKept

BridgeInv == /\ ControlInv /\ RecordsInv /\ StagingInv /\ PayloadInv /\ RecordInv /\ CodexInv /\ FaultInv
             /\ ReportInv

-----------------------------------------------------------------------------
(* The order in which directories are published and erased.                 *)
LEMMA OrderFacts == /\ Order[1] = "bin" /\ Order[2] = "marketplace" /\ Len(Order) = 2
                    /\ \A n \in 1..2 : Order[n] \in Tops /\ Rank(Order[n]) = n
  BY DEF Order, Tops, Rank

(* Which renames a publication is made of.                                  *)
LEMMA MoveFacts ==
    /\ Len(Moves) = MoveCount
    /\ \A n \in 1..MoveCount :
          Moves[n] = IF n <= MoveCount - 2 THEN Move("live", "backup", Order[n])
                     ELSE Move("stage", "live", Order[n - (MoveCount - 2)])
<1> DEFINE back == IF Op = "install" THEN <<>> ELSE <<Move("live", "backup", "bin"), Move("live", "backup", "marketplace")>>
           on == <<Move("stage", "live", "bin"), Move("stage", "live", "marketplace")>>
           M == [from : Places, to : Places, top : Tops]
<1>1. back \in Seq(M) /\ on \in Seq(M) /\ Len(on) = 2 /\ Len(back) = MoveCount - 2
  <2>1. \A a \in Places, b \in Places, t \in Tops : Move(a, b, t) \in M
    BY DEF Move
  <2>2. on \in Seq(M) /\ Len(on) = 2
    BY <2>1 DEF Places, Tops
  <2>3. CASE Op = "install"
    BY <2>2, <2>3 DEF MoveCount
  <2>4. CASE Op # "install"
    BY <2>1, <2>2, <2>4 DEF MoveCount, Places, Tops
  <2> QED BY <2>3, <2>4
<1>2. Moves = back \o on
  BY DEF Moves
<1> HIDE DEF back, on, M
<1>3. /\ Len(Moves) = Len(back) + Len(on)
      /\ \A n \in 1..Len(back) + Len(on) : Moves[n] = IF n <= Len(back) THEN back[n] ELSE on[n - Len(back)]
  BY <1>1, <1>2, ConcatProperties
<1>4. /\ \A n \in 1..MoveCount - 2 : back[n] = Move("live", "backup", Order[n])
      /\ \A n \in 1..2 : on[n] = Move("stage", "live", Order[n])
  BY OrderFacts DEF back, on, MoveCount
<1> QED BY <1>1, <1>3, <1>4 DEF MoveCount

(* A rename empties one place of a directory and fills another.             *)
LEMMA MovedFacts ==
    ASSUME TypeOK, NEW from \in Places, NEW to \in Places, from # to, NEW top \in Tops
    PROVE  /\ Moved(Move(from, to, top)) \in [Places -> [Tops -> Dirs]]
           /\ \A p \in Places, t \in Tops :
                 Moved(Move(from, to, top))[p][t] = IF t # top THEN disk[p][t]
                                                    ELSE IF p = from THEN NoDir
                                                    ELSE IF p = to THEN disk[from][top]
                                                    ELSE disk[p][t]
<1> DEFINE cleared == [disk EXCEPT ![from][top] = NoDir]
<1>1. disk \in [Places -> [Tops -> Dirs]] /\ NoDir \in Dirs
  BY DEF TypeOK, Dirs, NoDir
<1>2. /\ cleared \in [Places -> [Tops -> Dirs]]
      /\ \A p \in Places, t \in Tops : cleared[p][t] = IF p = from /\ t = top THEN NoDir ELSE disk[p][t]
  BY <1>1
<1>3. Moved(Move(from, to, top)) = [cleared EXCEPT ![to][top] = disk[from][top]]
  BY DEF Moved, Move
<1> HIDE DEF cleared
<1> QED BY <1>1, <1>2, <1>3

(* After a rename nothing is in a directory that is missing.                *)
LEMMA MoveSettles ==
    ASSUME TypeOK, Settled, NEW from \in Places, NEW to \in Places, from # to, NEW top \in Tops,
           CanMove(Move(from, to, top)), disk' = Moved(Move(from, to, top))
    PROVE  Settled'
<1>1. disk[from][top].there
  BY DEF CanMove, Move
<1>2. \A p \in Places, t \in Tops : disk'[p][t] = IF t # top THEN disk[p][t]
                                               ELSE IF p = from THEN NoDir
                                               ELSE IF p = to THEN disk[from][top]
                                               ELSE disk[p][t]
  BY MovedFacts
<1> QED BY <1>1, <1>2 DEF Settled

(* What tells the values of the model apart.                                *)
LEMMA ContentFacts ==
    /\ NoDir \in Dirs /\ \A S \in SUBSET (Versions \union Foreign) : Dir(S) \in Dirs
    /\ NoRecord \notin Records /\ \A v \in Versions : Full(v) \in Records
    /\ \A r \in Records : r.version \in Versions
    /\ OwnPath \subseteq Versions \union Foreign
    /\ \A v \in Versions : v \notin Foreign /\ v \in OwnPath
  BY VersionsAssumption DEF NoDir, Dir, Dirs, NoRecord, Records, Full, OwnPath, Foreign

(* What a request asks for.                                                 *)
LEMMA OpFacts == TypeOK => /\ Op \in {"install", "update", "uninstall"}
                           /\ Op # "uninstall" => request.version \in Versions
  BY DEF TypeOK, Requests, Op

Registrations == [marketplace : Marketplaces, plugin : Plugins]
Calls == faults' \in 0..MaxFaults /\ faults <= faults'

(* A call keeps the count of failed calls within its bound.                 *)
LEMMA CallFacts == TypeOK /\ (Works \/ \E b \in BOOLEAN : CallFails(b)) => Calls
  BY BoundsAssumption DEF TypeOK, Works, CallFails, Calls

-----------------------------------------------------------------------------
(* A command that ends *)

(* A command that ends leaves nothing of itself behind.                     *)
LEMMA LeaveKeepsControl ==
    ASSUME ControlInv, NEW o \in Outcomes \ {"running"}, NEW kept \in SUBSET Places, Leave(o, kept),
           Calls, record' \in Records \union {NoRecord}, codex' \in Registrations
    PROVE  ControlInv'
<1> USE DEF ControlInv, Leave, history
<1>1. disk' \in [Places -> [Tops -> Dirs]]
  <2>1. [t \in Tops |-> NoDir] \in [Tops -> Dirs]
    BY ContentFacts
  <2> QED BY <2>1 DEF TypeOK
<1>2. litter' \in [Tops -> SUBSET (Versions \union Foreign)]
  <2>1. \A p \in kept, t \in Tops : disk[p][t].items \subseteq Versions \union Foreign
    BY DEF TypeOK, Dirs
  <2> QED BY <2>1 DEF TypeOK
<1>3. TypeOK'
  <2>1. record' \in Records \union {NoRecord} /\ codex' \in [marketplace : Marketplaces, plugin : Plugins]
    BY DEF Registrations
  <2>2. request' \in Requests /\ pc' \in PCs /\ i' \in 0..4
    BY DEF TypeOK, PCs
  <2>3. read' \in Records \union {NoRecord} /\ undo' \subseteq {"plugin", "marketplace"} /\ remaining' \subseteq Tops
    OBVIOUS
  <2>4. failed' \in BOOLEAN /\ backward' \in BOOLEAN
    OBVIOUS
  <2>5. seen' \in [file : SUBSET OwnPath, record : Records \union {NoRecord}] 
    BY DEF Nothing
  <2>6. /\ outcome' \in Outcomes
          /\ before' \in [live : [Tops -> Dirs], record : Records \union {NoRecord},
                         codex : [marketplace : Marketplaces, plugin : Plugins]]
          /\ touched' \subseteq Tops \union {"record", "codex"}
    BY DEF TypeOK
  <2>7. /\ faults' \in 0..MaxFaults /\ edits' \in 0..MaxEdits /\ commands' \in 0..MaxCommands
    BY DEF TypeOK, Calls
  <2> QED BY <1>1, <1>2, <2>1, <2>2, <2>3, <2>4, <2>5, <2>6, <2>7 DEF TypeOK
<1>4. PlaceInv' /\ IndexInv' /\ DirectionInv' /\ LookInv'
  BY DEF PlaceInv, IndexInv, DirectionInv, LookInv
<1> QED BY <1>3, <1>4

(* The payload of a running update is somewhere, as long as the record      *)
(* names it.                                                                *)
LEMMA PayloadIsSaved ==
    ASSUME BridgeInv, pc # "idle", Op = "update", Untouched("record"), record = before.record,
           NEW t \in Tops, Untouched(t)
    PROVE  Saved(t)
<1>1. PublicationInv(t) /\ RollbackInv(t) /\ PlaceInv /\ IndexInv /\ DirectionInv /\ TypeOK
  BY DEF BridgeInv, PayloadInv, ControlInv
<1>2. Aside(t) \/ Original(t) => Saved(t)
  BY DEF Aside, Original, Saved, Live
<1>3. CASE pc \in Committing
  <2>1. record = Full(request.version) /\ read = before.record
    BY <1>3 DEF BridgeInv, RecordInv
  <2>2. read.version = request.version
    <3>1. \A v : Full(v).version = v
      BY DEF Full
    <3>2. read = Full(request.version)
      BY <2>1
    <3> QED BY <3>1, <3>2
  <2>3. before.live[t] = Dir(IF t \in read.files THEN {read.version} ELSE {}) /\ disk["live"][t] = Dir({request.version})
    BY <1>1, <1>3 DEF PublicationInv, Staged
  <2> QED BY <2>2, <2>3 DEF Saved, Dir, Live
<1>4. CASE pc \in Early \union Publishing
  <2>1. Rank(t) \in 1..2 /\ MoveCount = 4
    BY DEF Rank, MoveCount
  <2> QED BY <1>1, <1>2, <1>4, <2>1 DEF PublicationInv, Replaced, Away, IndexInv
<1>5. CASE pc \in Registering \union Recording
  BY <1>1, <1>2, <1>5 DEF PublicationInv, Replaced, DirectionInv
<1>6. CASE pc \notin Committing \union Early \union Publishing \union Registering \union Recording
  <2>1. pc \in Unregistering \union Erasing \union Restoring \union {"giveUp", "rolledBack"}
    BY <1>1, <1>6 DEF TypeOK, PCs, PlaceInv
  <2> QED BY <1>1, <1>2, <2>1 DEF RollbackInv, Erased, Replaced
<1> QED BY <1>3, <1>4, <1>5, <1>6

(* A command may end wherever what it reports is true.                      *)
LEMMA EndKeeps ==
    ASSUME BridgeInv, pc # "idle", NEW o \in Outcomes \ {"running"}, NEW kept \in SUBSET Places, "backup" \in kept,
           Leave(o, kept), Calls, record' \in Records \union {NoRecord}, codex' \in Registrations,
           record' # NoRecord => record'.files # {}, Op = "update" => record' = record,
           (FailureIsHonest /\ OneFaultIsUndone /\ SuccessIsComplete)'
    PROVE  BridgeInv'
<1>1. ControlInv'
  BY LeaveKeepsControl DEF BridgeInv
<1>2. /\ pc' = "idle" /\ read' = NoRecord /\ backward' = FALSE /\ Op' = Op
      /\ UNCHANGED <<before, touched>>
  BY DEF Leave, history, Op
<1>3. RecordsInv' /\ StagingInv'
  BY <1>2 DEF BridgeInv, RecordsInv, StagingInv, Settled, Nowhere, Leave, Places, ControlInv, TypeOK
<1>4. PayloadInv' /\ RecordInv' /\ CodexInv' /\ FaultInv'
  BY <1>2 DEF PayloadInv, PublicationInv, RollbackInv, RemovalInv, RecordInv, CodexInv, FaultInv
<1>5. PreviousPayloadKept'
  <2> SUFFICES ASSUME Op = "update", Untouched("record"), record = before.record, NEW t \in Tops, Untouched(t)
               PROVE  before.live[t].items \subseteq (UNION {disk'[p][t].items : p \in Places}) \union litter'[t]
    BY <1>2 DEF PreviousPayloadKept, Untouched
  <2>1. before.live[t].items \subseteq Live(t) \union disk["backup"][t].items
    BY PayloadIsSaved DEF Saved
  <2>2. disk'["live"][t] = disk["live"][t] /\ disk["backup"][t].items \subseteq litter'[t]
    BY DEF Leave, BridgeInv, ControlInv, TypeOK, Places
  <2>3. Live(t) \subseteq UNION {disk'[p][t].items : p \in Places}
    BY <2>2 DEF Places, Live
  <2> QED BY <2>1, <2>2, <2>3
<1> QED BY <1>1, <1>3, <1>4, <1>5 DEF BridgeInv, ReportInv

(* A command may be killed, or end without a claim, anywhere.               *)
LEMMA SilentEndKeeps ==
    ASSUME BridgeInv, pc # "idle", NEW o \in {"killed", "cleanup incomplete"}, Conclude(o), Calls
    PROVE  BridgeInv'
<1>1. (FailureIsHonest /\ OneFaultIsUndone /\ SuccessIsComplete)'
  BY DEF Conclude, Leave, FailureIsHonest, OneFaultIsUndone, SuccessIsComplete
<1> QED BY <1>1, EndKeeps DEF Conclude, BridgeInv, ControlInv, TypeOK, RecordsInv, Registrations, Outcomes, Places

(* Before the first change a command may end and says that it did nothing.  *)
LEMMA EarlyEndKeeps ==
    ASSUME BridgeInv, pc \in Early, NEW o \in {"refused", "predicted"}, Conclude(o), Calls
    PROVE  BridgeInv'
<1>1. /\ \A t \in Tops : disk'["live"][t] = disk["live"][t]
      /\ UNCHANGED <<record, codex, request, before, touched>> /\ outcome' = o
  BY DEF Conclude, Leave, BridgeInv, ControlInv, TypeOK, Places, history
<1>2. AsBefore'
  BY <1>1 DEF AsBefore, BridgeInv, PayloadInv, PublicationInv, Original, RecordInv, Untouched, Live
<1>3. RegistrationsAsBefore'
  BY <1>1 DEF RegistrationsAsBefore, BridgeInv, CodexInv, Untouched
<1>4. (FailureIsHonest /\ OneFaultIsUndone /\ SuccessIsComplete)'
  BY <1>1, <1>2, <1>3 DEF FailureIsHonest, OneFaultIsUndone, SuccessIsComplete
<1> QED BY <1>4, EndKeeps DEF Conclude, BridgeInv, ControlInv, TypeOK, RecordsInv, Registrations, Outcomes, Places

(* Two failed calls, or somebody else, excuse an incomplete rollback, and   *)
(* an uninstall may always be incomplete.                                   *)
LEMMA IncompleteEndKeeps ==
    ASSUME BridgeInv, pc # "idle", NEW o \in {"incomplete", "failed"}, Conclude(o), Calls,
           Op = "uninstall" \/ (Whole => Faulted(2))
    PROVE  BridgeInv'
<1>1. UNCHANGED <<request, before, touched>> /\ outcome' = o /\ faults <= faults'
  BY DEF Conclude, Leave, history, Calls
<1>2. OneFaultIsUndone'
  <2>1. Op' = Op /\ faults \in Nat /\ faults' \in Nat
    BY <1>1 DEF Op, BridgeInv, ControlInv, TypeOK, Calls
  <2>2. ~(faults' <= 1 /\ Op' # "uninstall" /\ touched' = {} /\ (Op' = "update" => before'.record.files \in {{}, Tops}))
    BY <1>1, <2>1 DEF Whole, Faulted
  <2> QED BY <2>2 DEF OneFaultIsUndone
<1>3. (FailureIsHonest /\ SuccessIsComplete)'
  BY <1>1 DEF FailureIsHonest, SuccessIsComplete
<1> QED BY <1>2, <1>3, EndKeeps DEF Conclude, BridgeInv, ControlInv, TypeOK, RecordsInv, Registrations, Outcomes, Places

(* A command that goes on: what is typed stays typed.                       *)
LEMMA GoingOnKeepsTypes ==
    ASSUME TypeOK, Continue, Calls, UNCHANGED request, pc' \in PCs, i' \in 0..4,
           disk' \in [Places -> [Tops -> Dirs]], UNCHANGED litter,
           record' \in Records \union {NoRecord}, codex' \in Registrations,
           read' \in Records \union {NoRecord}, undo' \subseteq {"plugin", "marketplace"},
           failed' \in BOOLEAN, backward' \in BOOLEAN, remaining' \subseteq Tops,
           seen' \in [file : SUBSET OwnPath, record : Records \union {NoRecord}]
    PROVE  TypeOK'
  BY DEF TypeOK, Continue, history, Calls, Registrations

(* A command starts with nothing remembered.                                *)
LEMMA BeginKeepsControl == ASSUME ControlInv, NEW r \in Requests, Begin(r) PROVE ControlInv'
<1> USE DEF ControlInv
<1>1. TypeOK'
  <2>1. /\ disk' \in [Places -> [Tops -> Dirs]]
        /\ litter' \in [Tops -> SUBSET (Versions \union Foreign)]
        /\ record' \in Records \union {NoRecord}
        /\ codex' \in [marketplace : Marketplaces, plugin : Plugins]
        /\ request' \in Requests /\ pc' \in PCs /\ i' \in 0..4
    BY DEF Begin, TypeOK, tree, PCs
  <2>2. /\ read' \in Records \union {NoRecord}
        /\ undo' \subseteq {"plugin", "marketplace"} /\ failed' \in BOOLEAN /\ backward' \in BOOLEAN
        /\ remaining' \subseteq Tops
        /\ seen' \in [file : SUBSET OwnPath, record : Records \union {NoRecord}]
        /\ outcome' \in Outcomes
    BY DEF Begin, TypeOK, Outcomes
  <2>3. before' \in [live : [Tops -> Dirs], record : Records \union {NoRecord},
                     codex : [marketplace : Marketplaces, plugin : Plugins]]
    BY DEF Begin, TypeOK, Snapshot, Places
  <2>4. /\ touched' \subseteq Tops \union {"record", "codex"}
        /\ faults' \in 0..MaxFaults /\ edits' \in 0..MaxEdits /\ commands' \in 0..MaxCommands
    BY BoundsAssumption DEF Begin, TypeOK
  <2> QED BY <2>1, <2>2, <2>3, <2>4 DEF TypeOK
<1>2. PlaceInv' /\ IndexInv' /\ DirectionInv' /\ LookInv'
  BY DEF Begin, PlaceInv, IndexInv, DirectionInv, LookInv
<1> QED BY <1>1, <1>2


-----------------------------------------------------------------------------
(* A command that goes on *)

(* What a step of a command leaves alone                                    *)
GoesOn == /\ Continue /\ Calls /\ UNCHANGED <<request, litter>>
          /\ pc \notin {"idle"} /\ pc' \in PCs \ {"idle", "read"}

(* A command that goes on has not reported anything yet.                    *)
LEMMA GoingOnReports == ASSUME ControlInv, GoesOn PROVE ReportInv'
<1>1. outcome' = "running" /\ pc' # "idle"
  BY DEF GoesOn, Continue, ControlInv, PlaceInv
<1> QED BY <1>1 DEF ReportInv, FailureIsHonest, OneFaultIsUndone, SuccessIsComplete

(* A command that goes on stays on the path of its operation.               *)
LEMMA GoingOnKeepsPlace ==
    ASSUME ControlInv, GoesOn, UNCHANGED read \/ pc = "read",
           pc' \in {"inspect", "registered", "removePlugin"} \union Restoring \union Committing => Op = "update",
           pc' \in {"recheck", "addMarketplace"} => Op = "install",
           pc' \in {"list"} \union Forgetting => Op = "uninstall",
           pc' \in {"stage", "rolledBack"} \union Publishing \union Registering => Op # "uninstall",
           pc' = "undoMarketplace" => Op # "update",
           pc = "read" => (read' = NoRecord <=> Op = "install")
    PROVE  PlaceInv'
  BY DEF PlaceInv, ControlInv, GoesOn, Continue, Op

(* Faults of others and of one's own only add up.                           *)
LEMMA FaultedKept ==
    ASSUME TypeOK, GoesOn PROVE (Faulted(1) => Faulted(1)') /\ (Faulted(2) => Faulted(2)')
  BY DEF Faulted, GoesOn, Calls, Continue, history, TypeOK

(* ReadRecord: the record decides whether the command may go on.            *)
LEMMA ReadKeeps == ASSUME BridgeInv, ReadRecord PROVE BridgeInv'
<1> USE DEF BridgeInv, ControlInv
<1>1. Calls /\ record \in Records \union {NoRecord} /\ codex \in Registrations
  BY CallFacts DEF ReadRecord, TypeOK, Registrations
<1>2. CASE Conclude("refused")
  BY <1>1, <1>2, EarlyEndKeeps DEF ReadRecord
<1>3. CASE ~Conclude("refused")
  <2>1. /\ pc = "read" /\ (record = NoRecord <=> Op = "install") /\ read' = record
        /\ UNCHANGED <<tree, record, codex, request, i, undo, failed, backward, remaining, seen>> /\ Continue
    BY <1>3, Zenon DEF ReadRecord, Go
  <2>2. \/ Op = "install" /\ pc' = "stage"
        \/ Op = "update" /\ pc' = "inspect"
        \/ Op = "uninstall" /\ pc' = "list"
    <3>1. pc' = CASE Op = "install" -> "stage" [] Op = "update" -> "inspect" [] OTHER -> "list"
      BY <1>3, Zenon DEF ReadRecord, Go
    <3> QED BY <3>1, OpFacts
  <2>3. UNCHANGED <<disk, litter, before, touched, outcome>> /\ GoesOn /\ Op' = Op
    BY <1>1, <2>1, <2>2 DEF GoesOn, PCs, tree, Continue, history, Op
  <2>4. TypeOK'
    BY <1>1, <2>1, <2>2, GoingOnKeepsTypes DEF TypeOK, PCs, tree
  <2>5. PlaceInv'
    BY <2>1, <2>2, <2>3, GoingOnKeepsPlace
  <2>6. IndexInv' /\ LookInv'
    BY <2>1, <2>2 DEF IndexInv, LookInv
  <2>7. DirectionInv'
    BY <2>1, <2>2, <2>3 DEF DirectionInv
  <2>8. RecordsInv' /\ StagingInv'
    BY <2>1, <2>2, <2>3 DEF RecordsInv, StagingInv, Settled, Nowhere
  <2>9. PayloadInv'
    BY <2>1, <2>2, <2>3 DEF PayloadInv, PublicationInv, RollbackInv, RemovalInv, Original, Untouched
  <2>10. RecordInv' /\ CodexInv'
    BY <2>1, <2>2, <2>3 DEF RecordInv, CodexInv, Untouched
  <2>11. FaultInv'
    BY <2>1, <2>2, <2>3 DEF FaultInv, DirectionInv
  <2> QED BY <2>3, <2>4, <2>5, <2>6, <2>7, <2>8, <2>9, <2>10, <2>11, GoingOnReports
<1> QED BY <1>2, <1>3

(* A step that only looks                                                   *)
LEMMA LookingKeepsTypes ==
    ASSUME TypeOK, GoesOn, Same, UNCHANGED <<disk, record, codex, i>>
    PROVE  TypeOK'
<1>1. /\ pc' \in PCs /\ i' \in 0..4 /\ disk' \in [Places -> [Tops -> Dirs]]
      /\ record' \in Records \union {NoRecord} /\ codex' \in Registrations
      /\ UNCHANGED litter /\ Continue /\ Calls
  BY DEF TypeOK, GoesOn, Registrations
<1>2. /\ read' \in Records \union {NoRecord} /\ undo' \subseteq {"plugin", "marketplace"}
      /\ failed' \in BOOLEAN /\ backward' \in BOOLEAN /\ remaining' \subseteq Tops
      /\ seen' \in [file : SUBSET OwnPath, record : Records \union {NoRecord}] /\ UNCHANGED request
  BY DEF TypeOK, Same
<1> QED BY <1>1, <1>2, GoingOnKeepsTypes

(* The record and what was read of it stay what they are.                   *)
LEMMA GoingOnKeepsRecords ==
    ASSUME RecordsInv, RecordInv, GoesOn, UNCHANGED <<record, read>>, pc # "read",
           pc' \in Committing <=> pc \in Committing
    PROVE  RecordsInv' /\ RecordInv'
  BY DEF RecordsInv, RecordInv, GoesOn, Continue, history, Untouched

(* InspectPayload: an update starts from the exact payload.                 *)
LEMMA InspectPayloadKeeps == ASSUME BridgeInv, InspectPayload PROVE BridgeInv'
<1> USE DEF BridgeInv, ControlInv
<1>1. Calls
  BY CallFacts DEF InspectPayload
<1>2. CASE Conclude("refused")
  BY <1>1, <1>2, EarlyEndKeeps DEF InspectPayload
<1>3. CASE ~Conclude("refused")
  <2>1. /\ pc = "inspect" /\ pc' = "registered" /\ \A t \in Tops : Exact(t)
        /\ Same /\ UNCHANGED <<tree, record, codex, i>> /\ Continue
    BY <1>3, Zenon DEF InspectPayload, Go
  <2>2. /\ UNCHANGED <<disk, before, touched, read, request, record, codex>> /\ GoesOn
        /\ Op' = Op /\ Op = "update"
    BY <1>1, <2>1 DEF GoesOn, PCs, tree, Continue, history, Op, Same, PlaceInv
  <2>3. TypeOK'
    BY <2>1, <2>2, LookingKeepsTypes
  <2>4. PlaceInv' /\ RecordsInv' /\ RecordInv'
    BY <2>1, <2>2, GoingOnKeepsPlace, GoingOnKeepsRecords
  <2>5. IndexInv' /\ LookInv' /\ DirectionInv'
    BY <2>1, <2>2 DEF IndexInv, LookInv, DirectionInv, Same
  <2>6. StagingInv' /\ CodexInv' /\ FaultInv'
    BY <2>1, <2>2 DEF StagingInv, Settled, Nowhere, CodexInv, FaultInv, Untouched, Same, DirectionInv
  <2>7. PayloadInv'
    BY <2>1, <2>2 DEF PayloadInv, PublicationInv, RollbackInv, RemovalInv, Original, Untouched, Exact
  <2> QED BY <2>2, <2>3, <2>4, <2>5, <2>6, <2>7, GoingOnReports
<1> QED BY <1>2, <1>3

(* InspectRegistration: and from the exact registrations.                   *)
LEMMA InspectRegistrationKeeps == ASSUME BridgeInv, InspectRegistration PROVE BridgeInv'
<1> USE DEF BridgeInv, ControlInv
<1>1. Calls
  BY CallFacts DEF InspectRegistration
<1>2. CASE Conclude("refused")
  BY <1>1, <1>2, EarlyEndKeeps DEF InspectRegistration
<1>3. CASE ~Conclude("refused")
  <2>1. /\ pc = "registered" /\ pc' = "stage" /\ codex = Exactly(read.version)
        /\ Same /\ UNCHANGED <<tree, record, codex, i>> /\ Continue
    BY <1>3, Zenon DEF InspectRegistration, Go, Exactly
  <2>2. /\ UNCHANGED <<disk, before, touched, read, request, record, codex>> /\ GoesOn
        /\ Op' = Op /\ Op = "update"
    BY <1>1, <2>1 DEF GoesOn, PCs, tree, Continue, history, Op, Same, PlaceInv
  <2>3. TypeOK'
    BY <2>1, <2>2, LookingKeepsTypes
  <2>4. PlaceInv' /\ RecordsInv' /\ RecordInv'
    BY <2>1, <2>2, GoingOnKeepsPlace, GoingOnKeepsRecords
  <2>5. IndexInv' /\ LookInv' /\ DirectionInv'
    BY <2>1, <2>2 DEF IndexInv, LookInv, DirectionInv, Same
  <2>6. StagingInv' /\ FaultInv'
    BY <2>1, <2>2 DEF StagingInv, Settled, Nowhere, FaultInv, Untouched, Same, DirectionInv
  <2>7. CodexInv'
    BY <2>1, <2>2 DEF CodexInv, Untouched, Same, Exactly
  <2>8. PayloadInv'
    BY <2>1, <2>2 DEF PayloadInv, PublicationInv, RollbackInv, RemovalInv, Original, Untouched
  <2> QED BY <2>2, <2>3, <2>4, <2>5, <2>6, <2>7, <2>8, GoingOnReports
<1> QED BY <1>2, <1>3

(* ListRegistrations: an uninstall notes what Codex has.                    *)
LEMMA ListRegistrationsKeeps == ASSUME BridgeInv, ListRegistrations PROVE BridgeInv'
<1> USE DEF BridgeInv, ControlInv
<1>1. Calls
  BY CallFacts DEF ListRegistrations
<1>2. /\ pc = "list" /\ pc' = "undoPlugin" /\ undo' = Listed
      /\ UNCHANGED <<tree, record, codex, request, i, read, failed, backward, remaining, seen>> /\ Continue
  BY DEF ListRegistrations, Go
<1>3. /\ UNCHANGED <<disk, litter, before, touched>> /\ GoesOn /\ Op' = Op /\ Op = "uninstall"
  BY <1>1, <1>2 DEF GoesOn, PCs, tree, Continue, history, Op, PlaceInv
<1>4. TypeOK'
  BY <1>1, <1>2, <1>3, GoingOnKeepsTypes DEF TypeOK, PCs, Registrations, Listed
<1>5. PlaceInv' /\ RecordsInv' /\ RecordInv'
  BY <1>2, <1>3, GoingOnKeepsPlace, GoingOnKeepsRecords
<1>6. IndexInv' /\ LookInv' /\ DirectionInv'
  BY <1>2, <1>3 DEF IndexInv, LookInv, DirectionInv
<1>7. StagingInv' /\ FaultInv'
  BY <1>2, <1>3 DEF StagingInv, Settled, Nowhere, FaultInv, Untouched
<1>8. CodexInv'
  <2>1. /\ "plugin" \in Listed \/ Cleared(codex.plugin)
        /\ "marketplace" \in Listed \/ Cleared(codex.marketplace)
    BY DEF Listed, Cleared, TypeOK
  <2> QED BY <1>2, <1>3, <2>1 DEF CodexInv, Untouched, Cleared
<1>9. PayloadInv'
  BY <1>2, <1>3 DEF PayloadInv, PublicationInv, RollbackInv, RemovalInv, Original, Untouched
<1> QED BY <1>3, <1>4, <1>5, <1>6, <1>7, <1>8, <1>9, GoingOnReports

(* Stage: the new payload is written beside the old one.                    *)
LEMMA StageKeeps == ASSUME BridgeInv, Stage PROVE BridgeInv'
<1> USE DEF BridgeInv, ControlInv
<1>1. Calls /\ pc = "stage"
  BY CallFacts DEF Stage
<1>2. CASE Conclude("refused") \/ Conclude("predicted")
  BY <1>1, <1>2, EarlyEndKeeps
<1>3. CASE ~Conclude("refused") /\ ~Conclude("predicted")
  <2>1. /\ Op = "install" => Fresh
        /\ disk' = [disk EXCEPT !["stage"] = [t \in Tops |-> Dir({request.version})]]
        /\ pc' = (IF Op = "install" THEN "recheck" ELSE "move")
        /\ Same /\ UNCHANGED <<litter, record, codex, i>> /\ Continue
    BY <1>3, Zenon DEF Stage, Go
  <2>2. /\ UNCHANGED <<before, touched, read, request, record, codex, undo, failed, backward, remaining, seen, litter>> /\ GoesOn
        /\ Op' = Op /\ Op # "uninstall" /\ request.version \in Versions /\ Op \in {"install", "update"}
    BY <1>1, <2>1, OpFacts DEF GoesOn, PCs, Continue, history, Op, Same, PlaceInv
  <2>3. /\ disk' \in [Places -> [Tops -> Dirs]]
        /\ \A t \in Tops : disk'["stage"][t] = Staged /\ disk'["live"][t] = disk["live"][t] /\ disk'["backup"][t] = NoDir
    <3>1. Dir({request.version}) \in Dirs /\ \A t \in Tops : disk["backup"][t] = NoDir
      BY <1>1, <2>2, ContentFacts DEF StagingInv, Settled, Nowhere
    <3> QED BY <2>1, <3>1 DEF TypeOK, Places, Staged
  <2>4. TypeOK'
    BY <1>1, <2>1, <2>2, <2>3, GoingOnKeepsTypes DEF TypeOK, PCs, Registrations
  <2>5. PlaceInv' /\ RecordsInv' /\ RecordInv'
    BY <1>1, <2>1, <2>2, GoingOnKeepsPlace, GoingOnKeepsRecords
  <2>6. IndexInv' /\ LookInv' /\ DirectionInv'
    BY <1>1, <2>1, <2>2 DEF IndexInv, LookInv, DirectionInv, MoveCount
  <2>7. StagingInv'
    <3>1. Staged.there = TRUE
      BY DEF Staged, Dir
    <3>2. Settled'
      BY <2>3, <3>1 DEF StagingInv, Settled, Places
    <3> QED BY <1>1, <2>1, <2>2, <2>3, <3>2 DEF StagingInv, Staged, IndexInv, MoveCount, Rank
  <2>8. CodexInv' /\ FaultInv'
    BY <1>1, <2>1, <2>2 DEF CodexInv, FaultInv, Untouched, DirectionInv, Exactly
  <2>9. PayloadInv'
    <3> SUFFICES ASSUME NEW t \in Tops, Untouched(t) PROVE (PublicationInv(t) /\ RollbackInv(t) /\ RemovalInv(t))'
      BY <2>2 DEF PayloadInv, Untouched
    <3>1. Original(t) /\ (Op = "update" => before.live[t] = Dir(IF t \in read.files THEN {read.version} ELSE {}))
      BY <1>1 DEF PayloadInv, PublicationInv
    <3>2. Op = "install" => before.live[t] = NoDir
      <4>1. disk["live"][t].there \/ disk["live"][t] = NoDir
        BY DEF StagingInv, Settled, Places
      <4> QED BY <2>1, <3>1, <4>1 DEF Original, Fresh
    <3> QED BY <1>1, <2>1, <2>2, <2>3, <3>1, <3>2 DEF PublicationInv, RollbackInv, RemovalInv, Original, Rank, MoveCount, IndexInv
  <2> QED BY <2>2, <2>4, <2>5, <2>6, <2>7, <2>8, <2>9, GoingOnReports
<1> QED BY <1>2, <1>3

(* Recheck: an install looks again before it publishes.                     *)
LEMMA RecheckKeeps == ASSUME BridgeInv, Recheck PROVE BridgeInv'
<1> USE DEF BridgeInv, ControlInv
<1>1. /\ Calls /\ pc = "recheck" /\ Op = "install"
      /\ Same /\ UNCHANGED <<tree, record, codex, i>> /\ Continue
  BY CallFacts DEF Recheck, PlaceInv
<1>2. pc' \in {"move", "unstage"} /\ (pc' = "unstage" => Faulted(1)')
  <2>1. CASE Fresh /\ Go("move")
    BY <2>1 DEF Go
  <2>2. CASE CallFails(~Fresh) /\ Go("unstage")
    <3>1. CASE Fresh
      BY <3>1, <2>2 DEF CallFails, Faulted, TypeOK, Go
    <3>2. CASE ~Fresh
      <4>1. PICK t \in Tops : disk["live"][t].there
        BY <3>2 DEF Fresh
      <4>2. Untouched(t) => FALSE
        BY <1>1, <4>1 DEF PayloadInv, PublicationInv, Original, NoDir
      <4> QED BY <1>1, <2>2, <4>2 DEF Untouched, Faulted, Continue, history, Go
    <3> QED BY <3>1, <3>2
  <2> QED BY <2>1, <2>2 DEF Recheck
<1>3. /\ UNCHANGED <<disk, before, touched, read, request, record, codex>> /\ GoesOn /\ Op' = Op
  BY <1>1, <1>2 DEF GoesOn, PCs, tree, Continue, history, Op, Same
<1>4. TypeOK'
  BY <1>1, <1>3, LookingKeepsTypes
<1>5. PlaceInv' /\ RecordsInv' /\ RecordInv'
  BY <1>1, <1>2, <1>3, GoingOnKeepsPlace, GoingOnKeepsRecords
<1>6. IndexInv' /\ LookInv' /\ DirectionInv'
  BY <1>1, <1>2, <1>3 DEF IndexInv, LookInv, DirectionInv, Same, MoveCount
<1>7. StagingInv' /\ CodexInv' /\ FaultInv'
  <2>1. i = 1 /\ i' = 1 /\ MoveCount = 2 /\ MoveCount' = 2 /\ \A t \in Tops : Rank(t) \in 1..2
    BY <1>1, <1>3 DEF IndexInv, MoveCount, Rank
  <2>2. StagingInv'
    BY <1>1, <1>2, <1>3, <2>1 DEF StagingInv, Settled, Staged
  <2>3. CodexInv'
    BY <1>1, <1>2, <1>3 DEF CodexInv, Untouched, Same
  <2>4. FaultInv'
    BY <1>1, <1>2, <1>3 DEF FaultInv, Same, DirectionInv
  <2> QED BY <2>2, <2>3, <2>4
<1>8. PayloadInv'
  BY <1>1, <1>2, <1>3 DEF PayloadInv, PublicationInv, RollbackInv, RemovalInv, Original, Saved, Untouched, IndexInv, MoveCount, Rank
<1> QED BY <1>3, <1>4, <1>5, <1>6, <1>7, <1>8, GoingOnReports

(* Refuse, Kill, Uncleaned, GiveUp: ends that promise nothing.              *)
LEMMA RefuseKeeps == ASSUME BridgeInv, Refuse PROVE BridgeInv'
<1>1. Calls
  BY CallFacts DEF Refuse, BridgeInv, ControlInv
<1> QED BY <1>1, EarlyEndKeeps DEF Refuse

(* Kill: wherever the command is.                                           *)
LEMMA KillKeeps == ASSUME BridgeInv, Kill PROVE BridgeInv'
<1>1. Calls
  BY CallFacts DEF Kill, BridgeInv, ControlInv
<1> QED BY <1>1, SilentEndKeeps DEF Kill

(* Uncleaned: the backup could not be removed.                              *)
LEMMA UncleanedKeeps == ASSUME BridgeInv, Uncleaned PROVE BridgeInv'
<1>1. Calls
  BY CallFacts DEF Uncleaned, BridgeInv, ControlInv
<1> QED BY <1>1, SilentEndKeeps DEF Uncleaned

(* GiveUp: two calls have failed.                                           *)
LEMMA GiveUpKeeps == ASSUME BridgeInv, GiveUp PROVE BridgeInv'
<1>1. Calls
  BY CallFacts DEF GiveUp, BridgeInv, ControlInv
<1>2. Op = "uninstall" \/ (Whole => Faulted(2))
  BY DEF GiveUp, BridgeInv, FaultInv
<1> QED BY <1>1, <1>2, IncompleteEndKeeps DEF GiveUp

(* What a command that ends leaves alone.                                   *)
LEMMA ConcludeFacts ==
    ASSUME TypeOK, NEW o \in Outcomes, Conclude(o)
    PROVE  /\ \A t \in Tops : disk'["live"][t] = disk["live"][t]
           /\ UNCHANGED <<record, codex, request, before, touched>> /\ outcome' = o /\ Op' = Op
           /\ record' \in Records \union {NoRecord} /\ codex' \in Registrations
           /\ Leave(o, {"stage", "backup"})
  BY DEF Conclude, Leave, TypeOK, Places, history, Op, Registrations

(* A rollback that says so has put everything back.                         *)
LEMMA RolledBackKeeps == ASSUME BridgeInv, RolledBack PROVE BridgeInv'
<1>1. Calls /\ TypeOK /\ pc = "rolledBack" /\ Conclude("rolled back") /\ Op # "uninstall" /\ "rolled back" \in Outcomes
      /\ Op \in {"install", "update"}
  BY CallFacts, OpFacts DEF RolledBack, BridgeInv, ControlInv, PlaceInv, Outcomes
<1>2. /\ \A t \in Tops : disk'["live"][t] = disk["live"][t]
      /\ UNCHANGED <<record, codex, request, before, touched>> /\ outcome' = "rolled back" /\ Op' = Op
      /\ record' \in Records \union {NoRecord} /\ codex' \in Registrations
      /\ Leave("rolled back", {"stage", "backup"})
  BY <1>1, ConcludeFacts
<1>3. AsBefore'
  BY <1>1, <1>2 DEF AsBefore, BridgeInv, PayloadInv, RollbackInv, RecordInv, Untouched, Live
<1>4. RegistrationsAsBefore'
  <2>1. backward = TRUE
    BY <1>1 DEF BridgeInv, ControlInv, DirectionInv, TypeOK
  <2>2. Untouched("codex") /\ Untouched("marketplace") =>
           \/ codex = before.codex
           \/ Op = "install" /\ codex.marketplace = "none" /\ codex.plugin \in {"none", before.codex.plugin}
    BY <1>1, <2>1 DEF BridgeInv, CodexInv
  <2> QED BY <1>2, <2>2 DEF RegistrationsAsBefore, Untouched
<1>5. (FailureIsHonest /\ OneFaultIsUndone /\ SuccessIsComplete)'
  BY <1>2, <1>3, <1>4 DEF FailureIsHonest, OneFaultIsUndone, SuccessIsComplete
<1> QED BY <1>1, <1>2, <1>5, EndKeeps DEF Outcomes, Places, BridgeInv, RecordsInv

(* A committed update whose backup is gone is complete.                     *)
LEMMA CommittedKeeps == ASSUME BridgeInv, Committed PROVE BridgeInv'
<1>1. Calls /\ TypeOK /\ pc = "committed" /\ Conclude("done") /\ Op = "update" /\ "done" \in Outcomes
  BY CallFacts DEF Committed, BridgeInv, ControlInv, PlaceInv, Outcomes
<1>2. /\ \A t \in Tops : disk'["live"][t] = disk["live"][t]
      /\ UNCHANGED <<record, codex, request, before, touched>> /\ outcome' = "done" /\ Op' = Op
      /\ record' \in Records \union {NoRecord} /\ codex' \in Registrations
      /\ Leave("done", {"stage", "backup"})
  BY <1>1, ConcludeFacts
<1>3. Complete'
  <2>1. \A t \in Tops : Untouched(t) => disk["live"][t] = Staged
    BY <1>1 DEF BridgeInv, PayloadInv, PublicationInv
  <2>2. /\ Untouched("record") => record = Full(request.version)
        /\ Untouched("codex") /\ Untouched("marketplace") => codex = Exactly(request.version)
    BY <1>1 DEF BridgeInv, RecordInv, CodexInv
  <2> QED BY <1>2, <2>1, <2>2 DEF Complete, Untouched, Live, Staged, Dir, Exactly, Full
<1>4. (FailureIsHonest /\ OneFaultIsUndone /\ SuccessIsComplete)'
  BY <1>1, <1>2, <1>3 DEF FailureIsHonest, OneFaultIsUndone, SuccessIsComplete
<1> QED BY <1>1, <1>2, <1>4, EndKeeps DEF Outcomes, Places, BridgeInv, RecordsInv

(* Begin: a command takes note of what it finds.                            *)
LEMMA BeginKeeps == ASSUME BridgeInv, NEW r \in Requests, Begin(r) PROVE BridgeInv'
<1> USE DEF BridgeInv
<1>1. ControlInv'
  BY BeginKeepsControl
<1>2. /\ pc' = "read" /\ outcome' = "running" /\ UNCHANGED <<disk, record, codex, read, backward>> /\ backward = FALSE
      /\ before' = [live |-> disk["live"], record |-> record, codex |-> codex]
  BY DEF Begin, tree, Snapshot, ControlInv, DirectionInv, TypeOK
<1>3. RecordsInv' /\ StagingInv'
  BY <1>2 DEF Begin, RecordsInv, StagingInv, Settled, Nowhere
<1>4. PayloadInv'
  BY <1>2 DEF PayloadInv, PublicationInv, RollbackInv, RemovalInv, Original
<1>5. RecordInv' /\ CodexInv' /\ FaultInv'
  BY <1>2 DEF RecordInv, CodexInv, FaultInv
<1>6. ReportInv'
  BY <1>2 DEF ReportInv, FailureIsHonest, OneFaultIsUndone, SuccessIsComplete
<1> QED BY <1>1, <1>3, <1>4, <1>5, <1>6

-----------------------------------------------------------------------------
(* Somebody else: what is said of the payload, the record and the           *)
(* registrations is said of what nobody else touched.                       *)
LEMMA EditKeeps == ASSUME BridgeInv, Edit PROVE BridgeInv'
<1> USE DEF BridgeInv, ControlInv
<1>1. /\ UNCHANGED <<litter, outcome, faults, before, commands, request, pc, i, read, undo, failed, backward, remaining, seen>>
      /\ edits' \in 0..MaxEdits /\ touched \subseteq touched' /\ touched' # {} /\ touched' \subseteq Tops \union {"record", "codex"}
      /\ Op' = Op
  <2>1. /\ UNCHANGED <<litter, control, outcome, faults, before, commands>> /\ edits < MaxEdits /\ edits' = edits + 1
        /\ \E x \in Tops \union {"record", "codex"} : touched' = touched \union {x}
    BY DEF Edit
  <2> QED BY <2>1, BoundsAssumption DEF control, TypeOK, Op
<1>2. /\ disk' \in [Places -> [Tops -> Dirs]] /\ disk'["stage"] = disk["stage"] /\ disk'["backup"] = disk["backup"]
      /\ \A t \in Tops : Untouched(t)' => disk'["live"][t] = disk["live"][t]
      /\ Settled'
  <2>1. CASE UNCHANGED disk
    BY <2>1 DEF TypeOK, StagingInv, Settled
  <2>2. CASE disk' # disk
    <3>0. PICK t \in Tops : \E d \in EditedDirs(disk["live"][t]) :
             disk' = [disk EXCEPT !["live"][t] = d] /\ touched' = touched \union {t}
      BY <2>2 DEF Edit
    <3>1. PICK d \in EditedDirs(disk["live"][t]) :
             disk' = [disk EXCEPT !["live"][t] = d] /\ touched' = touched \union {t}
      BY <3>0
    <3>2. d \in Dirs /\ (d.there \/ d = NoDir)
      <4>1. disk["live"][t].items \subseteq Versions \union Foreign
        BY DEF TypeOK, Dirs, Places
      <4> QED BY <4>1, ContentFacts DEF EditedDirs, Dir, Foreign
    <3> QED BY <3>1, <3>2 DEF TypeOK, StagingInv, Settled, Untouched, Places
  <2> QED BY <2>1, <2>2
<1>3. /\ record' \in Records \union {NoRecord} /\ (Untouched("record")' => record' = record)
      /\ record' # record /\ record' # NoRecord => record'.files # {}
  <2>1. \A v \in Versions : [Full(v) EXCEPT !.by = "other"] \in Records /\ [Full(v) EXCEPT !.by = "other"].files # {}
    BY DEF Full, Records, Tops
  <2>2. CASE UNCHANGED record
    BY <2>2 DEF TypeOK
  <2>3. CASE /\ record' \in {NoRecord} \union {[Full(v) EXCEPT !.by = "other"] : v \in Versions}
             /\ touched' = touched \union {"record"}
    BY <2>1, <2>3 DEF Untouched
  <2> QED BY <2>2, <2>3 DEF Edit
<1>4. codex' \in Registrations /\ (Untouched("codex")' => codex' = codex)
  BY DEF Edit, TypeOK, Untouched, Registrations
<1>5. \A x : Untouched(x)' => Untouched(x)
  BY <1>1 DEF Untouched
<1>6. TypeOK'
  <2>1. /\ record' \in Records \union {NoRecord} /\ codex' \in [marketplace : Marketplaces, plugin : Plugins]
        /\ disk' \in [Places -> [Tops -> Dirs]] /\ litter' \in [Tops -> SUBSET (Versions \union Foreign)]
        /\ touched' \subseteq Tops \union {"record", "codex"} /\ edits' \in 0..MaxEdits
    BY <1>1, <1>2, <1>3, <1>4 DEF TypeOK, Registrations
  <2>2. /\ request' \in Requests /\ pc' \in PCs /\ i' \in 0..4 /\ read' \in Records \union {NoRecord}
        /\ undo' \subseteq {"plugin", "marketplace"} /\ failed' \in BOOLEAN /\ backward' \in BOOLEAN
        /\ remaining' \subseteq Tops
        /\ seen' \in [file : SUBSET OwnPath, record : Records \union {NoRecord}]
        /\ outcome' \in Outcomes /\ faults' \in 0..MaxFaults /\ commands' \in 0..MaxCommands
        /\ before' \in [live : [Tops -> Dirs], record : Records \union {NoRecord},
                        codex : [marketplace : Marketplaces, plugin : Plugins]]
    BY <1>1 DEF TypeOK
  <2> QED BY <2>1, <2>2 DEF TypeOK
<1>7. PlaceInv' /\ IndexInv' /\ DirectionInv'
  BY <1>1 DEF PlaceInv, IndexInv, DirectionInv, MoveCount
<1>8. LookInv' /\ RecordsInv' /\ StagingInv'
  BY <1>1, <1>2, <1>3 DEF LookInv, T, Owned, RecordsInv, StagingInv, Nowhere, Staged, MoveCount
<1>9. PayloadInv'
  <2> SUFFICES ASSUME NEW t \in Tops, Untouched(t)' PROVE (PublicationInv(t) /\ RollbackInv(t) /\ RemovalInv(t))'
    BY DEF PayloadInv
  <2>1. PublicationInv(t) /\ RollbackInv(t) /\ RemovalInv(t) /\ disk'["live"][t] = disk["live"][t]
        /\ disk'["backup"][t] = disk["backup"][t] /\ disk'["stage"][t] = disk["stage"][t]
    BY <1>2, <1>5 DEF PayloadInv
  <2>2. /\ Original(t)' <=> Original(t)
        /\ Aside(t)' <=> Aside(t)
        /\ Away(t)' <=> Away(t)
        /\ Replaced(t)' <=> Replaced(t)
        /\ Saved(t)' <=> Saved(t)
        /\ Erased(t)' <=> Erased(t)
        /\ Left(t)' <=> Left(t)
        /\ Faulted(2)' /\ MoveCount' = MoveCount /\ Staged' = Staged /\ Live(t)' = Live(t) /\ T' = T
    BY <1>1, <2>1 DEF Original, Aside, Away, Replaced, Saved, Erased, Left, Faulted, MoveCount, Staged, Live, T
  <2>3. PublicationInv(t)'
    BY <1>1, <2>1, <2>2 DEF PublicationInv
  <2>4. RollbackInv(t)' /\ RemovalInv(t)'
    BY <1>1, <2>1, <2>2 DEF RollbackInv, RemovalInv
  <2> QED BY <2>3, <2>4
<1>10. RecordInv' /\ CodexInv'
  BY <1>1, <1>3, <1>4, <1>5 DEF RecordInv, CodexInv, Exactly
<1>11. FaultInv'
  BY <1>1 DEF FaultInv, Faulted
<1>12. ReportInv'
  <2>1. AsBefore => AsBefore'
    BY <1>1, <1>2, <1>3, <1>5 DEF AsBefore, Live
  <2>2. RegistrationsAsBefore => RegistrationsAsBefore'
    BY <1>1, <1>4, <1>5 DEF RegistrationsAsBefore
  <2>3. Complete => Complete'
    BY <1>1, <1>2, <1>3, <1>4, <1>5 DEF Complete, Live
  <2>4. Gone => Gone'
    <3> HAVE Gone
    <3>1. Untouched("record")' => \A t \in before.record.files : Untouched(t)' =>
             (disk'["live"][t].items \intersect OwnPath # {}) = (t \in record'.files)
      <4> SUFFICES ASSUME Untouched("record")', NEW t \in before.record.files, Untouched(t)'
                   PROVE  (disk'["live"][t].items \intersect OwnPath # {}) = (t \in record'.files)
        OBVIOUS
      <4>1. t \in Tops
        BY DEF TypeOK, Records, NoRecord
      <4> QED BY <1>2, <1>3, <1>5, <4>1 DEF Gone, Live
    <3>2. Untouched("codex")' => \A n \in DOMAIN codex' : codex'[n] \in {"none", "twice"}
      BY <1>4, <1>5 DEF Gone
    <3> QED BY <1>1, <3>1, <3>2 DEF Gone, Live
  <2>5. PreviousPayloadKept => PreviousPayloadKept'
    <3> SUFFICES ASSUME PreviousPayloadKept, Op = "update", Untouched("record")', record' = before.record,
                        NEW t \in Tops, Untouched(t)'
                 PROVE  before.live[t].items \subseteq (UNION {disk'[p][t].items : p \in Places}) \union litter[t]
      BY <1>1 DEF PreviousPayloadKept
    <3>1. \A p \in Places : disk'[p][t] = disk[p][t]
      BY <1>2 DEF Places
    <3>2. before.live[t].items \subseteq (UNION {disk[p][t].items : p \in Places}) \union litter[t]
      BY <1>3, <1>5 DEF PreviousPayloadKept
    <3> QED BY <3>1, <3>2
  <2> QED BY <1>1, <2>1, <2>2, <2>3, <2>4, <2>5 DEF ReportInv, FailureIsHonest, OneFaultIsUndone, SuccessIsComplete
<1> QED BY <1>6, <1>7, <1>8, <1>9, <1>10, <1>11, <1>12

-----------------------------------------------------------------------------
(* Publication: a rename moves one directory and leaves the others alone.   *)
LEMMA RankFacts == /\ \A t \in Tops : Rank(t) \in 1..2
                   /\ \A s, t \in Tops : Rank(s) = Rank(t) => s = t
                   /\ MoveCount \in {2, 4} /\ (MoveCount = 2 <=> Op = "install")
  BY DEF Rank, Tops, MoveCount

(* A rename of the publication disturbs nothing but directories.            *)
LEMMA PublishingKeepsRest ==
    ASSUME BridgeInv, GoesOn, Same, UNCHANGED <<record, codex>>, disk' \in [Places -> [Tops -> Dirs]], i' \in 0..4,
           pc \in {"move", "unmove"}, pc' \in {"move", "unmove", "unstage", "addMarketplace", "removePlugin"},
           pc' = "addMarketplace" => Op = "install", pc' = "removePlugin" => Op = "update",
           pc' \in {"unmove", "unstage"} => Faulted(1)'
    PROVE  /\ TypeOK' /\ PlaceInv' /\ DirectionInv' /\ LookInv' /\ RecordsInv' /\ RecordInv' /\ CodexInv' /\ FaultInv'
           /\ ReportInv'
<1> USE DEF BridgeInv, ControlInv
<1>1. UNCHANGED <<read, request, before, touched, undo, failed, backward, remaining, seen>> /\ Op' = Op /\ Op # "uninstall"
  BY DEF GoesOn, Continue, history, Op, Same, PlaceInv
<1>2. TypeOK'
  BY <1>1, GoingOnKeepsTypes DEF TypeOK, GoesOn, Registrations
<1>3. PlaceInv' /\ RecordsInv' /\ RecordInv' /\ ReportInv'
  BY <1>1, GoingOnKeepsPlace, GoingOnKeepsRecords, GoingOnReports
<1>4. DirectionInv' /\ LookInv' /\ FaultInv'
  BY <1>1 DEF DirectionInv, LookInv, FaultInv
<1>5. CodexInv'
  BY <1>1 DEF CodexInv, DirectionInv, Exactly, Untouched
<1> QED BY <1>2, <1>3, <1>4, <1>5

(* Without somebody else, a rename of a publication can always be made.     *)
LEMMA CanPublish ==
    ASSUME BridgeInv, pc = "move", touched = {} PROVE CanMove(Moves[i])
<1> USE DEF BridgeInv, ControlInv
<1>1. /\ i \in 1..MoveCount /\ \A t \in Tops : PublicationInv(t)
      /\ MoveCount \in {2, 4} /\ (MoveCount = 2 <=> Op = "install") /\ Op \in {"install", "update"}
  BY RankFacts, OpFacts DEF IndexInv, PayloadInv, Untouched, PlaceInv
<1>2. CASE i <= MoveCount - 2
  <2>1. i \in 1..2 /\ MoveCount = 4 /\ Op = "update"
    BY <1>1, <1>2
  <2>2. Order[i] \in Tops /\ Rank(Order[i]) = i /\ Moves[i] = Move("live", "backup", Order[i])
    BY <1>1, <1>2, <2>1, OrderFacts, MoveFacts
  <2>3. disk["live"][Order[i]].there /\ disk["backup"][Order[i]] = NoDir
    <3>1. Original(Order[i]) /\ \E S : before.live[Order[i]] = Dir(S)
      BY <1>1, <2>1, <2>2 DEF PublicationInv
    <3>2. disk["backup"][Order[i]] = NoDir
      BY <2>1, <2>2 DEF StagingInv, Settled
    <3>3. \A S : Dir(S).there = TRUE
      BY DEF Dir
    <3> QED BY <3>1, <3>2, <3>3 DEF Original
  <2> QED BY <2>2, <2>3 DEF CanMove, Move, Free, NoDir
<1>3. CASE i > MoveCount - 2
  <2> DEFINE n == i - (MoveCount - 2)
  <2>1. n \in 1..2 /\ MoveCount - 2 + n = i
    BY <1>1, <1>3
  <2> HIDE DEF n
  <2>2. Order[n] \in Tops /\ Rank(Order[n]) = n /\ Moves[i] = Move("stage", "live", Order[n])
    BY <1>1, <1>3, <2>1, OrderFacts, MoveFacts DEF n
  <2>3. disk["stage"][Order[n]] = Staged
    BY <1>1, <2>1, <2>2 DEF StagingInv, Settled
  <2>4. ~disk["live"][Order[n]].there
    BY <1>1, <2>1, <2>2 DEF PublicationInv, Away, Original, NoDir
  <2> QED BY <2>2, <2>3, <2>4 DEF CanMove, Move, Free, Staged, Dir
<1> QED BY <1>1, <1>2, <1>3

(* MovePayload: one rename, or the way back.                                *)
LEMMA MovePayloadKeeps == ASSUME BridgeInv, MovePayload PROVE BridgeInv'
<1> USE DEF BridgeInv, ControlInv
<1>1. /\ Calls /\ pc = "move" /\ i \in 1..MoveCount /\ Op \in {"install", "update"}
      /\ Same /\ UNCHANGED <<litter, record, codex>> /\ Continue
  BY CallFacts, OpFacts DEF MovePayload, PlaceInv, IndexInv
<1>2. /\ MoveCount \in {2, 4} /\ (MoveCount = 2 <=> Op = "install") /\ Len(Moves) = MoveCount
      /\ \A t \in Tops : Rank(t) \in 1..2
      /\ \A s, t \in Tops : Rank(s) = Rank(t) => s = t
  BY RankFacts, MoveFacts
<1>3. UNCHANGED <<before, touched, read, request>> /\ Op' = Op /\ MoveCount' = MoveCount /\ Staged' = Staged
  BY <1>1 DEF Same, Continue, history, Op, MoveCount, Staged
<1>4. CASE /\ CanMove(Moves[i]) /\ disk' = Moved(Moves[i])
           /\ IF i < Len(Moves) THEN Go("move") /\ i' = i + 1
              ELSE Go(IF Op = "install" THEN "addMarketplace" ELSE "removePlugin") /\ i' = 1
  <2>1. \/ i < MoveCount /\ pc' = "move" /\ i' = i + 1
        \/ i = MoveCount /\ pc' = (IF Op = "install" THEN "addMarketplace" ELSE "removePlugin") /\ i' = 1
    BY <1>1, <1>2, <1>4 DEF Go
  <2>2. GoesOn /\ i' \in 0..4
    BY <1>1, <1>2, <2>1 DEF GoesOn, PCs, Same
  <2>3. CASE i <= MoveCount - 2
    <3>1. i \in 1..2 /\ MoveCount = 4 /\ Op = "update" /\ pc' = "move" /\ i' = i + 1
      BY <1>1, <1>2, <2>1, <2>3
    <3>2. PICK top \in Tops : Rank(top) = i /\ Moves[i] = Move("live", "backup", top)
      BY <1>1, <2>3, <3>1, OrderFacts, MoveFacts
    <3>3. /\ disk' \in [Places -> [Tops -> Dirs]]
          /\ \A t \in Tops : /\ disk'["stage"][t] = disk["stage"][t]
                             /\ t # top => disk'["live"][t] = disk["live"][t] /\ disk'["backup"][t] = disk["backup"][t]
          /\ disk'["live"][top] = NoDir /\ disk'["backup"][top] = disk["live"][top]
      BY <1>4, <3>2, MovedFacts DEF Places
    <3>4. /\ TypeOK' /\ PlaceInv' /\ DirectionInv' /\ LookInv' /\ RecordsInv' /\ RecordInv' /\ CodexInv' /\ FaultInv'
          /\ ReportInv'
      BY <1>1, <2>2, <3>1, <3>3, PublishingKeepsRest
    <3>5. IndexInv' /\ StagingInv'
      <4>1. Settled'
        BY <1>4, <3>2, MoveSettles DEF StagingInv, Places
      <4> QED BY <1>1, <1>2, <1>3, <3>1, <3>2, <3>3, <4>1 DEF IndexInv, StagingInv
    <3>6. PayloadInv'
      <4> SUFFICES ASSUME NEW t \in Tops, Untouched(t) PROVE (PublicationInv(t) /\ RollbackInv(t) /\ RemovalInv(t))'
        BY <1>3 DEF PayloadInv, Untouched
      <4>1. PublicationInv(t) /\ Rank(t) \in 1..2 /\ (Rank(t) = i => t = top)
        BY <1>2, <3>2 DEF PayloadInv
      <4>2. IF 2 + Rank(t) < i + 1 THEN Replaced(t)' ELSE IF Rank(t) < i + 1 THEN Away(t)' ELSE Original(t)'
        BY <1>1, <1>3, <3>1, <3>2, <3>3, <4>1 DEF PublicationInv, Replaced, Away, Original, Aside, NoDir
      <4> QED BY <1>1, <1>3, <3>1, <4>1, <4>2 DEF PublicationInv, RollbackInv, RemovalInv
    <3> QED BY <2>2, <3>4, <3>5, <3>6
  <2>4. CASE i > MoveCount - 2
    <3> DEFINE n == i - (MoveCount - 2)
    <3>1. n \in 1..2 /\ MoveCount - 2 + n = i
      BY <1>1, <1>2, <2>4
    <3>2. PICK top \in Tops : Rank(top) = n /\ Moves[i] = Move("stage", "live", top)
      BY <1>1, <2>4, <3>1, OrderFacts, MoveFacts
    <3> HIDE DEF n
    <3>3. /\ disk' \in [Places -> [Tops -> Dirs]]
          /\ \A t \in Tops : /\ disk'["backup"][t] = disk["backup"][t]
                             /\ t # top => disk'["live"][t] = disk["live"][t] /\ disk'["stage"][t] = disk["stage"][t]
          /\ disk'["stage"][top] = NoDir /\ disk'["live"][top] = disk["stage"][top]
      BY <1>4, <3>2, MovedFacts DEF Places
    <3>4. /\ TypeOK' /\ PlaceInv' /\ DirectionInv' /\ LookInv' /\ RecordsInv' /\ RecordInv' /\ CodexInv' /\ FaultInv'
          /\ ReportInv'
      BY <1>1, <2>1, <2>2, <3>3, PublishingKeepsRest
    <3>5. disk["stage"][top] = Staged
      BY <1>1, <3>1, <3>2 DEF StagingInv, Settled
    <3>6. IndexInv' /\ StagingInv'
      <4>1. IndexInv'
        BY <1>1, <1>2, <1>3, <2>1 DEF IndexInv
      <4>2. Settled'
        BY <1>4, <3>2, MoveSettles DEF StagingInv, Places
      <4> QED BY <1>1, <1>2, <1>3, <2>1, <3>1, <3>2, <3>3, <3>5, <4>1, <4>2 DEF StagingInv
    <3>7. PayloadInv'
      <4> SUFFICES ASSUME NEW t \in Tops, Untouched(t) PROVE (PublicationInv(t) /\ RollbackInv(t) /\ RemovalInv(t))'
        BY <1>3 DEF PayloadInv, Untouched
      <4>1. PublicationInv(t) /\ Rank(t) \in 1..2 /\ (Rank(t) = n => t = top)
        BY <1>2, <3>2 DEF PayloadInv
      <4>2. IF MoveCount - 2 + Rank(t) < i + 1 THEN Replaced(t)' ELSE IF Op = "update" /\ Rank(t) < i + 1 THEN Away(t)' ELSE Original(t)'
        <5>1. CASE t = top
          <6>1. Aside(t)
            BY <1>1, <1>2, <3>1, <3>2, <4>1, <5>1 DEF PublicationInv, Away, Aside
          <6>2. Replaced(t)'
            BY <1>3, <3>3, <3>5, <5>1, <6>1 DEF Replaced, Aside
          <6> QED BY <1>2, <3>1, <3>2, <4>1, <5>1, <6>2
        <5>2. CASE t # top
          BY <1>1, <1>2, <1>3, <3>1, <3>2, <3>3, <4>1, <5>2 DEF PublicationInv, Replaced, Away, Original, Aside
        <5> QED BY <5>1, <5>2
      <4>3. CASE pc' = "move"
        BY <1>1, <1>3, <2>1, <4>1, <4>2, <4>3 DEF PublicationInv, RollbackInv, RemovalInv
      <4>4. CASE pc' # "move"
        <5>1. Replaced(t)' /\ pc' \in {"addMarketplace", "removePlugin"}
          BY <1>2, <2>1, <4>1, <4>2, <4>4
        <5> QED BY <1>1, <1>3, <4>1, <5>1 DEF PublicationInv, RollbackInv, RemovalInv
      <4> QED BY <4>3, <4>4
    <3> QED BY <2>2, <3>4, <3>6, <3>7
  <2> QED BY <1>1, <1>2, <2>3, <2>4
<1>5. CASE CallFails(~CanMove(Moves[i])) /\ disk' = disk /\ i' = i - 1 /\ Go("unmove")
  <2>1. pc' = "unmove" /\ i' = i - 1 /\ i' \in 0..4 /\ GoesOn /\ disk' \in [Places -> [Tops -> Dirs]]
    BY <1>1, <1>2, <1>5 DEF GoesOn, PCs, Same, Go, TypeOK
  <2>2. Faulted(1)'
    <3>1. CASE touched # {}
      BY <1>3, <3>1 DEF Faulted
    <3>2. CASE touched = {}
      BY <1>1, <1>5, <3>2, CanPublish DEF Faulted, CallFails, TypeOK
    <3> QED BY <3>1, <3>2
  <2>3. /\ TypeOK' /\ PlaceInv' /\ DirectionInv' /\ LookInv' /\ RecordsInv' /\ RecordInv' /\ CodexInv' /\ FaultInv'
        /\ ReportInv'
    BY <1>1, <2>1, <2>2, PublishingKeepsRest
  <2>4. IndexInv' /\ StagingInv'
    BY <1>1, <1>2, <1>3, <1>5, <2>1 DEF IndexInv, StagingInv, Settled
  <2>5. PayloadInv'
    <3> SUFFICES ASSUME NEW t \in Tops, Untouched(t) PROVE (PublicationInv(t) /\ RollbackInv(t) /\ RemovalInv(t))'
      BY <1>3 DEF PayloadInv, Untouched
    <3>1. PublicationInv(t) /\ Rank(t) \in 1..2
      BY <1>2 DEF PayloadInv
    <3>2. /\ Original(t)' <=> Original(t)
          /\ Aside(t)' <=> Aside(t)
          /\ Away(t)' <=> Away(t)
          /\ Replaced(t)' <=> Replaced(t)
      BY <1>3, <1>5 DEF Original, Aside, Away, Replaced
    <3>3. /\ MoveCount - 2 + Rank(t) < i => Replaced(t) /\ disk["stage"][t] = NoDir
          /\ Op = "update" /\ Rank(t) < i /\ i <= Rank(t) + 2 => Away(t) /\ Aside(t)
          /\ i <= Rank(t) => Original(t)
      BY <1>1, <1>2, <3>1 DEF PublicationInv, StagingInv, Settled, Away
    <3>4. Original(t) => Saved(t)'
      BY <1>3, <1>5 DEF Original, Saved, Live
    <3> QED BY <1>1, <1>2, <1>3, <1>5, <2>1, <3>1, <3>2, <3>3, <3>4 DEF PublicationInv, RollbackInv, RemovalInv
  <2> QED BY <2>1, <2>3, <2>4, <2>5
<1> QED BY <1>4, <1>5 DEF MovePayload

(* Taking back the renames made: what cannot be taken back is a second      *)
(* fault, and leaves the payload set aside.                                 *)
LEMMA UnmovePayloadKeeps == ASSUME BridgeInv, UnmovePayload PROVE BridgeInv'
<1> USE DEF BridgeInv, ControlInv
<1>1. /\ Calls /\ pc = "unmove" /\ i \in 0..(MoveCount - 1) /\ Op \in {"install", "update"}
      /\ Same /\ UNCHANGED <<litter, record, codex>> /\ Continue
  <2>1. Works \/ CallFails(~CanMove(Back(Moves[i])))
    BY DEF UnmovePayload
  <2> QED BY <2>1, CallFacts, OpFacts DEF UnmovePayload, PlaceInv, IndexInv
<1>2. /\ MoveCount \in {2, 4} /\ (MoveCount = 2 <=> Op = "install")
      /\ \A t \in Tops : Rank(t) \in 1..2
      /\ \A s, t \in Tops : Rank(s) = Rank(t) => s = t
  BY RankFacts
<1>3. /\ UNCHANGED <<before, touched, read, request>> /\ Op' = Op /\ MoveCount' = MoveCount /\ Staged' = Staged
  BY <1>1 DEF Same, Continue, history, Op, MoveCount, Staged
<1>4. Faulted(1) /\ (Faulted(1) => Faulted(1)') /\ (Faulted(2) => Faulted(2)')
  BY <1>1, <1>3 DEF FaultInv, Faulted, Calls, TypeOK
<1>5. GoesOn /\ pc' \in {"unmove", "unstage"} /\ i' \in 0..4
  BY <1>1, <1>2 DEF GoesOn, PCs, Same, UnmovePayload, Go
<1>6. ASSUME disk' \in [Places -> [Tops -> Dirs]] PROVE
      /\ TypeOK' /\ PlaceInv' /\ DirectionInv' /\ LookInv' /\ RecordsInv' /\ RecordInv' /\ CodexInv' /\ FaultInv'
      /\ ReportInv'
  BY <1>1, <1>4, <1>5, <1>6, PublishingKeepsRest
<1>7. CASE i = 0 /\ Go("unstage") /\ i' = 1 /\ disk' = disk
  <2>1. IndexInv' /\ StagingInv' /\ disk' \in [Places -> [Tops -> Dirs]]
    BY <1>3, <1>7 DEF IndexInv, StagingInv, Settled, TypeOK, Go
  <2>2. PayloadInv'
    <3> SUFFICES ASSUME NEW t \in Tops, Untouched(t) PROVE (PublicationInv(t) /\ RollbackInv(t) /\ RemovalInv(t))'
      BY <1>3 DEF PayloadInv, Untouched
    <3>1. PublicationInv(t) /\ Rank(t) \in 1..2
      BY <1>2 DEF PayloadInv
    <3>2. Saved(t)' /\ (Original(t)' \/ Faulted(2)')
      BY <1>1, <1>3, <1>4, <1>7, <3>1 DEF PublicationInv, Saved, Original, Live
    <3> QED BY <1>1, <1>3, <1>7, <3>1, <3>2 DEF PublicationInv, RollbackInv, RemovalInv, Go
  <2> QED BY <1>5, <1>6, <2>1, <2>2
<1>8. CASE i > 0 /\ i' = i - 1 /\ pc' = "unmove" /\ disk' = disk /\ CallFails(~CanMove(Back(Moves[i])))
  <2>1. IndexInv' /\ StagingInv' /\ disk' \in [Places -> [Tops -> Dirs]]
    BY <1>1, <1>2, <1>3, <1>8 DEF IndexInv, StagingInv, Settled, TypeOK
  <2>2. Faulted(2)' \/ (touched = {} /\ ~CanMove(Back(Moves[i])))
    BY <1>3, <1>4, <1>8 DEF Faulted, CallFails, TypeOK
  <2>3. PayloadInv'
    <3> SUFFICES ASSUME NEW t \in Tops, Untouched(t) PROVE (PublicationInv(t) /\ RollbackInv(t) /\ RemovalInv(t))'
      BY <1>3 DEF PayloadInv, Untouched
    <3>1. PublicationInv(t) /\ Rank(t) \in 1..2
      BY <1>2 DEF PayloadInv
    <3>2. /\ Original(t)' <=> Original(t)
          /\ Aside(t)' <=> Aside(t)
          /\ Away(t)' <=> Away(t)
          /\ Replaced(t)' <=> Replaced(t)
          /\ Saved(t)' <=> Saved(t)
      BY <1>3, <1>8 DEF Original, Aside, Away, Replaced, Saved, Live
    <3>3. CASE MoveCount - 2 + Rank(t) = i
      <4>1. Replaced(t) /\ disk["stage"][t] = NoDir
        BY <1>1, <1>2, <3>1, <3>3 DEF PublicationInv
      <4>2. Moves[i] = Move("stage", "live", t)
        <5>1. ~(i <= MoveCount - 2) /\ i \in 1..MoveCount /\ i - (MoveCount - 2) = Rank(t)
          BY <1>1, <1>2, <3>1, <3>3
        <5>2. Order[Rank(t)] = t
          BY DEF Order, Rank, Tops
        <5> QED BY <5>1, <5>2, MoveFacts
      <4>3. CanMove(Back(Moves[i]))
        BY <4>1, <4>2 DEF CanMove, Back, Move, Replaced, Staged, Dir, Free, NoDir
      <4>4. Aside(t) /\ (Op = "install" => Saved(t)) /\ Faulted(2)'
        BY <2>2, <4>1, <4>3 DEF Replaced, Saved
      <4> QED BY <1>1, <1>2, <1>3, <1>8, <3>1, <3>2, <3>3, <4>4 DEF PublicationInv, RollbackInv, RemovalInv
    <3>4. CASE Op = "update" /\ Rank(t) = i
      <4>1. Aside(t) /\ (Away(t) \/ Faulted(2)) /\ \E S : before.live[t] = Dir(S)
        BY <1>1, <1>2, <3>1, <3>4 DEF PublicationInv
      <4>2. Moves[i] = Move("live", "backup", t)
        <5>1. i <= MoveCount - 2 /\ i \in 1..MoveCount
          BY <1>1, <1>2, <3>1, <3>4
        <5>2. Order[Rank(t)] = t
          BY DEF Order, Rank, Tops
        <5> QED BY <3>4, <5>1, <5>2, MoveFacts
      <4>3. Away(t) => CanMove(Back(Moves[i]))
        <5>1. \A S : Dir(S).there = TRUE
          BY DEF Dir
        <5> QED BY <3>4, <4>1, <4>2, <5>1 DEF CanMove, Back, Move, Away, Aside, Free
      <4>4. Faulted(2)'
        BY <1>4, <2>2, <4>1, <4>3
      <4>5. Saved(t)
        BY <4>1 DEF Aside, Saved, Live
      <4> QED BY <1>1, <1>2, <1>3, <1>8, <3>1, <3>2, <3>4, <4>1, <4>4, <4>5 DEF PublicationInv, RollbackInv, RemovalInv
    <3>5. CASE MoveCount - 2 + Rank(t) # i /\ ~(Op = "update" /\ Rank(t) = i)
      BY <1>1, <1>2, <1>3, <1>4, <1>8, <3>1, <3>2, <3>5 DEF PublicationInv, RollbackInv, RemovalInv
    <3> QED BY <3>3, <3>4, <3>5
  <2> QED BY <1>5, <1>6, <2>1, <2>3
<1>9. CASE i > 0 /\ i' = i - 1 /\ pc' = "unmove" /\ CanMove(Back(Moves[i])) /\ disk' = Moved(Back(Moves[i]))
  <2>1. IndexInv'
    BY <1>1, <1>2, <1>3, <1>9 DEF IndexInv
  <2>2. CASE i <= MoveCount - 2
    <3>1. i \in 1..2 /\ MoveCount = 4 /\ Op = "update"
      BY <1>1, <1>2, <1>9, <2>2
    <3>2. PICK top \in Tops : Rank(top) = i /\ Moves[i] = Move("live", "backup", top)
      BY <1>1, <2>2, <3>1, OrderFacts, MoveFacts
    <3>3. Back(Moves[i]) = Move("backup", "live", top)
      BY <3>2 DEF Back, Move
    <3>4. /\ disk' \in [Places -> [Tops -> Dirs]]
          /\ \A t \in Tops : /\ disk'["stage"][t] = disk["stage"][t]
                             /\ t # top => disk'["live"][t] = disk["live"][t] /\ disk'["backup"][t] = disk["backup"][t]
          /\ disk'["backup"][top] = NoDir /\ disk'["live"][top] = disk["backup"][top]
      BY <1>9, <3>3, MovedFacts DEF Places
    <3>5. StagingInv'
      BY <1>9, <3>3, MoveSettles DEF StagingInv, Places
    <3>6. PayloadInv'
      <4> SUFFICES ASSUME NEW t \in Tops, Untouched(t) PROVE (PublicationInv(t) /\ RollbackInv(t) /\ RemovalInv(t))'
        BY <1>3 DEF PayloadInv, Untouched
      <4>1. PublicationInv(t) /\ Rank(t) \in 1..2 /\ (Rank(t) = i => t = top)
        BY <1>2, <3>2 DEF PayloadInv
      <4>2. CASE t = top
        <5>1. Original(t)' /\ Saved(t)'
          BY <1>1, <1>3, <3>1, <3>2, <3>4, <4>1, <4>2 DEF PublicationInv, Aside, Original, Saved, Live
        <5> QED BY <1>1, <1>3, <1>9, <3>1, <3>2, <4>1, <4>2, <5>1 DEF PublicationInv, RollbackInv, RemovalInv
      <4>3. CASE t # top
        <5>1. /\ Original(t)' <=> Original(t)
              /\ Aside(t)' <=> Aside(t)
              /\ Away(t)' <=> Away(t)
              /\ Saved(t)' <=> Saved(t)
          BY <1>3, <3>4, <4>3 DEF Original, Aside, Away, Saved, Live
        <5> QED BY <1>1, <1>3, <1>4, <1>9, <3>1, <3>2, <4>1, <4>3, <5>1 DEF PublicationInv, RollbackInv, RemovalInv
      <4> QED BY <4>2, <4>3
    <3> QED BY <1>5, <1>6, <2>1, <3>4, <3>5, <3>6
  <2>3. CASE i > MoveCount - 2
    <3> DEFINE n == i - (MoveCount - 2)
    <3>1. n \in 1..2 /\ MoveCount - 2 + n = i /\ i \in 1..MoveCount
      BY <1>1, <1>2, <2>3
    <3>2. PICK top \in Tops : Rank(top) = n /\ Moves[i] = Move("stage", "live", top)
      BY <1>1, <2>3, <3>1, OrderFacts, MoveFacts
    <3> HIDE DEF n
    <3>3. Back(Moves[i]) = Move("live", "stage", top)
      BY <3>2 DEF Back, Move
    <3>4. /\ disk' \in [Places -> [Tops -> Dirs]]
          /\ \A t \in Tops : /\ disk'["backup"][t] = disk["backup"][t]
                             /\ t # top => disk'["live"][t] = disk["live"][t] /\ disk'["stage"][t] = disk["stage"][t]
          /\ disk'["live"][top] = NoDir
      BY <1>9, <3>3, MovedFacts DEF Places
    <3>5. StagingInv'
      BY <1>9, <3>3, MoveSettles DEF StagingInv, Places
    <3>6. PayloadInv'
      <4> SUFFICES ASSUME NEW t \in Tops, Untouched(t) PROVE (PublicationInv(t) /\ RollbackInv(t) /\ RemovalInv(t))'
        BY <1>3 DEF PayloadInv, Untouched
      <4>1. PublicationInv(t) /\ Rank(t) \in 1..2 /\ (Rank(t) = n => t = top)
        BY <1>2, <3>2 DEF PayloadInv
      <4>2. CASE t = top
        <5>1. Replaced(t) /\ (Op = "install" => before.live[t] = NoDir)
          BY <1>1, <1>2, <3>1, <3>2, <4>1, <4>2 DEF PublicationInv
        <5>2. Aside(t)' /\ Away(t)' /\ (Op = "install" => Original(t)' /\ Saved(t)')
          BY <1>3, <3>4, <4>2, <5>1 DEF Replaced, Aside, Away, Original, Saved, NoDir
        <5> QED BY <1>1, <1>2, <1>3, <1>9, <3>1, <3>2, <4>1, <4>2, <5>2 DEF PublicationInv, RollbackInv, RemovalInv
      <4>3. CASE t # top
        <5>1. /\ Original(t)' <=> Original(t)
              /\ Aside(t)' <=> Aside(t)
              /\ Away(t)' <=> Away(t)
              /\ Replaced(t)' <=> Replaced(t)
              /\ Saved(t)' <=> Saved(t)
              /\ disk'["stage"][t] = disk["stage"][t]
          BY <1>3, <3>4, <4>3 DEF Original, Aside, Away, Replaced, Saved, Live
        <5> QED BY <1>1, <1>2, <1>3, <1>4, <1>9, <3>1, <3>2, <4>1, <4>3, <5>1 DEF PublicationInv, RollbackInv, RemovalInv
      <4> QED BY <4>2, <4>3
    <3> QED BY <1>5, <1>6, <2>1, <3>4, <3>5, <3>6
  <2> QED BY <1>1, <1>2, <2>2, <2>3
<1> QED BY <1>7, <1>8, <1>9 DEF UnmovePayload, Go

(* Unstage: the end of a publication that was taken back.                   *)
LEMMA UnstageKeeps == ASSUME BridgeInv, Unstage PROVE BridgeInv'
<1>1. PICK kept \in {{"backup"}, {"stage", "backup"}} : Leave("failed", kept) /\ Calls
  BY CallFacts DEF Unstage, BridgeInv, ControlInv
<1>2. /\ pc = "unstage" /\ UNCHANGED <<record, codex, request, before, touched>> /\ outcome' = "failed" /\ Op' = Op
      /\ TypeOK /\ faults \in Nat /\ faults' \in Nat /\ faults <= faults'
      /\ \A t \in Tops : disk'["live"][t] = disk["live"][t]
  BY <1>1 DEF Unstage, Leave, history, Op, BridgeInv, ControlInv, TypeOK, Calls, Places
<1>3. OneFaultIsUndone'
  <2> SUFFICES ASSUME faults' <= 1, touched = {} PROVE AsBefore' /\ RegistrationsAsBefore'
    BY <1>2 DEF OneFaultIsUndone
  <2>1. \A t \in Tops : Original(t)
    BY <1>2 DEF BridgeInv, PayloadInv, PublicationInv, Faulted, Untouched
  <2>2. record = before.record /\ codex = before.codex
    BY <1>2 DEF BridgeInv, RecordInv, CodexInv, Untouched
  <2> QED BY <1>2, <2>1, <2>2 DEF AsBefore, RegistrationsAsBefore, Live, Original
<1>4. (FailureIsHonest /\ SuccessIsComplete)'
  BY <1>2 DEF FailureIsHonest, SuccessIsComplete
<1> QED BY <1>1, <1>2, <1>3, <1>4, EndKeeps DEF BridgeInv, TypeOK, RecordsInv, Registrations, Outcomes, Places

-----------------------------------------------------------------------------
(* The calls of Codex.  What a plugin is registered as depends on the       *)
(* manifest it finds.                                                       *)
LEMMA EffectFacts ==
    /\ Effect("add marketplace") = [codex EXCEPT !.marketplace = "ours"]
    /\ Effect("add plugin") = IF Manifest = {} THEN codex ELSE [codex EXCEPT !.plugin = AddedVersion]
    /\ Effect("remove plugin") = [codex EXCEPT !.plugin = "none"]
    /\ Effect("remove marketplace") = [codex EXCEPT !.marketplace = "none"]
<1>1. Effect("add marketplace") = [codex EXCEPT !.marketplace = "ours"]
  BY DEF Effect
<1>2. Effect("add plugin") = IF Manifest = {} THEN codex ELSE [codex EXCEPT !.plugin = AddedVersion]
  BY DEF Effect
<1>3. Effect("remove plugin") = [codex EXCEPT !.plugin = "none"]
  BY DEF Effect
<1>4. Effect("remove marketplace") = [codex EXCEPT !.marketplace = "none"]
  BY DEF Effect
<1> QED BY <1>1, <1>2, <1>3, <1>4

(* Codex registers the version the manifest names.                          *)
LEMMA AddedVersionFacts ==
    ASSUME Manifest # {} PROVE AddedVersion \in Plugins /\ \A v \in Versions : Manifest = {v} => AddedVersion = v
<1>1. CASE Manifest \subseteq Versions
  <2>1. AddedVersion \in Versions /\ AddedVersion \in Manifest
    BY <1>1 DEF AddedVersion
  <2> QED BY <2>1 DEF Plugins
<1>2. CASE ~(Manifest \subseteq Versions)
  BY <1>2 DEF AddedVersion, Plugins
<1> QED BY <1>1, <1>2

(* A call to Codex leaves registrations of the known kinds.                 *)
LEMMA EffectTypes ==
    ASSUME TypeOK, NEW call \in {"add marketplace", "add plugin", "remove plugin", "remove marketplace"}
    PROVE  Effect(call) \in Registrations
<1>1. codex \in Registrations
  BY DEF TypeOK, Registrations
<1>2. CASE call = "add plugin"
  <2>1. Manifest # {} => AddedVersion \in Plugins
    BY AddedVersionFacts
  <2> QED BY <1>1, <1>2, <2>1, EffectFacts DEF Registrations
<1>3. CASE call # "add plugin"
  BY <1>1, <1>3, EffectFacts DEF Registrations, Marketplaces, Plugins
<1> QED BY <1>2, <1>3

(* A call of Codex: what it may do, and when it counts as a fault           *)
LEMMA CodexCallFacts ==
    ASSUME TypeOK, NEW call \in {"add marketplace", "add plugin", "remove plugin", "remove marketplace"},
           Succeeds(call) \/ Fails(call)
    PROVE  /\ Calls /\ codex' \in Registrations
           /\ codex' = codex \/ codex' = Effect(call)
           /\ Succeeds(call) => codex' = Effect(call) /\ (call = "add plugin" => Manifest # {})
           /\ Fails(call) => faults' = faults + 1 \/ (call = "add plugin" /\ Manifest = {})
<1>1. Calls
  BY CallFacts DEF Succeeds, Fails
<1>2. codex' \in Registrations
  BY EffectTypes DEF Succeeds, Fails, TypeOK, Registrations
<1> QED BY <1>1, <1>2 DEF Succeeds, Fails, CallFails

(* A call to Codex disturbs nothing but its registrations.                  *)
LEMMA CodexStepKeeps ==
    ASSUME BridgeInv, GoesOn, UNCHANGED <<disk, record, i, read, remaining, seen>>, codex' \in Registrations,
           undo' \subseteq {"plugin", "marketplace"}, failed' \in BOOLEAN, backward' \in BOOLEAN,
           pc \in Registering \union Unregistering \union {"readd"},
           pc' \in {"addPlugin", "write", "undoPlugin", "undoMarketplace", "erase", "giveUp", "rolledBack"},
           pc' = "rolledBack" => Op = "update", pc = "readd" => pc' \in {"giveUp", "rolledBack"},
           pc' = "addPlugin" => Op # "uninstall", pc' = "undoMarketplace" => Op # "update"
    PROVE  /\ TypeOK' /\ PlaceInv' /\ LookInv' /\ RecordsInv' /\ RecordInv' /\ StagingInv' /\ ReportInv' /\ IndexInv'
           /\ UNCHANGED <<before, touched, request>> /\ Op' = Op
<1> USE DEF BridgeInv, ControlInv
<1>1. UNCHANGED <<before, touched, request>> /\ Op' = Op
  BY DEF GoesOn, Continue, history, Op
<1>2. TypeOK'
  BY GoingOnKeepsTypes DEF TypeOK, GoesOn
<1>3. PlaceInv' /\ RecordsInv' /\ RecordInv' /\ ReportInv'
  BY <1>1, GoingOnKeepsPlace, GoingOnKeepsRecords, GoingOnReports
<1>4. LookInv' /\ StagingInv'
  BY <1>1 DEF LookInv, StagingInv, Settled
<1>5. IndexInv'
  BY <1>1 DEF IndexInv, PlaceInv
<1> QED BY <1>1, <1>2, <1>3, <1>4, <1>5

(* A call that failed is counted.                                           *)
LEMMA OneMoreFault ==
    ASSUME TypeOK, faults' = faults + 1, touched' = touched
    PROVE  Faulted(1)' /\ (Faulted(1) => Faulted(2)')
<1>1. faults \in Nat
  BY DEF TypeOK
<1> QED BY <1>1 DEF Faulted

(* AddMarketplace: the first call of an install to Codex.                   *)
LEMMA AddMarketplaceKeeps == ASSUME BridgeInv, AddMarketplace PROVE BridgeInv'
<1> USE DEF BridgeInv, ControlInv
<1>1. /\ Calls /\ codex' \in Registrations /\ pc = "addMarketplace" /\ Op = "install"
      /\ codex' = codex \/ codex' = Effect("add marketplace")
      /\ Succeeds("add marketplace") => codex' = Effect("add marketplace")
      /\ Fails("add marketplace") => faults' = faults + 1
      /\ UNCHANGED <<tree, record, i>> /\ Continue
  BY CodexCallFacts DEF AddMarketplace, PlaceInv
<1>2. backward = FALSE /\ failed = FALSE /\ remaining = {}
  BY <1>1 DEF DirectionInv, TypeOK
<1>3. /\ UNCHANGED <<read, request, failed, remaining, seen>>
      /\ \/ pc' = "addPlugin" /\ codex'.marketplace = "ours" /\ backward' = FALSE /\ undo' = undo
         \/ pc' = "undoPlugin" /\ faults' = faults + 1 /\ backward' = TRUE /\ undo' = {"marketplace"}
      /\ codex'.plugin = codex.plugin
  BY <1>1, <1>2, EffectFacts DEF AddMarketplace, Same, RollBack, Go, TypeOK
<1>4. GoesOn
  BY <1>1, <1>3 DEF GoesOn, PCs, tree
<1>5. /\ TypeOK' /\ PlaceInv' /\ LookInv' /\ RecordsInv' /\ RecordInv' /\ StagingInv' /\ ReportInv' /\ IndexInv'
      /\ UNCHANGED <<before, touched, request>> /\ Op' = Op
  BY <1>1, <1>3, <1>4, CodexStepKeeps DEF TypeOK, tree
<1>6. DirectionInv'
  BY <1>1, <1>3, <1>5, <1>2 DEF DirectionInv
<1>7. CodexInv'
  BY <1>1, <1>3, <1>5, <1>2 DEF CodexInv, Untouched
<1>8. FaultInv'
  <2>1. pc' = "undoPlugin" => Faulted(1)'
    BY <1>1, <1>3, <1>5, OneMoreFault
  <2> QED BY <1>2, <1>3, <1>5, <2>1 DEF FaultInv
<1>9. PayloadInv'
  BY <1>1, <1>3, <1>5, <1>2 DEF PayloadInv, PublicationInv, RollbackInv, RemovalInv, Replaced, Aside, Staged, Untouched, tree
<1> QED BY <1>4, <1>5, <1>6, <1>7, <1>8, <1>9

(* RemovePlugin: the first call of an update to Codex.                      *)
LEMMA RemovePluginKeeps == ASSUME BridgeInv, RemovePlugin PROVE BridgeInv'
<1> USE DEF BridgeInv, ControlInv
<1>1. /\ Calls /\ codex' \in Registrations /\ pc = "removePlugin" /\ Op = "update"
      /\ codex' = codex \/ codex' = Effect("remove plugin")
      /\ Fails("remove plugin") => faults' = faults + 1
      /\ UNCHANGED <<tree, record, i>> /\ Continue
  BY CodexCallFacts DEF RemovePlugin, PlaceInv
<1>2. backward = FALSE /\ failed = FALSE /\ remaining = {}
  BY <1>1 DEF DirectionInv, TypeOK
<1>3. /\ UNCHANGED <<read, request, failed, remaining, seen>>
      /\ \/ pc' = "addPlugin" /\ backward' = FALSE /\ undo' = undo
         \/ pc' = "undoPlugin" /\ faults' = faults + 1 /\ backward' = TRUE /\ undo' = {}
      /\ codex'.marketplace = codex.marketplace
  BY <1>1, <1>2, EffectFacts DEF RemovePlugin, Same, RollBack, Go, TypeOK
<1>4. GoesOn
  BY <1>1, <1>3 DEF GoesOn, PCs, tree
<1>5. /\ TypeOK' /\ PlaceInv' /\ LookInv' /\ RecordsInv' /\ RecordInv' /\ StagingInv' /\ ReportInv' /\ IndexInv'
      /\ UNCHANGED <<before, touched, request>> /\ Op' = Op
  BY <1>1, <1>3, <1>4, CodexStepKeeps DEF TypeOK, tree
<1>6. DirectionInv'
  BY <1>1, <1>3, <1>5, <1>2 DEF DirectionInv
<1>7. CodexInv'
  BY <1>1, <1>3, <1>5, <1>2 DEF CodexInv, Untouched, Exactly
<1>8. FaultInv'
  <2>1. pc' = "undoPlugin" => Faulted(1)'
    BY <1>1, <1>3, <1>5, OneMoreFault
  <2> QED BY <1>2, <1>3, <1>5, <2>1 DEF FaultInv
<1>9. PayloadInv'
  BY <1>1, <1>3, <1>5, <1>2 DEF PayloadInv, PublicationInv, RollbackInv, RemovalInv, Replaced, Aside, Staged, Untouched, tree
<1> QED BY <1>4, <1>5, <1>6, <1>7, <1>8, <1>9

(* With the staged payload in place the manifest names the new version.     *)
LEMMA StagedManifest ==
    ASSUME request.version \in Versions, disk["live"]["marketplace"] = Staged
    PROVE  Manifest = {request.version} /\ AddedVersion = request.version
<1>1. Manifest = {request.version}
  BY DEF Manifest, Staged, Dir, OwnPath
<1> QED BY <1>1, AddedVersionFacts

(* AddPlugin: Codex reads the new manifest.                                 *)
LEMMA AddPluginKeeps == ASSUME BridgeInv, AddPlugin PROVE BridgeInv'
<1> USE DEF BridgeInv, ControlInv
<1>1. /\ Calls /\ codex' \in Registrations /\ pc = "addPlugin" /\ Op \in {"install", "update"} /\ request.version \in Versions
      /\ codex' = codex \/ codex' = Effect("add plugin")
      /\ Succeeds("add plugin") => codex' = Effect("add plugin") /\ Manifest # {}
      /\ Fails("add plugin") => faults' = faults + 1 \/ Manifest = {}
      /\ UNCHANGED <<tree, record, i>> /\ Continue
  BY CodexCallFacts, OpFacts DEF AddPlugin, PlaceInv
<1>2. backward = FALSE /\ failed = FALSE /\ remaining = {}
  BY <1>1 DEF DirectionInv, TypeOK
<1>3. /\ UNCHANGED <<read, request, failed, remaining, seen>>
      /\ \/ pc' = "write" /\ codex'.plugin = AddedVersion /\ backward' = FALSE /\ undo' = undo
         \/ /\ pc' = "undoPlugin" /\ (faults' = faults + 1 \/ Manifest = {}) /\ backward' = TRUE
            /\ undo' = {"plugin", "marketplace"}
      /\ codex'.marketplace = codex.marketplace
  <2>1. codex'.marketplace = codex.marketplace /\ (codex' = Effect("add plugin") /\ Manifest # {} => codex'.plugin = AddedVersion)
    <3>1. codex \in Registrations
      BY DEF TypeOK, Registrations
    <3>2. codex' = codex \/ codex' = [codex EXCEPT !.plugin = AddedVersion]
      BY <1>1, EffectFacts
    <3>3. codex' = Effect("add plugin") /\ Manifest # {} => codex' = [codex EXCEPT !.plugin = AddedVersion]
      BY EffectFacts
    <3> QED BY <3>1, <3>2, <3>3 DEF Registrations
  <2>2. CASE Succeeds("add plugin") /\ Go("write") /\ Same
    BY <1>1, <1>2, <2>1, <2>2 DEF Same, Go
  <2>3. CASE Fails("add plugin") /\ RollBack({"plugin", "marketplace"})
    BY <1>1, <2>1, <2>3 DEF RollBack, Go
  <2> QED BY <2>2, <2>3 DEF AddPlugin
<1>4. GoesOn
  BY <1>1, <1>3 DEF GoesOn, PCs, tree
<1>5. /\ TypeOK' /\ PlaceInv' /\ LookInv' /\ RecordsInv' /\ RecordInv' /\ StagingInv' /\ ReportInv' /\ IndexInv'
      /\ UNCHANGED <<before, touched, request>> /\ Op' = Op
  BY <1>1, <1>3, <1>4, CodexStepKeeps DEF TypeOK, tree
<1>6. DirectionInv'
  BY <1>1, <1>3, <1>5, <1>2 DEF DirectionInv
<1>7. Untouched("marketplace") => Manifest = {request.version} /\ AddedVersion = request.version
  BY <1>1, StagedManifest DEF PayloadInv, PublicationInv, Replaced, Tops
<1>8. CodexInv'
  <2>1. codex' = [marketplace |-> codex'.marketplace, plugin |-> codex'.plugin]
    BY <1>1 DEF Registrations
  <2>2. Untouched("codex") => codex.marketplace = "ours"
    BY <1>1 DEF CodexInv
  <2>3. Untouched("codex") /\ Untouched("marketplace") /\ pc' = "write" => codex' = Exactly(request.version)
    BY <1>3, <1>7, <2>1, <2>2 DEF Exactly
  <2> QED BY <1>1, <1>3, <1>5, <1>2, <2>2, <2>3 DEF CodexInv, Untouched, Exactly
<1>9. FaultInv'
  <2>1. pc' = "undoPlugin" => Faulted(1)'
    <3>1. pc' = "undoPlugin" /\ faults' = faults + 1 => Faulted(1)'
      BY <1>1, <1>5, OneMoreFault
    <3>2. Manifest = {} => touched # {}
      BY <1>7 DEF Untouched
    <3> QED BY <1>3, <1>5, <3>1, <3>2 DEF Faulted
  <2> QED BY <1>2, <1>3, <1>5, <2>1 DEF FaultInv
<1>10. PayloadInv'
  <2> SUFFICES ASSUME NEW t \in Tops, Untouched(t)'
               PROVE  PublicationInv(t)' /\ RollbackInv(t)' /\ RemovalInv(t)'
    BY DEF PayloadInv
  <2>1. PublicationInv(t) /\ RollbackInv(t) /\ RemovalInv(t)
    BY <1>1, <1>5 DEF PayloadInv, Untouched
  <2>2. PublicationInv(t)'
    BY <1>1, <1>2, <1>3, <1>5, <2>1 DEF PublicationInv, Replaced, Aside, Staged, tree
  <2>3. RollbackInv(t)'
    BY <1>1, <1>2, <1>3, <1>5, <2>1 DEF RollbackInv, PublicationInv, Replaced, Aside, Staged, tree
  <2>4. RemovalInv(t)'
    BY <1>1, <1>2, <1>3, <1>5, <2>1 DEF RemovalInv, tree
  <2> QED BY <2>2, <2>3, <2>4
<1> QED BY <1>4, <1>5, <1>6, <1>8, <1>9, <1>10

(* What taking back a registration leaves.                                  *)
LEMMA TakeBackFacts ==
    ASSUME TypeOK, NEW name, NEW call \in {"remove plugin", "remove marketplace"}, TakeBack(name, call)
    PROVE  /\ Calls /\ codex' \in Registrations /\ failed' \in BOOLEAN
           /\ codex' = codex \/ codex' = Effect(call)
           /\ failed' = TRUE => failed = TRUE \/ faults' = faults + 1
           /\ failed' = FALSE => failed = FALSE /\ codex' = (IF name \in undo THEN Effect(call) ELSE codex)
<1>1. failed \in BOOLEAN /\ codex \in Registrations
  BY DEF TypeOK, Registrations
<1>2. CASE name \notin undo /\ Works /\ UNCHANGED <<codex, failed>>
  BY <1>1, <1>2, CallFacts
<1>3. CASE name \in undo /\ Succeeds(call) /\ UNCHANGED failed
  BY <1>1, <1>3, CodexCallFacts
<1>4. CASE name \in undo /\ Fails(call) /\ failed' = TRUE
  BY <1>1, <1>4, CodexCallFacts
<1> QED BY <1>2, <1>3, <1>4 DEF TakeBack

(* UndoPlugin: by a rollback or by an uninstall.                            *)
LEMMA UndoPluginKeeps == ASSUME BridgeInv, UndoPlugin PROVE BridgeInv'
<1> USE DEF BridgeInv, ControlInv
<1>1. /\ pc = "undoPlugin" /\ pc' = (IF Op = "update" THEN "erase" ELSE "undoMarketplace")
      /\ UNCHANGED <<tree, record, request, i, read, undo, backward, remaining, seen>> /\ Continue
      /\ Op \in {"install", "update", "uninstall"}
  BY OpFacts DEF UndoPlugin, Go
<1>2. /\ Calls /\ codex' \in Registrations /\ failed' \in BOOLEAN
      /\ codex' = codex \/ codex' = Effect("remove plugin")
      /\ failed' = TRUE => failed = TRUE \/ faults' = faults + 1
      /\ failed' = FALSE => failed = FALSE /\ codex' = (IF "plugin" \in undo THEN Effect("remove plugin") ELSE codex)
  BY TakeBackFacts DEF UndoPlugin
<1>3. GoesOn
  BY <1>1, <1>2 DEF GoesOn, PCs, tree
<1>4. /\ TypeOK' /\ PlaceInv' /\ LookInv' /\ RecordsInv' /\ RecordInv' /\ StagingInv' /\ ReportInv' /\ IndexInv'
      /\ UNCHANGED <<before, touched, request>> /\ Op' = Op
  BY <1>1, <1>2, <1>3, CodexStepKeeps DEF TypeOK, tree
<1>5. failed = FALSE /\ remaining = {} /\ i = 1 /\ (Op # "uninstall" => backward = TRUE)
  BY <1>1 DEF DirectionInv, IndexInv
<1>6. DirectionInv'
  BY <1>1, <1>2, <1>4, <1>5 DEF DirectionInv
<1>7. CodexInv'
  <2>1. /\ codex'.marketplace = codex.marketplace
        /\ failed' = FALSE => codex'.plugin = IF "plugin" \in undo THEN "none" ELSE codex.plugin
    <3>1. codex \in Registrations
      BY DEF TypeOK, Registrations
    <3>2. Effect("remove plugin") = [codex EXCEPT !.plugin = "none"]
      BY EffectFacts
    <3> QED BY <1>2, <3>1, <3>2 DEF Registrations
  <2> QED BY <1>1, <1>4, <1>5, <2>1 DEF CodexInv, Untouched, Cleared, Exactly
<1>8. FaultInv'
  <2>1. Op # "uninstall" => Faulted(1)
    BY <1>1, <1>5 DEF FaultInv
  <2>2. Op # "uninstall" => Faulted(1)' /\ (failed' = TRUE => Faulted(2)')
    BY <1>2, <1>3, <1>4, <1>5, <2>1, OneMoreFault, FaultedKept
  <2> QED BY <1>1, <1>4, <1>5, <2>2 DEF FaultInv
<1>9. PayloadInv'
  <2> SUFFICES ASSUME NEW t \in Tops, Untouched(t) PROVE (PublicationInv(t) /\ RollbackInv(t) /\ RemovalInv(t))'
    BY <1>4 DEF PayloadInv, Untouched
  <2>1. PublicationInv(t) /\ RollbackInv(t) /\ Rank(t) \in 1..2
    BY RankFacts DEF PayloadInv
  <2>2. Replaced(t)' <=> Replaced(t)
    BY <1>1, <1>4 DEF Replaced, Aside, Staged, tree
  <2>3. Original(t)' <=> Original(t)
    BY <1>1, <1>4 DEF Original, tree
  <2> QED BY <1>1, <1>4, <1>5, <2>1, <2>2, <2>3 DEF PublicationInv, RollbackInv, RemovalInv
<1> QED BY <1>4, <1>6, <1>7, <1>8, <1>9

(* UndoMarketplace: by a rollback or by an uninstall.                       *)
LEMMA UndoMarketplaceKeeps == ASSUME BridgeInv, UndoMarketplace PROVE BridgeInv'
<1> USE DEF BridgeInv, ControlInv
<1>1. /\ pc = "undoMarketplace"
      /\ UNCHANGED <<tree, record, request, i, read, undo, backward, remaining, seen>> /\ Continue
      /\ Op \in {"install", "uninstall"}
  BY OpFacts DEF UndoMarketplace, PlaceInv
<1>2. /\ Calls /\ codex' \in Registrations /\ failed' \in BOOLEAN
      /\ codex' = codex \/ codex' = Effect("remove marketplace")
      /\ failed' = TRUE => failed = TRUE \/ faults' = faults + 1
      /\ failed' = FALSE => failed = FALSE /\ codex' = (IF "marketplace" \in undo THEN Effect("remove marketplace") ELSE codex)
  BY TakeBackFacts DEF UndoMarketplace
<1>3. backward \in BOOLEAN /\ (backward = TRUE <=> Op = "install")
  BY <1>1 DEF DirectionInv, TypeOK
<1>4. \/ failed' = FALSE /\ pc' = "erase"
      \/ failed' = TRUE /\ Op = "install" /\ pc' = "write"
      \/ failed' = TRUE /\ Op = "uninstall" /\ pc' = "giveUp"
  <2>1. pc' = CASE ~failed' -> "erase" [] failed' /\ backward -> "write" [] OTHER -> "giveUp"
    BY Zenon DEF UndoMarketplace, Go
  <2> QED BY <1>1, <1>2, <1>3, <2>1
<1>5. GoesOn
  BY <1>1, <1>2, <1>4 DEF GoesOn, PCs, tree
<1>6. /\ TypeOK' /\ PlaceInv' /\ LookInv' /\ RecordsInv' /\ RecordInv' /\ StagingInv' /\ ReportInv' /\ IndexInv'
      /\ UNCHANGED <<before, touched, request>> /\ Op' = Op
  BY <1>1, <1>2, <1>4, <1>5, CodexStepKeeps DEF TypeOK, tree
<1>7. remaining = {} /\ i = 1
  BY <1>1 DEF DirectionInv, IndexInv
<1>8. DirectionInv'
  BY <1>1, <1>3, <1>4, <1>6, <1>7 DEF DirectionInv
<1>9. CodexInv'
  <2>1. /\ codex'.plugin = codex.plugin
        /\ failed' = FALSE => codex'.marketplace = IF "marketplace" \in undo THEN "none" ELSE codex.marketplace
    <3>1. codex \in Registrations
      BY DEF TypeOK, Registrations
    <3>2. Effect("remove marketplace") = [codex EXCEPT !.marketplace = "none"]
      BY EffectFacts
    <3> QED BY <1>2, <3>1, <3>2 DEF Registrations
  <2>2. Op = "install" => "marketplace" \in undo
    BY <1>1 DEF DirectionInv
  <2> QED BY <1>1, <1>2, <1>3, <1>4, <1>6, <2>1, <2>2 DEF CodexInv, Untouched, Cleared, Exactly
<1>10. FaultInv'
  <2>1. Op = "install" => Faulted(1) /\ (failed = TRUE => Faulted(2))
    BY <1>1, <1>3 DEF FaultInv
  <2>2. Op = "install" => Faulted(1)' /\ (failed' = TRUE => Faulted(2)')
    BY <1>2, <1>5, <1>6, <2>1, OneMoreFault, FaultedKept
  <2> QED BY <1>1, <1>4, <1>6, <1>7, <2>2 DEF FaultInv
<1>11. PayloadInv'
  <2> SUFFICES ASSUME NEW t \in Tops, Untouched(t)'
               PROVE  PublicationInv(t)' /\ RollbackInv(t)' /\ RemovalInv(t)'
    BY DEF PayloadInv
  <2>1. PublicationInv(t) /\ RollbackInv(t) /\ RemovalInv(t)
    BY <1>1, <1>6 DEF PayloadInv, Untouched
  <2>2. PublicationInv(t)'
    BY <1>1, <1>3, <1>4, <1>6, <1>7, <2>1 DEF PublicationInv, Replaced, Aside, Staged, Original, Saved, tree, Rank
  <2>3. RollbackInv(t)'
    <3>1. pc = "undoMarketplace" /\ Op' = Op /\ i' = 1 /\ ~(Rank(t) < i')
      BY <1>1, <1>6, <1>7, RankFacts
    <3>2. (Original(t)' <=> Original(t)) /\ (Replaced(t)' <=> Replaced(t))
      BY <1>1, <1>6 DEF Original, Replaced, Aside, Staged, tree
    <3>3. Op # "uninstall" => Replaced(t)
      BY <2>1, <3>1 DEF RollbackInv
    <3>4. pc' = "erase" => RollbackInv(t)'
      BY <3>1, <3>2, <3>3 DEF RollbackInv
    <3>5. pc' = "write" => RollbackInv(t)'
      BY DEF RollbackInv
    <3>6. pc' = "giveUp" /\ Op = "uninstall" => RollbackInv(t)'
      BY <3>1 DEF RollbackInv, Saved
    <3> QED BY <1>4, <3>4, <3>5, <3>6
  <2>4. RemovalInv(t)'
    <3>1. i' = 1 /\ ~(Rank(t) < i') /\ remaining' = {}
      BY <1>1, <1>6, <1>7, RankFacts
    <3>2. pc' \in {"erase", "write", "giveUp"} /\ (pc' = "write" => Op = "install") /\ Op' = Op
      BY <1>4, <1>6
    <3> QED BY <3>1, <3>2 DEF RemovalInv
  <2> QED BY <2>2, <2>3, <2>4
<1> QED BY <1>6, <1>8, <1>9, <1>10, <1>11

(* ReaddPlugin: Codex reads the old manifest again.                         *)
LEMMA ReaddPluginKeeps == ASSUME BridgeInv, ReaddPlugin PROVE BridgeInv'
<1> USE DEF BridgeInv, ControlInv
<1>1. /\ Calls /\ codex' \in Registrations /\ pc = "readd" /\ Op = "update" /\ failed \in BOOLEAN
      /\ codex' = codex \/ codex' = Effect("add plugin")
      /\ Succeeds("add plugin") => codex' = Effect("add plugin") /\ Manifest # {}
      /\ Fails("add plugin") => faults' = faults + 1 \/ Manifest = {}
      /\ UNCHANGED <<tree, record, i>> /\ Continue /\ Same
  BY CodexCallFacts DEF ReaddPlugin, PlaceInv, TypeOK
<1>2. backward = TRUE /\ remaining = {} /\ read \in Records
  BY <1>1 DEF DirectionInv, TypeOK, PlaceInv
<1>3. \/ pc' = "rolledBack" /\ failed = FALSE /\ codex' = Effect("add plugin") /\ Manifest # {}
      \/ pc' = "giveUp" /\ (failed = TRUE \/ faults' = faults + 1 \/ Manifest = {})
  BY <1>1 DEF ReaddPlugin, Go
<1>4. GoesOn
  BY <1>1, <1>3 DEF GoesOn, PCs, tree, Same
<1>5. /\ TypeOK' /\ PlaceInv' /\ LookInv' /\ RecordsInv' /\ RecordInv' /\ StagingInv' /\ ReportInv' /\ IndexInv'
      /\ UNCHANGED <<before, touched, request>> /\ Op' = Op
  BY <1>1, <1>3, <1>4, CodexStepKeeps DEF TypeOK, tree, Same
<1>6. DirectionInv'
  BY <1>1, <1>2, <1>3, <1>5 DEF DirectionInv, Same
<1>7. Untouched("marketplace") =>
         IF "marketplace" \in read.files THEN Manifest = {read.version} /\ AddedVersion = read.version ELSE Manifest = {}
  <2> HAVE Untouched("marketplace")
  <2>1. disk["live"]["marketplace"] = Dir(IF "marketplace" \in read.files THEN {read.version} ELSE {})
    BY <1>1 DEF PayloadInv, PublicationInv, RollbackInv, Original, Tops
  <2>2. read.version \in Versions
    BY <1>2, ContentFacts
  <2>3. Manifest = IF "marketplace" \in read.files THEN {read.version} ELSE {}
    BY <2>1, <2>2 DEF Manifest, Dir, OwnPath
  <2> QED BY <2>2, <2>3, AddedVersionFacts
<1>8. CodexInv'
  <2>1. codex \in Registrations
    BY DEF TypeOK, Registrations
  <2>2. codex' = codex \/ codex' = [codex EXCEPT !.plugin = AddedVersion]
    BY <1>1, EffectFacts
  <2>3. codex'.marketplace = codex.marketplace
    BY <2>1, <2>2 DEF Registrations
  <2>4. Untouched("codex") => before.codex = Exactly(read.version) /\ codex.marketplace = "ours"
    BY <1>1 DEF CodexInv
  <2>5. Untouched("codex") /\ Untouched("marketplace") /\ pc' = "rolledBack" => codex' = before.codex
    <3> HAVE Untouched("codex") /\ Untouched("marketplace") /\ pc' = "rolledBack"
    <3>1. codex' = [codex EXCEPT !.plugin = AddedVersion] /\ AddedVersion = read.version
      BY <1>3, <1>7, EffectFacts
    <3> QED BY <2>1, <2>4, <3>1 DEF Registrations, Exactly
  <2> QED BY <1>1, <1>3, <1>5, <2>3, <2>4, <2>5 DEF CodexInv, Untouched, Same, Exactly
<1>9. FaultInv'
  <2>1. Faulted(1) /\ (failed = TRUE => Faulted(2))
    BY <1>1, <1>2 DEF FaultInv
  <2>2. touched = {} /\ Manifest = {} => ~Whole
    <3> HAVE touched = {} /\ Manifest = {}
    <3>1. "marketplace" \notin read.files /\ read.files # {} /\ before.record = read
      BY <1>1, <1>2, <1>7, ContentFacts DEF RecordsInv, RecordInv, Untouched
    <3> QED BY <1>1, <3>1 DEF Whole, Tops
  <2>3. Faulted(1)' /\ (pc' = "giveUp" /\ Whole => Faulted(2)') /\ (failed = TRUE => Faulted(2)')
    BY <1>3, <1>4, <1>5, <2>1, <2>2, OneMoreFault, FaultedKept DEF Faulted
  <2> QED BY <1>1, <1>2, <1>3, <1>5, <2>3 DEF FaultInv, Whole, Same
<1>10. PayloadInv'
  BY <1>1, <1>3, <1>5 DEF PayloadInv, PublicationInv, RollbackInv, RemovalInv, Original, Saved, Live, Untouched, tree, Same
<1> QED BY <1>5, <1>6, <1>8, <1>9, <1>10

-----------------------------------------------------------------------------
(* Removal of owned files                                                   *)
LEMMA ErasingKeepsRest ==
    ASSUME BridgeInv, GoesOn, UNCHANGED <<record, codex, read, undo, failed, backward>>,
           disk' \in [Places -> [Tops -> Dirs]], i' \in 0..4, remaining' \subseteq Tops,
           seen' \in [file : SUBSET OwnPath, record : Records \union {NoRecord}],
           pc \in Erasing \union {"restore", "unrestore"}, pc' \notin Publishing \union Registering \union Unregistering \union Committing,
           pc' \in Restoring => Op = "update", pc' = "rolledBack" => Op = "install", pc' \in Forgetting => Op = "uninstall",
           pc' \notin Early
    PROVE  /\ TypeOK' /\ PlaceInv' /\ RecordsInv' /\ RecordInv' /\ CodexInv' /\ ReportInv'
           /\ UNCHANGED <<before, touched, request>> /\ Op' = Op
<1> USE DEF BridgeInv, ControlInv
<1>1. UNCHANGED <<before, touched, request>> /\ Op' = Op
  BY DEF GoesOn, Continue, history, Op
<1>2. TypeOK'
  BY GoingOnKeepsTypes DEF TypeOK, GoesOn, Registrations
<1>3. PlaceInv' /\ RecordsInv' /\ RecordInv' /\ ReportInv'
  BY <1>1, GoingOnKeepsPlace, GoingOnKeepsRecords, GoingOnReports
<1>4. CodexInv'
  <2>1. pc' \in Recording => Op = "uninstall" \/ backward = TRUE
    BY DEF DirectionInv, TypeOK
  <2>2. backward \in BOOLEAN /\ (Op = "install" => backward = TRUE) /\ (pc \in {"restore", "unrestore"} => Op = "update")
    BY DEF DirectionInv, TypeOK, PlaceInv
  <2> QED BY <1>1, <2>1, <2>2 DEF CodexInv, Untouched, Exactly
<1> QED BY <1>1, <1>2, <1>3, <1>4

(* How one goes on to the next directory                                    *)
LEMMA OnwardFacts ==
    ASSUME Onward, i \in 1..2
    PROVE  \/ i = 1 /\ pc' = "erase" /\ i' = 2
           \/ i = 2 /\ pc' = "sweep" /\ i' = 1
  BY OrderFacts DEF Onward, Go

(* LookAtFile: only what has the recorded digest is removed.                *)
LEMMA LookAtFileKeeps == ASSUME BridgeInv, LookAtFile PROVE BridgeInv'
<1> USE DEF BridgeInv, ControlInv
<1> DEFINE own == Live(T) \intersect OwnPath
<1>1. /\ Calls /\ pc = "erase" /\ i \in 1..2 /\ Op \in {"install", "update", "uninstall"} /\ T \in Tops /\ Rank(T) = i
      /\ UNCHANGED <<tree, record, codex, request, read, undo, failed, backward>> /\ Continue
  <2>1. Works \/ \E b \in BOOLEAN : CallFails(b)
    BY DEF LookAtFile
  <2> QED BY <2>1, CallFacts, OpFacts, OrderFacts DEF LookAtFile, IndexInv, T
<1>2. \/ (T \notin Owned.files \/ own = {}) /\ Onward /\ UNCHANGED <<remaining, seen>>
      \/ T \in Owned.files /\ own = {Owned.version} /\ pc' = "remove" /\ seen' = [Nothing EXCEPT !.file = own] /\ UNCHANGED <<i, remaining>>
      \/ /\ T \in Owned.files /\ own # {} /\ (own # {Owned.version} \/ faults' = faults + 1)
         /\ Onward /\ remaining' = remaining \union {T} /\ UNCHANGED seen
  BY DEF LookAtFile, Live, Go, CallFails, Kept
<1>3. /\ own \subseteq OwnPath /\ Nothing \in [file : SUBSET OwnPath, record : Records \union {NoRecord}]
      /\ \A t \in Tops : Rank(t) \in 1..2 /\ (Rank(t) = i => t = T)
  BY <1>1, RankFacts DEF Nothing
<1> HIDE DEF own
<1>4. /\ pc' \in {"erase", "sweep", "remove"} /\ i' \in 0..4 /\ remaining' \subseteq Tops
      /\ seen' \in [file : SUBSET OwnPath, record : Records \union {NoRecord}]
      /\ disk' \in [Places -> [Tops -> Dirs]] /\ disk' = disk /\ remaining \subseteq remaining'
      /\ \A t \in Tops \ {T} : t \in remaining' <=> t \in remaining
  BY <1>1, <1>2, <1>3, OnwardFacts DEF TypeOK, tree
<1>5. GoesOn
  BY <1>1, <1>4 DEF GoesOn, PCs, tree
<1>6. /\ TypeOK' /\ PlaceInv' /\ RecordsInv' /\ RecordInv' /\ CodexInv' /\ ReportInv'
      /\ UNCHANGED <<before, touched, request>> /\ Op' = Op
  BY <1>1, <1>4, <1>5, ErasingKeepsRest
<1>7. IndexInv' /\ StagingInv'
  BY <1>1, <1>2, <1>4, OnwardFacts DEF IndexInv, StagingInv, Settled
<1>8. DirectionInv'
  BY <1>1, <1>4, <1>6 DEF DirectionInv, TypeOK
<1>9. LookInv'
  <2>1. pc' = "remove" => T' = T /\ Owned' = Owned /\ seen'.file = {Owned.version} /\ T \in Owned.files
    BY <1>1, <1>2, <1>6, OnwardFacts DEF T, Owned, Nothing
  <2> QED BY <1>4, <2>1 DEF LookInv
<1>10. Op # "uninstall" =>
          /\ T \in Owned.files /\ Owned.version = request.version
          /\ Untouched(T) => own = {request.version}
  <2> HAVE Op # "uninstall"
  <2>1. request.version \in Versions /\ Owned.files = Tops /\ Owned.version = request.version
    BY OpFacts DEF Owned, Full
  <2>2. Untouched(T) => Live(T) = {request.version}
    BY <1>1 DEF PayloadInv, RollbackInv, Replaced, Staged, Dir, Live
  <2> QED BY <1>1, <2>1, <2>2 DEF own, OwnPath
<1>11. FaultInv'
  <2> SUFFICES ASSUME Op # "uninstall" PROVE FaultInv'
    BY <1>6 DEF FaultInv
  <2>1. Faulted(1) /\ (failed = TRUE \/ remaining # {} => Faulted(2)) /\ backward = TRUE
    BY <1>1, <1>6 DEF FaultInv, DirectionInv
  <2>2. remaining' # remaining => touched # {} \/ faults' = faults + 1
    BY <1>1, <1>2, <1>6, <1>10 DEF Untouched
  <2>3. Faulted(1)' /\ (failed = TRUE \/ remaining' # {} => Faulted(2)')
    BY <1>5, <1>6, <2>1, <2>2, OneMoreFault, FaultedKept DEF Faulted
  <2> QED BY <1>1, <1>4, <2>3 DEF FaultInv
<1>12. PayloadInv'
  <2> SUFFICES ASSUME NEW t \in Tops, Untouched(t) PROVE (PublicationInv(t) /\ RollbackInv(t) /\ RemovalInv(t))'
    BY <1>6 DEF PayloadInv, Untouched
  <2>1. PublicationInv(t) /\ RollbackInv(t) /\ RemovalInv(t) /\ Rank(t) \in 1..2 /\ (Rank(t) = i => t = T)
    BY <1>3 DEF PayloadInv
  <2>2. /\ Replaced(t)' <=> Replaced(t)
        /\ Erased(t) => Erased(t)'
        /\ t # T => (Left(t)' <=> Left(t))
        /\ t = T => (Left(t)' <=> (own # {} <=> T \in remaining'))
        /\ Live(t)' = Live(t) /\ T' = Order[i']
    BY <1>1, <1>4, <1>6 DEF Replaced, Erased, Aside, Left, Live, Staged, own, T
  <2>3. PublicationInv(t)'
    BY <1>1, <1>4, <1>6, <2>1 DEF PublicationInv
  <2>4. RollbackInv(t)'
    <3>1. CASE Op = "uninstall"
      BY <1>1, <1>4, <1>6, <3>1 DEF RollbackInv
    <3>2. CASE Op # "uninstall" /\ pc' = "remove"
      BY <1>1, <1>2, <1>6, <2>1, <2>2, <3>2, OnwardFacts DEF RollbackInv
    <3>3. CASE Op # "uninstall" /\ pc' # "remove"
      <4>1. t = T => Erased(t)'
        BY <1>1, <1>2, <1>6, <1>10, <2>1, <2>2, <3>3 DEF RollbackInv, Replaced, Erased, Aside
      <4>2. t # T /\ Rank(t) < i => Erased(t)'
        BY <1>1, <2>1, <2>2, <3>3 DEF RollbackInv
      <4> QED BY <1>1, <1>2, <1>4, <1>6, <2>1, <2>2, <3>3, <4>1, <4>2, OnwardFacts DEF RollbackInv
    <3> QED BY <3>1, <3>2, <3>3
  <2>5. RemovalInv(t)'
    <3> SUFFICES ASSUME Op = "uninstall", t \in read.files
                 PROVE  /\ pc' \in {"erase", "remove"} => IF Rank(t) < i' THEN Left(t)' ELSE t \notin remaining'
                        /\ pc' = "remove" /\ T' = t => Live(t)' \intersect OwnPath # {}
                        /\ pc' = "sweep" => Left(t)'
      BY <1>1, <1>4, <1>6 DEF RemovalInv
    <3>1. t = T => t \notin remaining /\ T \in Owned.files
      BY <1>1, <2>1 DEF RemovalInv, Owned
    <3>2. CASE pc' = "remove"
      BY <1>1, <1>2, <2>1, <2>2, <3>1, <3>2, OnwardFacts DEF RemovalInv, own, T
    <3>3. CASE pc' # "remove"
      <4>1. t = T => Left(t)'
        BY <1>2, <2>2, <3>1, <3>3
      <4> QED BY <1>1, <1>2, <1>4, <2>1, <2>2, <3>3, <4>1, OnwardFacts DEF RemovalInv
    <3> QED BY <3>2, <3>3
  <2> QED BY <2>3, <2>4, <2>5
<1> QED BY <1>6, <1>7, <1>8, <1>9, <1>11, <1>12

(* RemoveFile: the file goes, or is counted as remaining.                   *)
LEMMA RemoveFileKeeps == ASSUME BridgeInv, RemoveFile PROVE BridgeInv'
<1> USE DEF BridgeInv, ControlInv
<1>0. PICK top \in Tops : top = T /\ Rank(top) = i /\ i \in 1..2
  BY OrderFacts DEF RemoveFile, IndexInv, T
<1>1. /\ Calls /\ pc = "remove" /\ Op \in {"install", "update", "uninstall"}
      /\ UNCHANGED <<litter, record, codex, request, read, undo, failed, backward>> /\ Continue /\ Onward /\ seen' = Nothing
  <2>1. Works \/ \E b \in BOOLEAN : CallFails(b)
    BY DEF RemoveFile
  <2> QED BY <2>1, CallFacts, OpFacts DEF RemoveFile
<1>2. \/ disk' = [disk EXCEPT !["live"][top].items = @ \ OwnPath] /\ UNCHANGED remaining
      \/ faults' = faults + 1 /\ disk' = disk /\ remaining' = remaining \union {top}
  BY <1>0 DEF RemoveFile, CallFails, Kept
<1>3. \A t \in Tops : Rank(t) \in 1..2 /\ (Rank(t) = i => t = top)
  BY <1>0, RankFacts
<1>4. /\ disk' \in [Places -> [Tops -> Dirs]]
      /\ disk'["stage"] = disk["stage"] /\ disk'["backup"] = disk["backup"]
      /\ \A t \in Tops : t # top => disk'["live"][t] = disk["live"][t]
      /\ Settled'
      /\ \/ disk' = disk /\ remaining' = remaining \union {top}
         \/ Live(top)' = Live(top) \ OwnPath /\ remaining' = remaining
  <2>1. CASE disk' = disk /\ remaining' = remaining \union {top}
    BY <2>1 DEF TypeOK, StagingInv, Settled
  <2>2. CASE disk' = [disk EXCEPT !["live"][top].items = @ \ OwnPath] /\ UNCHANGED remaining
    <3> DEFINE d == [disk["live"][top] EXCEPT !.items = @ \ OwnPath]
    <3>1. d \in Dirs /\ d.items = Live(top) \ OwnPath /\ (d.there \/ d = NoDir)
      <4>1. disk["live"][top] \in Dirs /\ (disk["live"][top].there \/ disk["live"][top] = NoDir)
        BY DEF TypeOK, Places, StagingInv, Settled
      <4> QED BY <4>1 DEF Dirs, NoDir, Live
    <3>2. disk' = [disk EXCEPT !["live"][top] = d]
      BY <2>2
    <3> HIDE DEF d
    <3>3. /\ disk' \in [Places -> [Tops -> Dirs]]
          /\ disk'["stage"] = disk["stage"] /\ disk'["backup"] = disk["backup"]
          /\ disk'["live"] = [disk["live"] EXCEPT ![top] = d]
      BY <3>1, <3>2 DEF TypeOK, Places
    <3>4. disk["live"] \in [Tops -> Dirs]
      BY DEF TypeOK, Places
    <3>5. \A t \in Tops : disk'["live"][t] = IF t = top THEN d ELSE disk["live"][t]
      BY <3>3, <3>4
    <3>6. Live(top)' = Live(top) \ OwnPath
      BY <3>1, <3>5 DEF Live
    <3>7. Settled'
      BY <3>1, <3>3, <3>5 DEF StagingInv, Settled, Places
    <3>8. \A t \in Tops : t # top => disk'["live"][t] = disk["live"][t]
      BY <3>5
    <3> QED BY <2>2, <3>3, <3>6, <3>7, <3>8, Zenon
  <2> QED BY <1>2, <2>1, <2>2
<1>5. /\ pc' \in {"erase", "sweep"} /\ i' \in 0..4 /\ remaining' \subseteq Tops
      /\ seen' \in [file : SUBSET OwnPath, record : Records \union {NoRecord}]
      /\ \A t \in Tops \ {top} : t \in remaining' <=> t \in remaining
  BY <1>0, <1>1, <1>2, OnwardFacts DEF TypeOK, Nothing
<1>6. GoesOn
  BY <1>1, <1>5 DEF GoesOn, PCs
<1>7. /\ TypeOK' /\ PlaceInv' /\ RecordsInv' /\ RecordInv' /\ CodexInv' /\ ReportInv'
      /\ UNCHANGED <<before, touched, request>> /\ Op' = Op
  BY <1>1, <1>4, <1>5, <1>6, ErasingKeepsRest
<1>8. IndexInv' /\ StagingInv' /\ LookInv'
  BY <1>0, <1>1, <1>4, <1>5, OnwardFacts DEF IndexInv, StagingInv, LookInv
<1>9. DirectionInv'
  BY <1>1, <1>5, <1>7 DEF DirectionInv, TypeOK
<1>10. FaultInv'
  <2> SUFFICES ASSUME Op # "uninstall" PROVE FaultInv'
    BY <1>7 DEF FaultInv
  <2>1. Faulted(1) /\ (failed = TRUE \/ remaining # {} => Faulted(2)) /\ backward = TRUE
    BY <1>1, <1>7 DEF FaultInv, DirectionInv
  <2>2. Faulted(1)' /\ (failed = TRUE \/ remaining' # {} => Faulted(2)')
    BY <1>2, <1>6, <1>7, <2>1, OneMoreFault, FaultedKept
  <2> QED BY <1>1, <1>5, <2>2 DEF FaultInv
<1>11. PayloadInv'
  <2> SUFFICES ASSUME NEW t \in Tops, Untouched(t) PROVE (PublicationInv(t) /\ RollbackInv(t) /\ RemovalInv(t))'
    BY <1>7 DEF PayloadInv, Untouched
  <2>1. PublicationInv(t) /\ RollbackInv(t) /\ RemovalInv(t) /\ Rank(t) \in 1..2 /\ (Rank(t) = i => t = top)
    BY <1>3 DEF PayloadInv
  <2>2. /\ t # top => /\ Replaced(t)' <=> Replaced(t)
                      /\ Erased(t)' <=> Erased(t)
                      /\ Left(t)' <=> Left(t)
        /\ Aside(t)' <=> Aside(t)
    BY <1>1, <1>4, <1>5, <1>7 DEF Replaced, Erased, Aside, Left, Live, Staged
  <2>3. PublicationInv(t)'
    BY <1>1, <1>5, <1>7, <2>1 DEF PublicationInv
  <2>4. RollbackInv(t)'
    <3>1. CASE Op = "uninstall"
      BY <1>1, <1>5, <1>7, <3>1 DEF RollbackInv
    <3>2. CASE Op # "uninstall"
      <4>1. t = top => Erased(t)'
        <5> HAVE t = top
        <5>1. Replaced(t)
          BY <1>0, <1>1, <2>1, <3>2 DEF RollbackInv
        <5>2. Live(t) \subseteq OwnPath
          BY <3>2, <5>1, OpFacts DEF Replaced, Staged, Live, Dir, OwnPath
        <5>3. Live(t)' = {} \/ t \in remaining'
          BY <1>4, <5>2
        <5> QED BY <2>2, <5>1, <5>3 DEF Erased, Replaced
      <4>2. t # top /\ Rank(t) < i => Erased(t)'
        BY <1>1, <2>1, <2>2, <3>2 DEF RollbackInv
      <4> QED BY <1>0, <1>1, <1>5, <1>7, <2>1, <2>2, <3>2, <4>1, <4>2, OnwardFacts DEF RollbackInv
    <3> QED BY <3>1, <3>2
  <2>5. RemovalInv(t)'
    <3> SUFFICES ASSUME Op = "uninstall", t \in read.files
                 PROVE  /\ pc' = "erase" => IF Rank(t) < i' THEN Left(t)' ELSE t \notin remaining'
                        /\ pc' = "sweep" => Left(t)'
      BY <1>1, <1>5, <1>7 DEF RemovalInv
    <3>1. t = top => Left(t)'
      <4> HAVE t = top
      <4>1. t \notin remaining /\ Live(t) \intersect OwnPath # {}
        BY <1>0, <1>1, <2>1 DEF RemovalInv
      <4>2. CASE disk' = disk /\ remaining' = remaining \union {top}
        BY <4>1, <4>2 DEF Left, Live
      <4>3. CASE Live(top)' = Live(top) \ OwnPath /\ remaining' = remaining
        BY <4>1, <4>3 DEF Left
      <4> QED BY <1>4, <4>2, <4>3
    <3> QED BY <1>0, <1>1, <1>5, <2>1, <2>2, <3>1, OnwardFacts DEF RemovalInv
  <2> QED BY <2>3, <2>4, <2>5
<1> QED BY <1>7, <1>8, <1>9, <1>10, <1>11

(* SweepDirectories: empty directories may go.                              *)
LEMMA SweepDirectoriesKeeps == ASSUME BridgeInv, SweepDirectories PROVE BridgeInv'
<1> USE DEF BridgeInv, ControlInv
<1>1. /\ Calls /\ pc = "sweep" /\ i = 1 /\ Op \in {"install", "update", "uninstall"}
      /\ UNCHANGED <<litter, record, codex, i>> /\ Continue /\ Same
  BY CallFacts, OpFacts DEF SweepDirectories, IndexInv
<1>2. /\ disk' \in [Places -> [Tops -> Dirs]] /\ disk'["stage"] = disk["stage"] /\ disk'["backup"] = disk["backup"]
      /\ \A t \in Tops : Live(t)' = Live(t)
      /\ Settled'
  <2>1. PICK gone \in SUBSET {t \in Owned.files : disk["live"][t].items = {}} :
           disk' = [disk EXCEPT !["live"] = [t \in Tops |-> IF t \in gone THEN NoDir ELSE @[t]]]
    BY DEF SweepDirectories
  <2> DEFINE live == [t \in Tops |-> IF t \in gone THEN NoDir ELSE disk["live"][t]]
  <2>2. /\ live \in [Tops -> Dirs]
        /\ \A t \in Tops : /\ live[t].there \/ live[t] = NoDir
                           /\ live[t].items = Live(t)
    <3>1. disk["live"] \in [Tops -> Dirs] /\ \A t \in Tops : disk["live"][t].there \/ disk["live"][t] = NoDir
      BY DEF TypeOK, Places, StagingInv, Settled
    <3>2. NoDir \in Dirs /\ NoDir.items = {}
      BY ContentFacts DEF NoDir
    <3>3. \A t \in gone : disk["live"][t].items = {}
      BY <2>1
    <3> QED BY <3>1, <3>2, <3>3 DEF Live
  <2>3. disk' = [disk EXCEPT !["live"] = live]
    BY <2>1
  <2> HIDE DEF live
  <2>4. /\ disk' \in [Places -> [Tops -> Dirs]] /\ disk'["stage"] = disk["stage"] /\ disk'["backup"] = disk["backup"]
        /\ disk'["live"] = live
    BY <2>2, <2>3 DEF TypeOK, Places
  <2>5. Settled'
    BY <2>2, <2>4 DEF StagingInv, Settled, Places
  <2> QED BY <2>2, <2>4, <2>5 DEF Live
<1>3. \/ Op = "update" /\ remaining = {} /\ pc' = "restore"
      \/ Op = "update" /\ remaining # {} /\ pc' = "giveUp"
      \/ Op = "install" /\ remaining = {} /\ pc' = "rolledBack"
      \/ Op = "uninstall" /\ remaining = {} /\ pc' = "forget"
      \/ Op # "update" /\ remaining # {} /\ pc' = "write"
  <2>1. pc' = CASE Op = "update" /\ remaining = {} -> "restore"
                [] Op = "update" /\ remaining # {} -> "giveUp"
                [] Op = "install" /\ remaining = {} -> "rolledBack"
                [] Op = "uninstall" /\ remaining = {} -> "forget"
                [] OTHER -> "write"
    BY Zenon DEF SweepDirectories, Go
  <2> QED BY <1>1, <2>1
<1>4. GoesOn
  BY <1>1, <1>3 DEF GoesOn, PCs, Same
<1>5. /\ TypeOK' /\ PlaceInv' /\ RecordsInv' /\ RecordInv' /\ CodexInv' /\ ReportInv'
      /\ UNCHANGED <<before, touched, request, read, failed, backward, remaining>> /\ Op' = Op
  BY <1>1, <1>2, <1>3, <1>4, ErasingKeepsRest DEF Same, TypeOK
<1>6. IndexInv' /\ StagingInv' /\ LookInv'
  BY <1>1, <1>2, <1>3 DEF IndexInv, StagingInv, LookInv
<1>7. DirectionInv'
  BY <1>1, <1>3, <1>5 DEF DirectionInv, TypeOK
<1>8. FaultInv'
  <2> SUFFICES ASSUME Op # "uninstall" PROVE FaultInv'
    BY <1>5 DEF FaultInv
  <2>1. Faulted(1) /\ (failed = TRUE \/ remaining # {} => Faulted(2)) /\ backward = TRUE
    BY <1>1, <1>5 DEF FaultInv, DirectionInv
  <2>2. Faulted(1)' /\ (failed = TRUE \/ remaining # {} => Faulted(2)')
    BY <1>4, <2>1, FaultedKept
  <2> QED BY <1>3, <1>5, <2>2 DEF FaultInv
<1>9. PayloadInv'
  <2> SUFFICES ASSUME NEW t \in Tops, Untouched(t) PROVE (PublicationInv(t) /\ RollbackInv(t) /\ RemovalInv(t))'
    BY <1>5 DEF PayloadInv, Untouched
  <2>1. PublicationInv(t) /\ RollbackInv(t) /\ RemovalInv(t) /\ Rank(t) \in 1..2
    BY RankFacts DEF PayloadInv
  <2>2. /\ Erased(t)' <=> Erased(t)
        /\ Aside(t)' <=> Aside(t)
        /\ Saved(t)' <=> Saved(t)
        /\ Left(t)' <=> Left(t)
    BY <1>2, <1>5 DEF Erased, Aside, Saved, Left
  <2>3. PublicationInv(t)'
    BY <1>1, <1>3, <1>5, <2>1 DEF PublicationInv, DirectionInv, TypeOK
  <2>4. RollbackInv(t)'
    <3>1. Op # "uninstall" => Erased(t)
      BY <1>1, <2>1 DEF RollbackInv
    <3>2. Aside(t) => Saved(t)
      BY DEF Aside, Saved
    <3>3. Op = "install" => before.live[t].items = {} /\ Saved(t)
      BY <1>1, <2>1 DEF PublicationInv, Saved, NoDir
    <3>4. Op = "uninstall" => RollbackInv(t)'
      BY <1>3, <1>5 DEF RollbackInv
    <3>5. Op = "install" => RollbackInv(t)'
      BY <1>2, <1>3, <1>5, <2>2, <3>1, <3>3 DEF RollbackInv, Erased
    <3>6. Op = "update" => RollbackInv(t)'
      BY <1>1, <1>2, <1>3, <1>5, <2>1, <2>2, <3>1, <3>2 DEF RollbackInv, Erased
    <3> QED BY <1>1, <3>4, <3>5, <3>6
  <2>5. RemovalInv(t)'
    BY <1>1, <1>3, <1>5, <2>1, <2>2 DEF RemovalInv
  <2> QED BY <2>3, <2>4, <2>5
<1> QED BY <1>5, <1>6, <1>7, <1>8, <1>9

-----------------------------------------------------------------------------
(* The backup of an update comes back.                                      *)
LEMMA RestorePayloadKeeps == ASSUME BridgeInv, RestorePayload PROVE BridgeInv'
<1> USE DEF BridgeInv, ControlInv
<1>0. PICK top \in Tops : top = T /\ Rank(top) = i /\ i \in 1..2
  BY OrderFacts DEF RestorePayload, IndexInv, T
<1> DEFINE m == Move("backup", "live", top)
<1>1. /\ Calls /\ pc = "restore" /\ Op = "update"
      /\ UNCHANGED <<litter, record, codex>> /\ Continue /\ Same
  <2>1. Works \/ \E b \in BOOLEAN : CallFails(b)
    BY DEF RestorePayload
  <2> QED BY <2>1, CallFacts DEF RestorePayload, PlaceInv
<1>2. \A t \in Tops : Rank(t) \in 1..2 /\ (Rank(t) = i => t = top)
  BY <1>0, RankFacts
<1>3. UNCHANGED <<before, touched, request, read, failed, backward, remaining>> /\ Op' = Op
  BY <1>1 DEF Continue, history, Op, Same
<1>4. remaining = {} /\ backward = TRUE
  BY <1>1 DEF DirectionInv, TypeOK
<1>5. Faulted(1) /\ (failed = TRUE => Faulted(2))
  BY <1>1, <1>4 DEF FaultInv
<1>6. CASE /\ CanMove(m) /\ disk' = Moved(m)
           /\ IF i < Len(Order) THEN Go("restore") /\ i' = i + 1 ELSE Go("readd") /\ i' = 1
  <2>1. \/ i = 1 /\ pc' = "restore" /\ i' = 2
        \/ i = 2 /\ pc' = "readd" /\ i' = 1
    BY <1>0, <1>6, OrderFacts DEF Go
  <2>2. GoesOn
    BY <1>1, <2>1 DEF GoesOn, PCs, Same
  <2>3. /\ disk' \in [Places -> [Tops -> Dirs]]
        /\ \A t \in Tops : t # top => disk'["live"][t] = disk["live"][t] /\ disk'["backup"][t] = disk["backup"][t]
        /\ disk'["live"][top] = disk["backup"][top]
    BY <1>6, MovedFacts DEF Places
  <2>4. /\ TypeOK' /\ PlaceInv' /\ RecordsInv' /\ RecordInv' /\ CodexInv' /\ ReportInv'
    BY <1>1, <2>1, <2>2, <2>3, ErasingKeepsRest DEF Same, TypeOK
  <2>5. IndexInv' /\ StagingInv' /\ LookInv'
    <3>1. Settled'
      BY <1>6, MoveSettles DEF StagingInv, Places
    <3> QED BY <2>1, <3>1 DEF IndexInv, StagingInv, LookInv
  <2>6. DirectionInv'
    BY <1>1, <1>3, <1>4, <2>1 DEF DirectionInv
  <2>7. FaultInv'
    BY <1>1, <1>3, <1>4, <1>5, <2>1, <2>2, FaultedKept DEF FaultInv
  <2>8. PayloadInv'
    <3> SUFFICES ASSUME NEW t \in Tops, Untouched(t) PROVE (PublicationInv(t) /\ RollbackInv(t) /\ RemovalInv(t))'
      BY <1>3 DEF PayloadInv, Untouched
    <3>1. PublicationInv(t) /\ RollbackInv(t) /\ Rank(t) \in 1..2 /\ (Rank(t) = i => t = top)
      BY <1>2 DEF PayloadInv
    <3>2. t # top => /\ Original(t)' <=> Original(t)
                     /\ Aside(t)' <=> Aside(t)
                     /\ Live(t)' = Live(t)
      BY <1>3, <2>3 DEF Original, Aside, Live
    <3>3. t = top => Original(t)'
      BY <1>0, <1>1, <1>3, <2>3, <3>1 DEF RollbackInv, Original, Aside
    <3>4. PublicationInv(t)' /\ RemovalInv(t)'
      BY <1>1, <1>3, <2>1, <3>1 DEF PublicationInv, RemovalInv
    <3>5. RollbackInv(t)'
      BY <1>0, <1>1, <1>3, <2>1, <3>1, <3>2, <3>3 DEF RollbackInv
    <3> QED BY <3>4, <3>5
  <2> QED BY <2>4, <2>5, <2>6, <2>7, <2>8
<1>7. CASE CallFails(~CanMove(m)) /\ disk' = disk /\ i' = 1 /\ Go(IF i = 1 THEN "giveUp" ELSE "unrestore")
  <2>1. \/ i = 1 /\ pc' = "giveUp" /\ i' = 1
        \/ i = 2 /\ pc' = "unrestore" /\ i' = 1
    BY <1>0, <1>7 DEF Go
  <2>2. GoesOn /\ disk' \in [Places -> [Tops -> Dirs]]
    BY <1>1, <1>7, <2>1 DEF GoesOn, PCs, Same, TypeOK
  <2>3. /\ TypeOK' /\ PlaceInv' /\ RecordsInv' /\ RecordInv' /\ CodexInv' /\ ReportInv'
    BY <1>1, <1>7, <2>1, <2>2, ErasingKeepsRest DEF Same, TypeOK
  <2>4. IndexInv' /\ StagingInv' /\ LookInv'
    BY <1>7, <2>1 DEF IndexInv, StagingInv, Settled, LookInv
  <2>5. DirectionInv'
    BY <1>1, <1>3, <1>4, <2>1 DEF DirectionInv
  <2>6. Faulted(2)'
    <3>1. CASE touched # {}
      BY <1>3, <3>1 DEF Faulted
    <3>2. CASE touched = {}
      <4>1. RollbackInv(top) /\ PublicationInv(top)
        BY <3>2 DEF PayloadInv, Untouched
      <4>2. Live(top) = {} /\ disk["backup"][top] = before.live[top] /\ \E S : before.live[top] = Dir(S)
        BY <1>0, <1>1, <4>1 DEF RollbackInv, PublicationInv, Aside
      <4>3. \A S : Dir(S).there = TRUE
        BY DEF Dir
      <4>4. CanMove(m)
        BY <4>2, <4>3 DEF CanMove, Move, Free, Live
      <4> QED BY <1>3, <1>5, <1>7, <4>4, OneMoreFault DEF CallFails
    <3> QED BY <3>1, <3>2
  <2>7. FaultInv'
    BY <1>1, <1>3, <1>4, <1>5, <2>1, <2>2, <2>6, FaultedKept DEF FaultInv
  <2>8. PayloadInv'
    <3> SUFFICES ASSUME NEW t \in Tops, Untouched(t) PROVE (PublicationInv(t) /\ RollbackInv(t) /\ RemovalInv(t))'
      BY <1>3 DEF PayloadInv, Untouched
    <3>1. PublicationInv(t) /\ RollbackInv(t) /\ Rank(t) \in 1..2 /\ (t = "bin" <=> Rank(t) = 1)
      BY <1>2 DEF PayloadInv, Rank
    <3>2. /\ Original(t)' <=> Original(t)
          /\ Saved(t)' <=> Saved(t)
      BY <1>3, <1>7 DEF Original, Saved, Live
    <3>3. Original(t) \/ Aside(t) => Saved(t)
      BY DEF Original, Aside, Saved, Live
    <3>4. PublicationInv(t)' /\ RemovalInv(t)'
      BY <1>1, <1>3, <2>1, <3>1 DEF PublicationInv, RemovalInv
    <3>5. RollbackInv(t)'
      BY <1>0, <1>1, <1>3, <2>1, <3>1, <3>2, <3>3 DEF RollbackInv
    <3> QED BY <3>4, <3>5
  <2> QED BY <2>3, <2>4, <2>5, <2>7, <2>8
<1> QED BY <1>0, <1>6, <1>7 DEF RestorePayload

(* UnrestorePayload: half a restoration is taken back.                      *)
LEMMA UnrestorePayloadKeeps == ASSUME BridgeInv, UnrestorePayload PROVE BridgeInv'
<1> USE DEF BridgeInv, ControlInv
<1> DEFINE m == Move("live", "backup", "bin")
<1>1. /\ Calls /\ pc = "unrestore" /\ Op = "update" /\ i = 1 /\ T = "bin" /\ pc' = "giveUp"
      /\ UNCHANGED <<litter, record, codex, i>> /\ Continue /\ Same
      /\ disk' = disk \/ (CanMove(m) /\ disk' = Moved(m))
  <2>1. pc = "unrestore" /\ i = 1 /\ T = "bin"
    BY OrderFacts DEF UnrestorePayload, IndexInv, T
  <2>2. Works \/ \E b \in BOOLEAN : CallFails(b)
    BY DEF UnrestorePayload
  <2> QED BY <2>1, <2>2, CallFacts DEF UnrestorePayload, PlaceInv, Go
<1>2. /\ UNCHANGED <<before, touched, request, read, failed, backward, remaining>> /\ Op' = Op /\ GoesOn
  BY <1>1 DEF Continue, history, Op, Same, GoesOn, PCs
<1>3. /\ disk' \in [Places -> [Tops -> Dirs]]
      /\ \A t \in Tops : t # "bin" => disk'["live"][t] = disk["live"][t] /\ disk'["backup"][t] = disk["backup"][t]
      /\ Settled'
      /\ disk' = disk \/ disk'["backup"]["bin"] = disk["live"]["bin"]
  <2>1. CASE disk' = disk
    BY <2>1 DEF TypeOK, StagingInv, Settled
  <2>2. CASE CanMove(m) /\ disk' = Moved(m)
    <3>1. /\ disk' \in [Places -> [Tops -> Dirs]]
          /\ \A t \in Tops : t # "bin" => disk'["live"][t] = disk["live"][t] /\ disk'["backup"][t] = disk["backup"][t]
          /\ disk'["live"]["bin"] = NoDir /\ disk'["backup"]["bin"] = disk["live"]["bin"]
      BY <2>2, MovedFacts DEF Places, Tops
    <3>2. CanMove(m) => Settled'
      BY <2>2, MoveSettles DEF StagingInv, Places, Tops
    <3> QED BY <1>1, <2>2, <3>1, <3>2
  <2> QED BY <1>1, <2>1, <2>2
<1>4. /\ TypeOK' /\ PlaceInv' /\ RecordsInv' /\ RecordInv' /\ CodexInv' /\ ReportInv'
  BY <1>1, <1>2, <1>3, ErasingKeepsRest DEF Same, TypeOK
<1>5. IndexInv' /\ StagingInv' /\ LookInv'
  BY <1>1, <1>3 DEF IndexInv, StagingInv, LookInv
<1>6. DirectionInv' /\ FaultInv'
  <2>1. remaining = {} /\ backward = TRUE
    BY <1>1 DEF DirectionInv, TypeOK
  <2>2. Faulted(1) /\ (Whole => Faulted(2)) /\ (failed = TRUE => Faulted(2)) /\ (Whole' <=> Whole)
    BY <1>1, <1>2, <2>1 DEF FaultInv, Whole
  <2>3. DirectionInv'
    BY <1>1, <1>2, <2>1 DEF DirectionInv
  <2> QED BY <1>1, <1>2, <2>1, <2>2, <2>3, FaultedKept DEF FaultInv
<1>7. PayloadInv'
  <2> SUFFICES ASSUME NEW t \in Tops, Untouched(t) PROVE (PublicationInv(t) /\ RollbackInv(t) /\ RemovalInv(t))'
    BY <1>2 DEF PayloadInv, Untouched
  <2>1. PublicationInv(t) /\ Saved(t) /\ (t = "bin" => Original(t))
    BY <1>1 DEF PayloadInv, RollbackInv
  <2>2. Saved(t)'
    BY <1>2, <1>3, <2>1 DEF Saved, Original, Live
  <2> QED BY <1>1, <1>2, <2>1, <2>2 DEF PublicationInv, RollbackInv, RemovalInv
<1> QED BY <1>2, <1>4, <1>5, <1>6, <1>7

-----------------------------------------------------------------------------
(* The record                                                               *)
LEMMA WriteFailsKeeps ==
    ASSUME BridgeInv, pc \in Recording, NEW because \in BOOLEAN, CallFails(because), because => record # read, WriteFails
    PROVE  BridgeInv'
<1> USE DEF BridgeInv, ControlInv
<1>1. Calls /\ backward \in BOOLEAN /\ Op \in {"install", "update", "uninstall"}
  BY CallFacts, OpFacts DEF TypeOK
<1>2. CASE backward = TRUE
  BY <1>1, <1>2, IncompleteEndKeeps DEF WriteFails, FaultInv
<1>3. CASE backward = FALSE /\ Op = "uninstall"
  BY <1>1, <1>3, IncompleteEndKeeps DEF WriteFails
<1>4. CASE backward = FALSE /\ Op # "uninstall"
  <2>1. /\ pc' = "undoPlugin" /\ backward' = TRUE
        /\ undo' = (IF Op = "install" THEN {"plugin", "marketplace"} ELSE {"plugin"})
        /\ UNCHANGED <<disk, litter, record, codex, i, request, read, failed, remaining, seen, before, touched>> /\ Continue
        /\ Op' = Op
    BY <1>4 DEF WriteFails, RollBack, Go, tree, Continue, history, Op
  <2>2. GoesOn /\ failed = FALSE /\ remaining = {} /\ i = 1
    BY <1>1, <1>4, <2>1 DEF GoesOn, PCs, DirectionInv, IndexInv
  <2>3. TypeOK'
    BY <2>1, <2>2, GoingOnKeepsTypes DEF TypeOK, GoesOn, Registrations
  <2>4. PlaceInv' /\ RecordsInv' /\ RecordInv' /\ ReportInv'
    BY <2>1, <2>2, GoingOnKeepsPlace, GoingOnKeepsRecords, GoingOnReports
  <2>5. IndexInv' /\ StagingInv' /\ LookInv'
    BY <2>1, <2>2 DEF IndexInv, StagingInv, Settled, LookInv
  <2>6. DirectionInv'
    BY <1>1, <1>4, <2>1, <2>2 DEF DirectionInv
  <2>7. CodexInv'
    BY <1>1, <1>4, <2>1, <2>2 DEF CodexInv, Untouched, Exactly
  <2>8. Faulted(1)'
    <3>1. touched # {} \/ faults' = faults + 1
      BY DEF CallFails, RecordInv, Untouched
    <3> QED BY <2>1, <3>1, OneMoreFault DEF Faulted
  <2>9. FaultInv'
    BY <2>1, <2>2, <2>8 DEF FaultInv
  <2>10. PayloadInv'
    <3> SUFFICES ASSUME NEW t \in Tops, Untouched(t) PROVE (PublicationInv(t) /\ RollbackInv(t) /\ RemovalInv(t))'
      BY <2>1 DEF PayloadInv, Untouched
    <3>1. PublicationInv(t) /\ Replaced(t)
      BY <1>4 DEF PayloadInv, PublicationInv
    <3>2. Replaced(t)'
      BY <2>1, <3>1 DEF Replaced, Aside, Staged
    <3> QED BY <1>4, <2>1, <3>1, <3>2 DEF PublicationInv, RollbackInv, RemovalInv
  <2> QED BY <2>3, <2>4, <2>5, <2>6, <2>7, <2>9, <2>10
<1> QED BY <1>1, <1>2, <1>3, <1>4

(* A look at the record changes nothing else.                               *)
LEMMA RecordSeenKeeps ==
    ASSUME BridgeInv, Calls, Continue, record = read,
           \/ pc = "write" /\ pc' = "rename"
           \/ pc = "forget" /\ pc' = "unlink",
           seen' = [Nothing EXCEPT !.record = record],
           UNCHANGED <<tree, record, codex, request, i, read, undo, failed, backward, remaining>>
    PROVE  BridgeInv'
<1> USE DEF BridgeInv, ControlInv
<1>1. GoesOn /\ UNCHANGED <<disk, before, touched>> /\ Op' = Op /\ (pc' = "unlink" => Op = "uninstall")
  BY DEF GoesOn, PCs, tree, Continue, history, Op, PlaceInv
<1>2. TypeOK'
  BY <1>1, GoingOnKeepsTypes DEF TypeOK, GoesOn, Registrations, Nothing, tree
<1>3. PlaceInv' /\ RecordsInv' /\ RecordInv' /\ ReportInv'
  BY <1>1, GoingOnKeepsPlace, GoingOnKeepsRecords, GoingOnReports
<1>4. IndexInv' /\ StagingInv' /\ LookInv'
  BY <1>1 DEF IndexInv, StagingInv, Settled, LookInv, Nothing
<1>5. DirectionInv'
  BY <1>1 DEF DirectionInv
<1>6. CodexInv'
  BY <1>1 DEF CodexInv, Untouched, Exactly
<1>7. FaultInv'
  BY <1>1, FaultedKept DEF FaultInv, Whole
<1>8. PayloadInv'
  <2> SUFFICES ASSUME NEW t \in Tops, Untouched(t) PROVE (PublicationInv(t) /\ RollbackInv(t) /\ RemovalInv(t))'
    BY <1>1 DEF PayloadInv, Untouched
  <2>1. PublicationInv(t) /\ RemovalInv(t)
    BY DEF PayloadInv
  <2>2. /\ Replaced(t)' <=> Replaced(t)
        /\ Left(t)' <=> Left(t)
    BY <1>1 DEF Replaced, Aside, Staged, Left, Live
  <2> QED BY <1>1, <2>1, <2>2 DEF PublicationInv, RollbackInv, RemovalInv
<1> QED BY <1>2, <1>3, <1>4, <1>5, <1>6, <1>7, <1>8

(* LookAtRecord: nobody may have changed the record.                        *)
LEMMA LookAtRecordKeeps == ASSUME BridgeInv, LookAtRecord PROVE BridgeInv'
<1>1. CASE CallFails(record # read) /\ WriteFails
  BY <1>1, WriteFailsKeeps DEF LookAtRecord
<1>2. CASE Works /\ record = read /\ ~(CallFails(record # read) /\ WriteFails)
  <2>1. Calls
    BY <1>2, CallFacts DEF BridgeInv, ControlInv
  <2> QED BY <1>2, <2>1, RecordSeenKeeps DEF LookAtRecord, Go
<1> QED BY <1>1, <1>2 DEF LookAtRecord

(* The record a command writes names a file.                                *)
LEMMA WantedFacts ==
    ASSUME BridgeInv, pc = "rename"
    PROVE  /\ Wanted \in Records /\ Wanted.files # {}
           /\ Op = "uninstall" => Wanted.files = remaining
           /\ Op # "uninstall" /\ backward = FALSE => Wanted = Full(request.version)
<1> USE DEF BridgeInv, ControlInv
<1>1. /\ Op = "uninstall" => Wanted = [read EXCEPT !.files = remaining]
      /\ Op # "uninstall" /\ remaining # {} => Wanted = [Full(request.version) EXCEPT !.files = remaining]
      /\ Op # "uninstall" /\ remaining = {} => Wanted = Full(request.version)
  <2>1. CASE Op = "uninstall"
    <3>1. Wanted = [read EXCEPT !.files = remaining]
      BY <2>1, Zenon DEF Wanted
    <3> QED BY <2>1, <3>1
  <2>2. CASE Op # "uninstall" /\ remaining # {}
    BY <2>2 DEF Wanted
  <2>3. CASE Op # "uninstall" /\ remaining = {}
    BY <2>3 DEF Wanted
  <2> QED BY <2>1, <2>2, <2>3
<1>2. CASE Op = "uninstall"
  <2>1. read \in Records /\ remaining # {} /\ remaining \subseteq Tops
    BY <1>2 DEF TypeOK, PlaceInv, DirectionInv
  <2> QED BY <1>1, <1>2, <2>1 DEF Records
<1>3. CASE Op # "uninstall"
  <2>1. request.version \in Versions /\ remaining \subseteq Tops /\ (backward = FALSE => remaining = {})
    BY <1>3, OpFacts DEF TypeOK, DirectionInv
  <2>2. Full(request.version) \in Records /\ Full(request.version).files = Tops /\ Tops # {}
    BY <2>1, ContentFacts DEF Full, Tops
  <2>3. remaining # {} => LET r == [Full(request.version) EXCEPT !.files = remaining] IN r \in Records /\ r.files # {}
    BY <2>1, <2>2 DEF Records
  <2> QED BY <1>1, <1>3, <2>1, <2>2, <2>3
<1> QED BY <1>2, <1>3

(* A command that ends does not touch the payload.                          *)
LEMMA LeaveFacts ==
    ASSUME TypeOK, NEW o, NEW kept, Leave(o, kept)
    PROVE  /\ \A t \in Tops : disk'["live"][t] = disk["live"][t]
           /\ UNCHANGED <<request, before, touched>> /\ outcome' = o /\ Op' = Op
  BY DEF Leave, TypeOK, Places, history, Op

(* WriteRecord: the command commits, or keeps what remains recorded.        *)
LEMMA WriteRecordKeeps == ASSUME BridgeInv, WriteRecord PROVE BridgeInv'
<1> USE DEF BridgeInv, ControlInv
<1>1. pc = "rename" /\ Op \in {"install", "update", "uninstall"} /\ backward \in BOOLEAN
  BY OpFacts DEF WriteRecord, TypeOK
<1>2. CASE CallFails(FALSE) /\ WriteFails
  BY <1>1, <1>2, WriteFailsKeeps
<1>3. CASE /\ record' = Wanted /\ Works /\ Op = "update" /\ Go("dropBackup") /\ seen' = Nothing
           /\ UNCHANGED <<tree, codex, request, i, read, undo, failed, backward, remaining>> /\ Continue
  <2>1. backward = FALSE /\ remaining = {} /\ failed = FALSE /\ Wanted = Full(request.version) /\ Wanted \in Records /\ Wanted.files # {}
    BY <1>1, <1>3, WantedFacts DEF DirectionInv
  <2>2. GoesOn /\ UNCHANGED <<disk, before, touched, request>> /\ Op' = Op /\ pc' = "dropBackup" /\ record' = Full(request.version)
    BY <1>1, <1>3, <2>1, CallFacts DEF GoesOn, PCs, tree, Continue, history, Op, Go
  <2>3. TypeOK'
    BY <1>3, <2>1, <2>2, GoingOnKeepsTypes DEF TypeOK, GoesOn, Registrations, Nothing
  <2>4. PlaceInv' /\ ReportInv'
    BY <1>1, <1>3, <2>2, GoingOnKeepsPlace, GoingOnReports
  <2>5. RecordsInv' /\ RecordInv'
    BY <1>1, <1>3, <2>1, <2>2 DEF RecordsInv, RecordInv, Untouched
  <2>6. IndexInv' /\ StagingInv' /\ LookInv'
    BY <1>3, <2>2 DEF IndexInv, StagingInv, Settled, LookInv
  <2>7. DirectionInv' /\ FaultInv'
    BY <1>3, <2>1, <2>2 DEF DirectionInv, FaultInv
  <2>8. CodexInv'
    BY <1>1, <1>3, <2>1, <2>2 DEF CodexInv, Untouched, Exactly
  <2>9. PayloadInv'
    <3> SUFFICES ASSUME NEW t \in Tops, Untouched(t) PROVE (PublicationInv(t) /\ RollbackInv(t) /\ RemovalInv(t))'
      BY <2>2 DEF PayloadInv, Untouched
    <3>1. PublicationInv(t) /\ Replaced(t)
      BY <1>1, <1>3, <2>1 DEF PayloadInv, PublicationInv
    <3> QED BY <1>1, <1>3, <2>2, <3>1 DEF PublicationInv, RollbackInv, RemovalInv, Replaced, Staged
  <2> QED BY <2>3, <2>4, <2>5, <2>6, <2>7, <2>8, <2>9
<1>4. CASE /\ record' = Wanted /\ Works /\ Op # "update"
           /\ Leave(IF backward THEN "incomplete" ELSE "done", {"stage", "backup"}) /\ UNCHANGED codex
  <2> DEFINE o == IF backward THEN "incomplete" ELSE "done"
  <2>1. /\ Calls /\ o \in Outcomes \ {"running"} /\ record' \in Records /\ record'.files # {}
        /\ o = IF backward = TRUE THEN "incomplete" ELSE "done"
    BY <1>1, <1>4, CallFacts, WantedFacts DEF Outcomes
  <2> HIDE DEF o
  <2>2. /\ \A t \in Tops : disk'["live"][t] = disk["live"][t]
        /\ UNCHANGED <<request, before, touched, codex>> /\ outcome' = o /\ Op' = Op
    BY <1>4, LeaveFacts DEF o
  <2>3. FailureIsHonest'
    BY <2>1, <2>2 DEF FailureIsHonest
  <2>4. OneFaultIsUndone'
    <3>1. CASE Op = "uninstall" \/ backward = FALSE
      <4>1. Op = "uninstall" \/ o = "done"
        BY <2>1, <3>1
      <4> QED BY <2>2, <4>1 DEF OneFaultIsUndone
    <3>2. CASE Op = "install" /\ backward = TRUE
      <4>1. Faulted(2) /\ faults' = faults /\ faults \in Nat
        BY <1>1, <1>4, <3>2 DEF FaultInv, Works, TypeOK
      <4>2. ~(faults' <= 1 /\ touched' = {})
        BY <2>2, <4>1 DEF Faulted
      <4> QED BY <4>2 DEF OneFaultIsUndone
    <3> QED BY <1>1, <1>4, <3>1, <3>2
  <2>5. SuccessIsComplete'
    <3>1. CASE backward = TRUE
      BY <2>1, <2>2, <3>1 DEF SuccessIsComplete
    <3>2. CASE backward = FALSE /\ Op = "install"
      <4>1. \A t \in Tops : Untouched(t) => disk["live"][t] = Staged
        BY <1>1, <3>2 DEF PayloadInv, PublicationInv, Replaced
      <4>2. /\ record' = Full(request.version)
            /\ Untouched("codex") /\ Untouched("marketplace") => codex = Exactly(request.version)
        BY <1>1, <1>4, <3>2, WantedFacts DEF CodexInv
      <4>3. Complete'
        BY <2>2, <4>1, <4>2 DEF Complete, Untouched, Live, Staged, Dir, Exactly
      <4> QED BY <2>2, <3>2, <4>3 DEF SuccessIsComplete
    <3>3. CASE Op = "uninstall"
      <4>1. record'.files = remaining
        BY <1>1, <1>4, <3>3, WantedFacts
      <4>2. Untouched("record") => \A t \in before.record.files : Untouched(t) =>
               (disk'["live"][t].items \intersect OwnPath # {}) = (t \in remaining)
        <5> SUFFICES ASSUME Untouched("record"), NEW t \in before.record.files, Untouched(t)
                     PROVE  (Live(t) \intersect OwnPath # {}) = (t \in remaining) /\ t \in Tops
          BY <2>2 DEF Live
        <5>1. t \in Tops /\ t \in read.files
          BY <1>1 DEF RecordInv, TypeOK, Records, NoRecord
        <5>2. Left(t)
          BY <1>1, <3>3, <5>1 DEF PayloadInv, RemovalInv
        <5> QED BY <5>1, <5>2 DEF Left
      <4>3. Untouched("codex") => \A n \in DOMAIN codex : codex[n] \in {"none", "twice"}
        BY <1>1, <3>3 DEF CodexInv, Cleared, TypeOK
      <4>4. Gone'
        BY <2>2, <4>1, <4>2, <4>3 DEF Gone, Untouched, Live
      <4> QED BY <2>2, <3>3, <4>4 DEF SuccessIsComplete
    <3> QED BY <1>1, <1>4, <3>1, <3>2, <3>3
  <2>6. Leave(o, {"stage", "backup"}) /\ codex' \in Registrations
    BY <1>4 DEF o, TypeOK, Registrations
  <2> QED BY <1>1, <1>4, <2>1, <2>3, <2>4, <2>5, <2>6, EndKeeps DEF Places
<1>5. Op = "update" => backward = FALSE
  BY <1>1 DEF DirectionInv
<1> QED BY <1>1, <1>2, <1>3, <1>4, <1>5, Zenon DEF WriteRecord

(* DropBackup: the record names the new payload already.                    *)
LEMMA DropBackupKeeps == ASSUME BridgeInv, DropBackup PROVE BridgeInv'
<1> USE DEF BridgeInv, ControlInv
<1>1. /\ Calls /\ pc = "dropBackup" /\ Op = "update" /\ pc' \in {"committed", "uncleaned"}
      /\ Same /\ UNCHANGED <<litter, record, codex, i>> /\ Continue
  <2>1. Works \/ CallFails(FALSE)
    BY DEF DropBackup
  <2> QED BY <2>1, CallFacts DEF DropBackup, Go, PlaceInv
<1>2. disk' \in [Places -> [Tops -> Dirs]] /\ disk'["live"] = disk["live"] /\ Settled'
  <2>1. PICK stuck \in SUBSET Tops :
           LET left(t) == IF t \in stuck THEN disk["backup"][t].items
                          ELSE disk["backup"][t].items \ {read.version} IN
           disk' = [disk EXCEPT !["backup"] = [t \in Tops |-> IF left(t) = {} THEN NoDir ELSE Dir(left(t))]]
    BY DEF DropBackup
  <2> DEFINE left(t) == IF t \in stuck THEN disk["backup"][t].items ELSE disk["backup"][t].items \ {read.version}
             backup == [t \in Tops |-> IF left(t) = {} THEN NoDir ELSE Dir(left(t))]
  <2>2. disk' = [disk EXCEPT !["backup"] = backup]
    BY <2>1
  <2>3. \A t \in Tops : left(t) \subseteq Versions \union Foreign
    BY DEF TypeOK, Places, Dirs
  <2> HIDE DEF left
  <2>4. backup \in [Tops -> Dirs] /\ \A t \in Tops : backup[t].there \/ backup[t] = NoDir
    BY <2>3, ContentFacts DEF Dir
  <2> HIDE DEF backup
  <2>5. /\ disk' \in [Places -> [Tops -> Dirs]] /\ disk'["live"] = disk["live"] /\ disk'["stage"] = disk["stage"]
        /\ disk'["backup"] = backup
    BY <2>2, <2>4 DEF TypeOK, Places
  <2> QED BY <2>4, <2>5 DEF StagingInv, Settled, Places
<1>3. GoesOn /\ UNCHANGED <<before, touched, request, read, failed, backward, remaining, undo, seen>> /\ Op' = Op
  BY <1>1 DEF GoesOn, PCs, Same, Continue, history, Op
<1>4. TypeOK'
  BY <1>1, <1>2, <1>3, GoingOnKeepsTypes DEF TypeOK, GoesOn, Registrations
<1>5. PlaceInv' /\ RecordsInv' /\ RecordInv' /\ ReportInv'
  BY <1>1, <1>3, GoingOnKeepsPlace, GoingOnKeepsRecords, GoingOnReports
<1>6. IndexInv' /\ StagingInv' /\ LookInv'
  BY <1>1, <1>2, <1>3 DEF IndexInv, StagingInv, LookInv
<1>7. backward = FALSE
  BY <1>1 DEF DirectionInv, TypeOK
<1>8. DirectionInv' /\ FaultInv'
  BY <1>1, <1>3, <1>7 DEF DirectionInv, FaultInv
<1>9. CodexInv'
  BY <1>1, <1>3, <1>7 DEF CodexInv, Untouched, Exactly
<1>10. PayloadInv'
  <2> SUFFICES ASSUME NEW t \in Tops, Untouched(t) PROVE (PublicationInv(t) /\ RollbackInv(t) /\ RemovalInv(t))'
    BY <1>3 DEF PayloadInv, Untouched
  <2>1. PublicationInv(t)
    BY DEF PayloadInv
  <2> QED BY <1>1, <1>2, <1>3, <2>1 DEF PublicationInv, RollbackInv, RemovalInv, Staged
<1> QED BY <1>4, <1>5, <1>6, <1>8, <1>9, <1>10

(* LookBeforeForgetting: nobody may have changed the record.                *)
LEMMA LookBeforeForgettingKeeps == ASSUME BridgeInv, LookBeforeForgetting PROVE BridgeInv'
<1> USE DEF BridgeInv, ControlInv
<1>1. Calls /\ pc = "forget" /\ Op = "uninstall"
  <2>1. Works \/ \E b \in BOOLEAN : CallFails(b)
    BY DEF LookBeforeForgetting
  <2> QED BY <2>1, CallFacts DEF LookBeforeForgetting, PlaceInv
<1>2. CASE Conclude("failed")
  BY <1>1, <1>2, IncompleteEndKeeps
<1>3. CASE record = NoRecord /\ Conclude("done")
  <2>1. /\ \A t \in Tops : disk'["live"][t] = disk["live"][t]
        /\ UNCHANGED <<record, codex, request, before, touched>> /\ outcome' = "done" /\ Op' = Op
        /\ record' \in Records \union {NoRecord} /\ codex' \in Registrations
        /\ Leave("done", {"stage", "backup"}) /\ "done" \in Outcomes \ {"running"}
    BY <1>3, ConcludeFacts DEF Outcomes
  <2>2. ~Untouched("record")
    BY <1>1, <1>3 DEF RecordInv, PlaceInv
  <2>3. Untouched("codex") => \A n \in DOMAIN codex : codex[n] \in {"none", "twice"}
    BY <1>1 DEF CodexInv, Cleared, TypeOK
  <2>4. (FailureIsHonest /\ OneFaultIsUndone /\ SuccessIsComplete)'
    BY <1>1, <2>1, <2>2, <2>3 DEF FailureIsHonest, OneFaultIsUndone, SuccessIsComplete, Gone, Untouched
  <2> QED BY <1>1, <2>1, <2>4, EndKeeps DEF Places, RecordsInv
<1>4. CASE /\ record = read /\ Works /\ Go("unlink") /\ seen' = [Nothing EXCEPT !.record = record]
           /\ UNCHANGED <<tree, record, codex, request, i, read, undo, failed, backward, remaining>> /\ Continue
  BY <1>1, <1>4, RecordSeenKeeps DEF Go
<1> QED BY <1>2, <1>3, <1>4 DEF LookBeforeForgetting

(* ForgetRecord: nothing that was owned is left.                            *)
LEMMA ForgetRecordKeeps == ASSUME BridgeInv, ForgetRecord PROVE BridgeInv'
<1> USE DEF BridgeInv, ControlInv
<1>1. Calls /\ pc = "unlink" /\ Op = "uninstall"
  BY CallFacts DEF ForgetRecord, PlaceInv
<1>2. CASE Conclude("failed")
  BY <1>1, <1>2, IncompleteEndKeeps
<1>3. CASE record' = NoRecord /\ Leave("done", {"stage", "backup"}) /\ UNCHANGED codex
  <2>1. /\ \A t \in Tops : disk'["live"][t] = disk["live"][t]
        /\ UNCHANGED <<request, before, touched>> /\ outcome' = "done" /\ Op' = Op
        /\ codex' \in Registrations /\ "done" \in Outcomes \ {"running"}
    BY <1>3, LeaveFacts DEF Outcomes, TypeOK, Registrations
  <2>2. Untouched("record") => \A t \in before.record.files : Untouched(t) => Live(t) \intersect OwnPath = {} /\ t \in Tops
    <3> SUFFICES ASSUME Untouched("record"), NEW t \in before.record.files, Untouched(t)
                 PROVE  Live(t) \intersect OwnPath = {} /\ t \in Tops
      OBVIOUS
    <3>1. t \in Tops /\ t \in read.files /\ remaining = {}
      BY <1>1 DEF RecordInv, TypeOK, Records, NoRecord, DirectionInv
    <3>2. Left(t)
      BY <1>1, <3>1 DEF PayloadInv, RemovalInv
    <3> QED BY <3>1, <3>2 DEF Left
  <2>3. Untouched("codex") => \A n \in DOMAIN codex : codex[n] \in {"none", "twice"}
    BY <1>1 DEF CodexInv, Cleared, TypeOK
  <2>4. Gone'
    BY <1>3, <2>1, <2>2, <2>3 DEF Gone, Untouched, Live, NoRecord
  <2>5. (FailureIsHonest /\ OneFaultIsUndone /\ SuccessIsComplete)'
    BY <1>1, <2>1, <2>4 DEF FailureIsHonest, OneFaultIsUndone, SuccessIsComplete
  <2> QED BY <1>1, <1>3, <2>1, <2>5, EndKeeps DEF Places
<1> QED BY <1>2, <1>3 DEF ForgetRecord

-----------------------------------------------------------------------------
(* Nothing happens.                                                         *)
LEMMA IdleKeeps == ASSUME BridgeInv, UNCHANGED vars PROVE BridgeInv'
<1> USE DEF BridgeInv, ControlInv
<1>1. UNCHANGED <<disk, litter, record, codex, request, pc, i, read, undo, failed, backward, remaining, seen, outcome, before,
                  touched, edits, commands, faults>>
  BY DEF vars, tree, control, history
<1>2. TypeOK'
  BY <1>1 DEF TypeOK
<1>3. PlaceInv' /\ IndexInv' /\ DirectionInv' /\ LookInv'
  BY <1>1 DEF PlaceInv, IndexInv, DirectionInv, LookInv, MoveCount, T, Owned, Op
<1>4. RecordsInv' /\ StagingInv' /\ RecordInv' /\ FaultInv'
  BY <1>1 DEF RecordsInv, StagingInv, Settled, Nowhere, Staged, MoveCount, RecordInv, Untouched, FaultInv, Faulted, Whole, Op
<1>5. CodexInv'
  BY <1>1 DEF CodexInv, Untouched, Exactly, Op
<1>6. PayloadInv'
  <2> SUFFICES ASSUME NEW t \in Tops, Untouched(t) PROVE (PublicationInv(t) /\ RollbackInv(t) /\ RemovalInv(t))'
    BY <1>1 DEF PayloadInv, Untouched
  <2>1. PublicationInv(t) /\ RollbackInv(t) /\ RemovalInv(t)
    BY DEF PayloadInv
  <2>2. PublicationInv(t)'
    BY <1>1, <2>1 DEF PublicationInv, Original, Replaced, Aside, Away, Saved, Live, Staged, Faulted, MoveCount, Op
  <2>3. RollbackInv(t)'
    BY <1>1, <2>1 DEF RollbackInv, Original, Replaced, Aside, Erased, Saved, Live, Staged, Op
  <2>4. RemovalInv(t)'
    BY <1>1, <2>1 DEF RemovalInv, Left, Live, T, Op
  <2> QED BY <2>2, <2>3, <2>4
<1>7. ReportInv'
  <2>1. FailureIsHonest' /\ OneFaultIsUndone'
    BY <1>1 DEF ReportInv, FailureIsHonest, OneFaultIsUndone, AsBefore, RegistrationsAsBefore, Untouched, Live, Op
  <2>2. SuccessIsComplete'
    BY <1>1 DEF ReportInv, SuccessIsComplete, Complete, Gone, Untouched, Live, Op
  <2>3. pc' = "idle" => PreviousPayloadKept'
    BY <1>1 DEF ReportInv, PreviousPayloadKept, Untouched, Op
  <2> QED BY <2>1, <2>2, <2>3 DEF ReportInv
<1> QED BY <1>2, <1>3, <1>4, <1>5, <1>6, <1>7

(* The invariant holds at first ...                                         *)
LEMMA InitKeeps == Init => BridgeInv
<1> SUFFICES ASSUME Init PROVE BridgeInv
  OBVIOUS
<1>1. /\ disk = [p \in Places |-> [t \in Tops |-> NoDir]] /\ litter = [t \in Tops |-> {}] /\ record = NoRecord
      /\ codex = [marketplace |-> "none", plugin |-> "none"]
      /\ request = [op |-> "uninstall", version |-> "none", dryRun |-> FALSE]
      /\ pc = "idle" /\ i = 1 /\ read = NoRecord
      /\ undo = {} /\ failed = FALSE /\ backward = FALSE /\ remaining = {} /\ seen = Nothing
      /\ outcome = "none" /\ touched = {} /\ faults = 0 /\ edits = 0 /\ commands = 0
      /\ before = [live |-> disk["live"], record |-> record, codex |-> codex]
  BY DEF Init, Snapshot
<1>2. TypeOK
  <2>1. /\ disk \in [Places -> [Tops -> Dirs]] /\ litter \in [Tops -> SUBSET (Versions \union Foreign)]
        /\ record \in Records \union {NoRecord} /\ codex \in [marketplace : Marketplaces, plugin : Plugins]
        /\ read \in Records \union {NoRecord} /\ request \in Requests
    BY <1>1, ContentFacts DEF Marketplaces, Plugins, Requests
  <2>2. before \in [live : [Tops -> Dirs], record : Records \union {NoRecord},
                    codex : [marketplace : Marketplaces, plugin : Plugins]]
    BY <1>1, <2>1 DEF Places
  <2>3. seen \in [file : SUBSET OwnPath, record : Records \union {NoRecord}]
    BY <1>1 DEF Nothing
  <2>4. pc \in PCs /\ outcome \in Outcomes /\ i \in 0..4
    BY <1>1 DEF PCs, Outcomes
  <2>5. /\ undo \subseteq {"plugin", "marketplace"} /\ failed \in BOOLEAN /\ backward \in BOOLEAN
        /\ remaining \subseteq Tops /\ touched \subseteq Tops \union {"record", "codex"}
        /\ faults \in 0..MaxFaults /\ edits \in 0..MaxEdits /\ commands \in 0..MaxCommands
    <3>1. 0 \in 0..MaxFaults /\ 0 \in 0..MaxEdits /\ 0 \in 0..MaxCommands
      BY BoundsAssumption
    <3> QED BY <1>1, <3>1, Zenon
  <2> QED BY <2>1, <2>2, <2>3, <2>4, <2>5 DEF TypeOK
<1>3. ControlInv
  BY <1>1, <1>2 DEF ControlInv, PlaceInv, IndexInv, DirectionInv, LookInv
<1>4. RecordsInv /\ StagingInv /\ RecordInv /\ CodexInv /\ FaultInv
  BY <1>1 DEF RecordsInv, StagingInv, Settled, Nowhere, Places, RecordInv, CodexInv, FaultInv, Op
<1>5. PayloadInv
  BY <1>1 DEF PayloadInv, PublicationInv, RollbackInv, RemovalInv
<1>6. ReportInv
  BY <1>1 DEF ReportInv, FailureIsHonest, OneFaultIsUndone, SuccessIsComplete, PreviousPayloadKept, Op
<1> QED BY <1>3, <1>4, <1>5, <1>6 DEF BridgeInv

(* ... and every step keeps it.                                             *)
LEMMA StepKeeps == BridgeInv /\ [Next]_vars => BridgeInv'
<1> SUFFICES ASSUME BridgeInv, [Next]_vars PROVE BridgeInv'
  OBVIOUS
<1>1. CASE \E r \in Requests : Begin(r)
  BY <1>1, BeginKeeps
<1>2. CASE Command
  <2>1. CASE ReadRecord \/ InspectPayload \/ InspectRegistration \/ ListRegistrations \/ Stage \/ Recheck \/ Refuse
    BY <2>1, ReadKeeps, InspectPayloadKeeps, InspectRegistrationKeeps, ListRegistrationsKeeps, StageKeeps, RecheckKeeps, RefuseKeeps
  <2>2. CASE MovePayload \/ UnmovePayload \/ Unstage
    BY <2>2, MovePayloadKeeps, UnmovePayloadKeeps, UnstageKeeps
  <2>3. CASE AddMarketplace \/ AddPlugin \/ RemovePlugin \/ UndoPlugin \/ UndoMarketplace \/ GiveUp
    BY <2>3, AddMarketplaceKeeps, AddPluginKeeps, RemovePluginKeeps, UndoPluginKeeps, UndoMarketplaceKeeps, GiveUpKeeps
  <2>4. CASE LookAtFile \/ RemoveFile \/ SweepDirectories \/ RolledBack
    BY <2>4, LookAtFileKeeps, RemoveFileKeeps, SweepDirectoriesKeeps, RolledBackKeeps
  <2>5. CASE RestorePayload \/ UnrestorePayload \/ ReaddPlugin
    BY <2>5, RestorePayloadKeeps, UnrestorePayloadKeeps, ReaddPluginKeeps
  <2>6. CASE LookAtRecord \/ WriteRecord \/ DropBackup \/ Committed \/ Uncleaned \/ LookBeforeForgetting \/ ForgetRecord
    BY <2>6, LookAtRecordKeeps, WriteRecordKeeps, DropBackupKeeps, CommittedKeeps, UncleanedKeeps, LookBeforeForgettingKeeps,
       ForgetRecordKeeps
  <2> QED BY <1>2, <2>1, <2>2, <2>3, <2>4, <2>5, <2>6 DEF Command
<1>3. CASE Kill \/ Edit
  BY <1>3, KillKeeps, EditKeeps
<1>4. CASE UNCHANGED vars
  BY <1>4, IdleKeeps
<1> QED BY <1>1, <1>2, <1>3, <1>4 DEF Next

-----------------------------------------------------------------------------
(* What somebody else wrote: a rename carries it along, and the end of a    *)
(* command leaves it in a directory nobody uses any more.                   *)
Somewhere(t, x) == \E p \in Places : x \in disk[p][t].items

(* A rename loses no file.                                                  *)
LEMMA MoveSpares ==
    ASSUME TypeOK, Settled, NEW from \in Places, NEW to \in Places, from # to, NEW top \in Tops,
           CanMove(Move(from, to, top)), disk' = Moved(Move(from, to, top)),
           NEW t \in Tops, NEW x, Somewhere(t, x)
    PROVE  Somewhere(t, x)'
<1>1. PICK p \in Places : x \in disk[p][t].items
  BY DEF Somewhere
<1>2. \A q \in Places : disk'[q][t] = IF t # top THEN disk[q][t]
                                      ELSE IF q = from THEN NoDir
                                      ELSE IF q = to THEN disk[from][top]
                                      ELSE disk[q][t]
  BY MovedFacts
<1>3. CASE t # top \/ p \notin {from, to}
  BY <1>1, <1>2, <1>3 DEF Somewhere
<1>4. CASE t = top /\ p = from
  BY <1>1, <1>2, <1>4 DEF Somewhere
<1>5. CASE t = top /\ p = to
  <2>1. disk[to][t].items = {}
    BY <1>5 DEF CanMove, Move, Free, Settled, NoDir
  <2> QED BY <1>1, <1>5, <2>1
<1> QED BY <1>3, <1>4, <1>5

(* How a step may change the directories                                    *)
LEMMA DiskSteps ==
    ASSUME BridgeInv, Command \/ Kill
    PROVE  \/ UNCHANGED disk
           \/ \E from, to \in Places : \E top \in Tops : LET m == Move(from, to, top) IN
                 from # to /\ CanMove(m) /\ disk' = Moved(m)
           \/ \E o : Leave(o, {"stage", "backup"})
           \/ pc = "unstage"
           \/ pc = "stage" /\ \E d : disk' = [disk EXCEPT !["stage"] = d]
           \/ RemoveFile \/ SweepDirectories \/ DropBackup
<1> USE DEF BridgeInv, ControlInv
<1>1. CASE \E o : Conclude(o)
  BY <1>1 DEF Conclude
<1>2. CASE pc = "unstage" \/ RemoveFile \/ SweepDirectories \/ DropBackup
  BY <1>2
<1>3. CASE ReadRecord \/ InspectPayload \/ InspectRegistration \/ ListRegistrations \/ Recheck \/ Refuse \/ Kill \/ GiveUp
              \/ RolledBack \/ Committed \/ Uncleaned
  BY <1>1, <1>3 DEF ReadRecord, InspectPayload, InspectRegistration, ListRegistrations, Recheck, Refuse, Kill, GiveUp,
     RolledBack, Committed, Uncleaned, tree
<1>4. CASE AddMarketplace \/ AddPlugin \/ RemovePlugin \/ UndoPlugin \/ UndoMarketplace \/ LookAtFile \/ ReaddPlugin
  BY <1>4 DEF AddMarketplace, AddPlugin, RemovePlugin, UndoPlugin, UndoMarketplace, LookAtFile, ReaddPlugin, tree
<1>5. CASE LookAtRecord \/ WriteRecord \/ LookBeforeForgetting \/ ForgetRecord
  <2>1. CASE WriteFails
    BY <1>1, <2>1 DEF WriteFails, tree
  <2> QED BY <1>1, <1>5, <2>1 DEF LookAtRecord, WriteRecord, LookBeforeForgetting, ForgetRecord, tree
<1>6. CASE Stage
  <2>1. \/ Conclude("predicted") \/ Conclude("refused")
        \/ disk' = [disk EXCEPT !["stage"] = [t \in Tops |-> Dir({request.version})]]
    BY <1>6 DEF Stage
  <2> QED BY <1>1, <1>6, <2>1 DEF Stage
<1>7. CASE MovePayload \/ UnmovePayload
  <2>1. CASE UNCHANGED disk
    BY <2>1
  <2>2. CASE disk' # disk
    <3>1. PICK m \in {Moves[i], Back(Moves[i])} : CanMove(m) /\ disk' = Moved(m)
      BY <1>7, <2>2 DEF MovePayload, UnmovePayload
    <3>2. i \in 1..MoveCount /\ MoveCount \in {2, 4}
      BY <1>7, <2>2, RankFacts DEF MovePayload, UnmovePayload, IndexInv
    <3>3. \E from, to \in Places : \E top \in Tops : from # to /\ Moves[i] = Move(from, to, top)
      <4>1. CASE i <= MoveCount - 2
        BY <3>2, <4>1, MoveFacts, OrderFacts DEF Places
      <4>2. CASE ~(i <= MoveCount - 2)
        <5>1. i - (MoveCount - 2) \in 1..2
          BY <3>2, <4>2
        <5>2. Moves[i] = Move("stage", "live", Order[i - (MoveCount - 2)]) /\ Order[i - (MoveCount - 2)] \in Tops
          BY <3>2, <4>2, <5>1, MoveFacts, OrderFacts
        <5> QED BY <5>2 DEF Places
      <4> QED BY <4>1, <4>2
    <3>4. PICK from \in Places, to \in Places, top \in Tops : from # to /\ Moves[i] = Move(from, to, top)
      BY <3>3
    <3>5. m = Move(from, to, top) \/ m = Move(to, from, top)
      BY <3>1, <3>4 DEF Back, Move
    <3> QED BY <3>1, <3>4, <3>5
  <2> QED BY <2>1, <2>2
<1>8. CASE RestorePayload \/ UnrestorePayload
  <2>1. T \in Tops
    BY <1>8, OrderFacts DEF RestorePayload, UnrestorePayload, IndexInv, T
  <2>2. CASE UNCHANGED disk
    BY <2>2
  <2>3. CASE disk' # disk
    <3>1. PICK m \in {Move("backup", "live", T), Move("live", "backup", T)} : CanMove(m) /\ disk' = Moved(m)
      BY <1>8, <2>3 DEF RestorePayload, UnrestorePayload
    <3> QED BY <2>1, <3>1 DEF Places
  <2> QED BY <2>2, <2>3
<1> QED BY <1>2, <1>3, <1>4, <1>5, <1>6, <1>7, <1>8 DEF Command, Unstage

(* No step loses a file of somebody else, unless it came late.              *)
LEMMA FilesSpared == ASSUME BridgeInv, [Next]_vars PROVE SparesFiles
<1> USE DEF BridgeInv, ControlInv
<1> SUFFICES ASSUME NEW t \in Tops, NEW x \in Foreign, Somewhere(t, x), ~Somewhere(t, x)', x \notin litter'[t], edits' = edits,
                    pc # "unstage"
             PROVE  pc = "remove" /\ T = t /\ seen.file # Live(t) \intersect OwnPath
  BY DEF SparesFiles, Somewhere
<1>1. PICK p \in Places : x \in disk[p][t].items
  BY DEF Somewhere
<1>2. disk' # disk
  BY DEF Somewhere
<1>3. Command \/ Kill
  <2>1. ~Edit /\ edits \in Nat
    BY DEF Edit, TypeOK
  <2> QED BY <1>2, <2>1 DEF Next, Begin, vars, tree
<1>4. \A v \in Versions : v \notin Foreign
  BY VersionsAssumption DEF Foreign
<1>5. ASSUME NEW from \in Places, NEW to \in Places, NEW top \in Tops, from # to, CanMove(Move(from, to, top)),
             disk' = Moved(Move(from, to, top))
      PROVE  FALSE
  BY <1>5, MoveSpares DEF StagingInv
<1>6. ASSUME NEW o, Leave(o, {"stage", "backup"}) PROVE FALSE
  <2>1. p = "live"
    BY <1>1, <1>6 DEF Leave, TypeOK, Places
  <2>2. disk'["live"][t] = disk["live"][t]
    BY <1>6, LeaveFacts
  <2> QED BY <1>1, <2>1, <2>2 DEF Somewhere
<1>7. ASSUME pc = "stage", NEW d, disk' = [disk EXCEPT !["stage"] = d] PROVE FALSE
  <2>1. disk["stage"][t] = NoDir
    BY <1>7 DEF StagingInv, Nowhere
  <2>2. p # "stage"
    BY <1>1, <2>1 DEF NoDir
  <2> QED BY <1>1, <1>7, <2>2 DEF Somewhere, TypeOK
<1>8. ASSUME SweepDirectories PROVE FALSE
  <2>1. PICK gone \in SUBSET {s \in Owned.files : disk["live"][s].items = {}} :
           disk' = [disk EXCEPT !["live"] = [s \in Tops |-> IF s \in gone THEN NoDir ELSE @[s]]]
    BY <1>8 DEF SweepDirectories
  <2>2. disk'[p][t].items = disk[p][t].items
    BY <1>1, <2>1 DEF TypeOK, Places
  <2> QED BY <1>1, <2>2 DEF Somewhere
<1>9. ASSUME DropBackup PROVE FALSE
  <2>1. PICK stuck \in SUBSET Tops :
           LET left(s) == IF s \in stuck THEN disk["backup"][s].items
                          ELSE disk["backup"][s].items \ {read.version} IN
           disk' = [disk EXCEPT !["backup"] = [s \in Tops |-> IF left(s) = {} THEN NoDir ELSE Dir(left(s))]]
    BY <1>9 DEF DropBackup
  <2> DEFINE left == IF t \in stuck THEN disk["backup"][t].items ELSE disk["backup"][t].items \ {read.version}
  <2>2. /\ p # "backup" => disk'[p][t] = disk[p][t]
        /\ disk'["backup"][t] = IF left = {} THEN NoDir ELSE Dir(left)
    BY <2>1 DEF TypeOK, Places
  <2>3. read.version # x
    <3>1. read \in Records
      BY <1>9 DEF DropBackup, PlaceInv, TypeOK
    <3> QED BY <1>4, <3>1, ContentFacts
  <2>4. x \in disk["backup"][t].items => x \in left
    BY <2>3
  <2> HIDE DEF left
  <2> QED BY <1>1, <2>2, <2>4 DEF Somewhere, Dir, Places
<1>10. ASSUME RemoveFile PROVE pc = "remove" /\ T = t /\ seen.file # Live(t) \intersect OwnPath
  <2>1. pc = "remove" /\ T \in Tops /\ seen.file = {Owned.version} /\ Owned.version \in Versions
    <3>1. pc = "remove" /\ T \in Tops /\ seen.file = {Owned.version}
      BY <1>10, OrderFacts DEF RemoveFile, IndexInv, T, LookInv
    <3>2. Op = "uninstall" => read \in Records
      BY <3>1 DEF PlaceInv, TypeOK
    <3> QED BY <3>1, <3>2, ContentFacts, OpFacts DEF Owned, Full
  <2>2. disk' = [disk EXCEPT !["live"][T].items = @ \ OwnPath]
    BY <1>2, <1>10 DEF RemoveFile
  <2>3. /\ p # "live" \/ t # T => disk'[p][t] = disk[p][t]
        /\ disk'["live"][T].items = disk["live"][T].items \ OwnPath
    <3>1. disk["live"][T] \in Dirs
      BY <2>1 DEF TypeOK, Places
    <3> QED BY <2>1, <2>2, <3>1 DEF TypeOK, Places, Dirs
  <2>4. p = "live" /\ t = T /\ x \in OwnPath
    BY <1>1, <2>3 DEF Somewhere, Places
  <2> QED BY <1>1, <1>4, <2>1, <2>4 DEF Live
<1> QED BY <1>2, <1>3, <1>5, <1>6, <1>7, <1>8, <1>9, <1>10, DiskSteps

(* Only two steps of a command change the record ...                        *)
LEMMA RecordSteps == ASSUME Command \/ Kill, ~WriteRecord, ~ForgetRecord PROVE record' = record
<1>1. CASE \E o : Conclude(o)
  BY <1>1 DEF Conclude
<1>2. CASE ReadRecord \/ InspectPayload \/ InspectRegistration \/ ListRegistrations \/ Stage \/ Recheck \/ Refuse \/ Kill
  BY <1>1, <1>2 DEF ReadRecord, InspectPayload, InspectRegistration, ListRegistrations, Stage, Recheck, Refuse, Kill
<1>3. CASE MovePayload \/ UnmovePayload \/ Unstage \/ GiveUp \/ RolledBack \/ Committed \/ Uncleaned
  BY <1>1, <1>3 DEF MovePayload, UnmovePayload, Unstage, GiveUp, RolledBack, Committed, Uncleaned
<1>4. CASE AddMarketplace \/ AddPlugin \/ RemovePlugin \/ UndoPlugin \/ UndoMarketplace \/ LookAtFile \/ ReaddPlugin
  BY <1>4 DEF AddMarketplace, AddPlugin, RemovePlugin, UndoPlugin, UndoMarketplace, LookAtFile, ReaddPlugin
<1>5. CASE RemoveFile \/ SweepDirectories \/ RestorePayload \/ UnrestorePayload \/ DropBackup
  BY <1>5 DEF RemoveFile, SweepDirectories, RestorePayload, UnrestorePayload, DropBackup
<1>6. CASE LookAtRecord \/ LookBeforeForgetting
  <2>1. CASE WriteFails
    BY <1>1, <2>1 DEF WriteFails
  <2> QED BY <1>1, <1>6, <2>1 DEF LookAtRecord, LookBeforeForgetting
<1> QED BY <1>2, <1>3, <1>4, <1>5, <1>6 DEF Command

(* ... and both know the one they replace.                                  *)
LEMMA RecordSpared == ASSUME BridgeInv, [Next]_vars PROVE SparesRecord
<1> SUFFICES ASSUME record' # record, edits' = edits
             PROVE  (pc \in {"rename", "unlink"} /\ seen.record # record) \/ record = read
  BY DEF SparesRecord
<1>1. Command \/ Kill
  <2>1. ~Edit
    BY DEF Edit, BridgeInv, ControlInv, TypeOK
  <2> QED BY <2>1 DEF Next, Begin, vars
<1>2. WriteRecord \/ ForgetRecord
  BY <1>1, RecordSteps
<1>3. seen.record = read /\ pc \in {"rename", "unlink"}
  BY <1>2 DEF BridgeInv, ControlInv, LookInv, WriteRecord, ForgetRecord
<1> QED BY <1>3

-----------------------------------------------------------------------------
(* The inductive invariant holds in every reachable state, and each        *)
(* property of the runs follows from it.                                   *)

(* In every reachable state the place the command has reached, the         *)
(* direction it works in and what it has seen agree with the payload in    *)
(* its three places, the record and the registrations.                     *)
THEOREM BridgeInvariant == Spec => []BridgeInv
<1> QED BY InitKeeps, StepKeeps, PTL DEF Spec

(* Type correctness of the installation.                                   *)
THEOREM BridgeTypes == Spec => []TypeOK
<1>1. BridgeInv => TypeOK
  BY DEF BridgeInv, ControlInv
<1> QED BY <1>1, BridgeInvariant, PTL

(* A command that says it refused, predicted or rolled back has left       *)
(* payload, record and registrations as it found them.                     *)
THEOREM BridgeFailureIsHonest == Spec => []FailureIsHonest
<1>1. BridgeInv => FailureIsHonest
  BY DEF BridgeInv, ReportInv
<1> QED BY <1>1, BridgeInvariant, PTL

(* One failing call of an install or update is always made good.           *)
THEOREM BridgeOneFaultIsUndone == Spec => []OneFaultIsUndone
<1>1. BridgeInv => OneFaultIsUndone
  BY DEF BridgeInv, ReportInv
<1> QED BY <1>1, BridgeInvariant, PTL

(* A command that reports success has done all it was asked to do.         *)
THEOREM BridgeSuccessIsComplete == Spec => []SuccessIsComplete
<1>1. BridgeInv => SuccessIsComplete
  BY DEF BridgeInv, ReportInv
<1> QED BY <1>1, BridgeInvariant, PTL

(* An update keeps the files of the recorded payload until the record      *)
(* names the new one, also when it is killed.                              *)
THEOREM BridgePreviousPayloadKept == Spec => []PreviousPayloadKept
<1>1. ASSUME BridgeInv PROVE PreviousPayloadKept
  <2>1. CASE pc = "idle"
    BY <1>1, <2>1 DEF BridgeInv, ReportInv
  <2>2. CASE pc # "idle"
    <3>1. Op = "update" /\ Untouched("record") /\ record = before.record =>
            \A t \in Tops : Untouched(t) => Saved(t)
      BY <1>1, <2>2, PayloadIsSaved
    <3>2. ASSUME NEW t \in Tops, Op = "update", Saved(t)
          PROVE  before.live[t].items \subseteq (UNION {disk[p][t].items : p \in Places}) \union litter[t]
      BY <3>2 DEF Saved, Live, Places
    <3> QED BY <3>1, <3>2 DEF PreviousPayloadKept
  <2> QED BY <2>1, <2>2
<1> QED BY <1>1, BridgeInvariant, PTL

(* No step loses what somebody else wrote into the payload or as the       *)
(* record, unless it came after the last look at it.                       *)
THEOREM BridgeEditsSurvive == Spec => EditsSurvive
<1>1. BridgeInv /\ [Next]_vars => [SparesFiles /\ SparesRecord]_vars
  BY FilesSpared, RecordSpared
<1> QED BY <1>1, BridgeInvariant, PTL DEF Spec, EditsSurvive
=============================================================================
