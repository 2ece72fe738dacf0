-------------------------- MODULE GameServerProofs --------------------------
(***************************************************************************)
(* Proofs about the game server, for every set of clients, keys, levels    *)
(* and tasks, every limit and every setting of the switches.               *)
(***************************************************************************)
EXTENDS GameServerProperties, FiniteSetTheorems, TLAPS

(* The types alone are not inductive: that a table stays well-typed rests  *)
(* on what a worker's locals hold at each section.  From the section on    *)
(* where a packet is needed there is one, of the right kind; from the      *)
(* translation of the level id on, the local level_id is a key of levels.  *)
LocalsOK ==
  \A w \in Workers :
    /\ pc[w] \notin {"idle", "kick"} => packet[w] \in Packets \cup Kicks
    /\ pc[w] = "add_client" => packet[w] \in CheckIns
    /\ pc[w] = "verify" => packet[w] \in Entries \cup Others
    /\ pc[w] = "entry" => packet[w] \in Entries
    /\ pc[w] \in {"announce_join", "join", "record_level"} =>
         level_id[w] \in LevelIds \ {NoLevel}

TypeInv == TypeOK /\ LocalsOK

-----------------------------------------------------------------------------
(* No level id is stored under the sentinel -1 (on_userlevelentry).        *)
LEMMA LevelKeyNotSentinel ==
  ASSUME NEW wire \in WireLevels
  PROVE  LevelKey(wire) \in LevelIds \ {NoLevel}
  BY LevelsAreI32 DEF LevelKey, LevelIds, NoLevel, DailyLevel, WeeklyLevel

(* What the packets carry.                                                 *)
LEMMA PacketFields ==
  ASSUME NEW p \in Packets \cup Kicks
  PROVE  /\ p.client \in Clients
         /\ p \in Packets => p.key \in Keys
         /\ p \in CheckIns => p.body \in Bodies
         /\ p.kind = "UserLevelEntry" => p \in Entries
         /\ p \in Entries => p.level \in WireLevels
         /\ p \in Packets /\ p.kind # "CheckIn" => p \in Entries \cup Others
         /\ p \in Packets /\ p.kind = "CheckIn" => p \in CheckIns
  BY DEF Packets, Kicks, CheckIns, Entries, Others, Kinds

(* verify_secret_key is followed by a section of the dispatch.             *)
LEMMA SectionOfKind ==
  ASSUME NEW p \in Entries \cup Others
  PROVE  /\ Section[p.kind] \in
              {"keepalive", "remove_client", "entry", "exit", "data"}
         /\ Section[p.kind] = "entry" => p \in Entries
  BY DEF Section, Entries, Others, Kinds

(* The level_id read from the client table.                                *)
LEMMA LevelOfType ==
  ASSUME TypeOK, NEW c
  PROVE  LevelOf(c) \in LevelIds \cup {NoLevel}
  BY DEF TypeOK, LevelOf, Known, ClientData

-----------------------------------------------------------------------------
(* The local steps: where a worker goes on, the invariant on locals holds  *)
(* again if it holds for the section it goes to.                           *)
LEMMA GotoKeepsLocals ==
  ASSUME TypeInv, NEW w \in Workers, NEW label \in Labels, Goto(w, label),
         packet[w] \in Packets \cup Kicks,
         label = "entry" => packet[w] \in Entries,
         label \notin {"add_client", "verify"},
         label \in {"announce_join", "join", "record_level"} =>
           level_id[w] \in LevelIds \ {NoLevel}
  PROVE  /\ LocalsOK'
         /\ pc' \in [Workers -> Labels]
         /\ UNCHANGED <<packet, level_id>>
  BY DEF TypeInv, TypeOK, LocalsOK, Goto

LEMMA GotoWithKeepsLocals ==
  ASSUME TypeInv, NEW w \in Workers, NEW label \in Labels,
         NEW l \in LevelIds \cup {NoLevel}, GotoWith(w, label, l),
         packet[w] \in Packets \cup Kicks,
         label \notin {"add_client", "verify", "entry"},
         label \in {"announce_join", "join", "record_level"} => l # NoLevel
  PROVE  /\ LocalsOK'
         /\ pc' \in [Workers -> Labels]
         /\ packet' = packet
         /\ level_id' \in [Workers -> LevelIds \cup {NoLevel}]
  BY DEF TypeInv, TypeOK, LocalsOK, GotoWith

LEMMA ReturnKeepsLocals ==
  ASSUME TypeInv, NEW w \in Workers, Return(w)
  PROVE  /\ LocalsOK'
         /\ pc' \in [Workers -> Labels]
         /\ packet' \in [Workers -> Packets \cup Kicks \cup {NoPacket}]
         /\ level_id' \in [Workers -> LevelIds \cup {NoLevel}]
  BY DEF TypeInv, TypeOK, LocalsOK, Return, Rest, Labels

-----------------------------------------------------------------------------
(* TypeOK in two halves: a section changes one table and, with the lemmas  *)
(* above, the locals.                                                      *)
TablesTyped ==
  /\ DOMAIN connected_clients \subseteq Clients
  /\ connected_clients \in [DOMAIN connected_clients -> ClientData]
  /\ DOMAIN levels \subseteq LevelIds \ {NoLevel}
  /\ levels \in [DOMAIN levels -> SUBSET Clients]
  /\ reapers \in Nat
  /\ to_remove \subseteq Clients
  /\ tick_pc \in {"idle", "collected", "sending"}
  /\ level_to_players \in [LevelIds -> SUBSET Clients]

LocalsTyped ==
  /\ pc \in [Workers -> Labels]
  /\ packet \in [Workers -> Packets \cup Kicks \cup {NoPacket}]
  /\ level_id \in [Workers -> LevelIds \cup {NoLevel}]

LEMMA TypeOKHalves == TypeOK <=> TablesTyped /\ LocalsTyped
  BY DEF TypeOK, TablesTyped, LocalsTyped

(* Changes of the client table that keep it well-typed.                    *)
LEMMA SetLevelTyped ==
  ASSUME TypeInv, NEW S, NEW l \in LevelIds \cup {NoLevel}, SetLevel(S, l)
  PROVE  /\ DOMAIN connected_clients' \subseteq Clients
         /\ connected_clients' \in [DOMAIN connected_clients' -> ClientData]
  BY DEF TypeInv, TypeOK, SetLevel, ClientData

LEMMA RemovedTyped ==
  ASSUME TypeInv, NEW c, connected_clients' = Without(connected_clients, c)
  PROVE  /\ DOMAIN connected_clients' \subseteq Clients
         /\ connected_clients' \in [DOMAIN connected_clients' -> ClientData]
  BY DEF TypeInv, TypeOK, Without, Restrict

(* After remove_client_from_level the caller goes on well-typed.           *)
LEMMA AfterLeaveKeepsLocals ==
  ASSUME TypeInv, NEW w \in Workers, AfterLeave(w),
         packet[w] \in Packets \cup Kicks
  PROVE  LocalsTyped' /\ LocalsOK'
<1>1. CASE packet[w].kind = "UserLevelEntry"
  <2>1. LevelKey(packet[w].level) \in LevelIds \ {NoLevel}
    BY <1>1, PacketFields, LevelKeyNotSentinel
  <2>2. GotoWith(w, "announce_join", LevelKey(packet[w].level))
    BY <1>1 DEF AfterLeave
  <2> QED
    BY <2>1, <2>2, GotoWithKeepsLocals DEF TypeInv, TypeOK, LocalsTyped, Labels
<1>2. CASE packet[w].kind # "UserLevelEntry"
  BY <1>2, ReturnKeepsLocals DEF AfterLeave, LocalsTyped
<1> QED
  BY <1>1, <1>2

-----------------------------------------------------------------------------
(* A section of a packet task or of the janitor keeps the invariant.       *)
LEMMA StepKeepsTypes ==
  ASSUME TypeInv, NEW w \in Workers, Step(w)
  PROVE  TypeInv'
<1> SUFFICES TablesTyped' /\ LocalsTyped' /\ LocalsOK'
  BY TypeOKHalves DEF TypeInv, TypeOK, TablesTyped, LocalsTyped
<1>t. TypeOK /\ TablesTyped /\ LocalsTyped /\ LocalsOK
  BY TypeOKHalves DEF TypeInv
<1>p. pc[w] \notin {"idle", "kick"} =>
        /\ packet[w] \in Packets \cup Kicks
        /\ Client(w) \in Clients
  BY <1>t, PacketFields DEF LocalsOK, Client
<1>1. CASE Verify(w)
  <2>1. TablesTyped'
    BY <1>1, <1>t DEF Verify, TablesTyped, tables, tick
  <2>2. packet[w] \in Entries \cup Others /\ packet[w] \in Packets \cup Kicks
    BY <1>1, <1>t, <1>p DEF Verify, LocalsOK
  <2>3. CASE Goto(w, Section[packet[w].kind])
    <3> DEFINE label == Section[packet[w].kind]
    <3>1. /\ label \in {"keepalive", "remove_client", "entry", "exit", "data"}
          /\ label = "entry" => packet[w] \in Entries
      BY <2>2, SectionOfKind
    <3>2. Goto(w, label)
      BY <2>3
    <3> HIDE DEF label
    <3> QED
      BY <1>t, <2>1, <2>2, <3>1, <3>2, GotoKeepsLocals DEF Labels, LocalsTyped
  <2>4. CASE Return(w)
    BY <2>1, <2>4, ReturnKeepsLocals DEF LocalsTyped
  <2> QED
    BY <1>1, <2>3, <2>4 DEF Verify
<1>2. CASE RefuseClient(w)
  BY <1>2, <1>t, ReturnKeepsLocals
    DEF RefuseClient, TablesTyped, LocalsTyped, tables, tick
<1>3. CASE AddClient(w)
  <2>1. packet[w] \in CheckIns /\ packet[w].key \in Keys /\ Client(w) \in Clients
    BY <1>3, <1>t, <1>p DEF AddClient, LocalsOK, CheckIns
  <2>2. NewClient(packet[w].key) \in ClientData
    BY <2>1 DEF NewClient, ClientData
  <2>3. TablesTyped'
    BY <1>3, <1>t, <2>1, <2>2 DEF AddClient, TablesTyped, With, tick
  <2>4. LocalsTyped' /\ LocalsOK'
    BY <1>3, <1>t, <1>p, GotoKeepsLocals, ReturnKeepsLocals
      DEF AddClient, LocalsTyped, Labels
  <2> QED
    BY <2>3, <2>4
<1>4. CASE SignIn(w)
  <2>1. TablesTyped'
    BY ZenonT(40), <1>4, <1>t DEF SignIn, TablesTyped, ClientData, tick
  <2> QED
    BY <1>4, <2>1, ReturnKeepsLocals DEF SignIn, LocalsTyped
<1>5. CASE Reject(w)
  <2>1. TablesTyped'
    BY <1>5, <1>t, RemovedTyped DEF Reject, TablesTyped, tick
  <2> QED
    BY <1>5, <2>1, ReturnKeepsLocals DEF Reject, LocalsTyped
<1>6. CASE Keepalive(w)
  <2>1. TablesTyped'
    BY ZenonT(40), <1>6, <1>t DEF Keepalive, TablesTyped, ClientData, tick
  <2> QED
    BY <1>6, <2>1, ReturnKeepsLocals DEF Keepalive, LocalsTyped
<1>7. CASE RemoveClient(w)
  <2>1. TablesTyped'
    BY <1>7, <1>t, RemovedTyped DEF RemoveClient, TablesTyped, tick
  <2>2. LocalsTyped' /\ LocalsOK'
    BY <1>7, <1>t, <1>p, LevelOfType, GotoWithKeepsLocals, ReturnKeepsLocals
      DEF RemoveClient, LocalsTyped, Labels
  <2> QED
    BY <2>1, <2>2
<1>8. CASE LeaveLevel(w)
  <2>1. TablesTyped'
    BY <1>8, <1>t DEF LeaveLevel, TablesTyped, tick
  <2>2. LocalsTyped' /\ LocalsOK'
    BY <1>8, <1>t, <1>p, GotoKeepsLocals, AfterLeaveKeepsLocals
      DEF LeaveLevel, LocalsTyped, Labels
  <2> QED
    BY <2>1, <2>2
<1>9. CASE SpawnReaper(w)
  <2>1. TablesTyped'
    BY <1>9, <1>t DEF SpawnReaper, TablesTyped, tick
  <2> QED
    BY <1>9, <1>p, <2>1, AfterLeaveKeepsLocals DEF SpawnReaper
<1>10. CASE EnterLevel(w)
  <2>1. TablesTyped'
    BY <1>10, <1>t DEF EnterLevel, TablesTyped, tables, tick
  <2>2. LevelKey(packet[w].level) \in LevelIds \ {NoLevel}
    BY <1>10, <1>t, <1>p, PacketFields, LevelKeyNotSentinel DEF EnterLevel, LocalsOK
  <2>3. LocalsTyped' /\ LocalsOK'
    BY <1>10, <1>t, <1>p, <2>2, LevelOfType, GotoWithKeepsLocals, ReturnKeepsLocals
      DEF EnterLevel, LocalsTyped, Labels
  <2> QED
    BY <2>1, <2>3
<1>11. CASE AnnounceJoin(w)
  <2>1. TablesTyped'
    BY <1>11, <1>t DEF AnnounceJoin, Announce, TablesTyped, tables, tick
  <2>2. level_id[w] \in LevelIds \ {NoLevel}
    BY <1>11, <1>t DEF AnnounceJoin, Announce, LocalsOK
  <2>3. LocalsTyped' /\ LocalsOK'
    BY <1>11, <1>t, <1>p, <2>2, GotoKeepsLocals, ReturnKeepsLocals
      DEF AnnounceJoin, Announce, LocalsTyped, Labels
  <2> QED
    BY <2>1, <2>3
<1>12. CASE JoinLevel(w)
  <2>1. level_id[w] \in LevelIds \ {NoLevel}
    BY <1>12, <1>t DEF JoinLevel, LocalsOK
  <2>2. TablesTyped'
    BY <1>12, <1>t, <1>p, <2>1 DEF JoinLevel, TablesTyped, With, Players, tick
  <2>3. LocalsTyped' /\ LocalsOK'
    BY <1>12, <1>t, <1>p, <2>1, GotoKeepsLocals
      DEF JoinLevel, LocalsTyped, Labels
  <2> QED
    BY <2>2, <2>3
<1>13. CASE RecordLevel(w)
  <2>1. level_id[w] \in LevelIds
    BY <1>13, <1>t DEF RecordLevel, LocalsOK
  <2>2. TablesTyped'
    BY <1>13, <1>t, <2>1, SetLevelTyped DEF RecordLevel, TablesTyped, tick
  <2> QED
    BY <1>13, <2>2, ReturnKeepsLocals DEF RecordLevel, LocalsTyped
<1>14. CASE ExitLevel(w)
  <2>1. TablesTyped'
    BY <1>14, <1>t, SetLevelTyped DEF ExitLevel, TablesTyped, tick
  <2>2. LocalsTyped' /\ LocalsOK'
    BY <1>14, <1>t, <1>p, LevelOfType, GotoWithKeepsLocals, ReturnKeepsLocals
      DEF ExitLevel, LocalsTyped, Labels
  <2> QED
    BY <2>1, <2>2
<1>15. CASE AnnounceExit(w)
  <2>1. TablesTyped'
    BY <1>15, <1>t DEF AnnounceExit, Announce, TablesTyped, tables, tick
  <2>2. LocalsTyped' /\ LocalsOK'
    BY <1>15, <1>t, <1>p, GotoKeepsLocals, ReturnKeepsLocals
      DEF AnnounceExit, Announce, LocalsTyped, Labels
  <2> QED
    BY <2>1, <2>2
<1>16. CASE ReadLevel(w)
  <2>1. TablesTyped'
    BY <1>16, <1>t DEF ReadLevel, TablesTyped, tables, tick
  <2>2. LocalsTyped' /\ LocalsOK'
    BY <1>16, <1>t, <1>p, LevelOfType, GotoWithKeepsLocals, ReturnKeepsLocals
      DEF ReadLevel, LocalsTyped, Labels
  <2> QED
    BY <2>1, <2>2
<1>17. CASE StoreData(w)
  <2>1. TablesTyped'
    BY <1>17, <1>t, <1>p DEF StoreData, TablesTyped, tick
  <2> QED
    BY <1>17, <2>1, ReturnKeepsLocals DEF StoreData, LocalsTyped
<1> QED
  BY <1>1, <1>2, <1>3, <1>4, <1>5, <1>6, <1>7, <1>8, <1>9, <1>10, <1>11, <1>12,
     <1>13, <1>14, <1>15, <1>16, <1>17 DEF Step

-----------------------------------------------------------------------------
(* The arrival of a packet, the janitor's own steps, the reaper, the tick  *)
(* task and the passing of time keep the invariant.                        *)
LEMMA ReceiveKeepsTypes ==
  ASSUME TypeInv, NEW t \in Tasks, NEW p \in Packets, Receive(t, p)
  PROVE  TypeInv'
<1>1. TablesTyped'
  BY DEF TypeInv, TypeOK, Receive, TablesTyped, tables, tick
<1>2. /\ t \in Workers
      /\ p.kind = "CheckIn" => p \in CheckIns
      /\ p.kind # "CheckIn" => p \in Entries \cup Others
  BY PacketFields DEF Workers
<1>3. LocalsTyped' /\ LocalsOK'
  BY <1>2 DEF TypeInv, TypeOK, LocalsOK, LocalsTyped, Receive, Labels
<1> QED
  BY <1>1, <1>3, TypeOKHalves DEF TypeInv, TypeOK, TablesTyped, LocalsTyped

LEMMA JanitorKeepsTypes ==
  ASSUME TypeInv, JanitorStep
  PROVE  TypeInv'
<1> USE DEF TypeInv, TypeOK
<1>1. Janitor \in Workers
  BY DEF Workers
<1>2. CASE CollectSilent
  BY <1>1, <1>2 DEF CollectSilent, Silent, LocalsOK, Labels, tables, tick
<1>3. ASSUME NEW c \in Clients, KickNext(c)
      PROVE  TypeInv'
  <2>1. [kind |-> "Kick", client |-> c] \in Kicks
    BY DEF Kicks
  <2> QED
    BY <1>1, <1>3, <2>1 DEF KickNext, LocalsOK, Labels, tables, tick
<1> QED
  BY <1>2, <1>3 DEF JanitorStep

LEMMA SilenceKeepsTypes ==
  ASSUME TypeInv, NEW c \in Clients, GoSilent(c)
  PROVE  TypeInv'
  BY ZenonT(40)
     DEF TypeInv, TypeOK, LocalsOK, GoSilent, Known, ClientData, locals, tick

LEMMA ReapKeepsTypes ==
  ASSUME TypeInv, Reap
  PROVE  TypeInv'
  BY DEF TypeInv, TypeOK, LocalsOK, Reap, Restrict, locals, tick

LEMMA TickKeepsTypes ==
  ASSUME TypeInv, Tick
  PROVE  TypeInv'
<1> USE DEF TypeInv, TypeOK, LocalsOK, tables, locals
<1>1. CASE CollectPlayers
  BY <1>1 DEF CollectPlayers, Recipients
<1>2. CASE LockLevels
  BY <1>2 DEF LockLevels
<1>3. ASSUME NEW l \in LevelIds, SendLevel(l)
      PROVE  TypeInv'
  BY <1>3 DEF SendLevel
<1>4. ASSUME NEW l \in LevelIds, ResetPlayers(l)
      PROVE  TypeInv'
  <2>1. /\ DOMAIN connected_clients' \subseteq Clients
        /\ connected_clients' \in [DOMAIN connected_clients' -> ClientData]
    BY <1>4, SetLevelTyped DEF ResetPlayers
  <2> QED
    BY <1>4, <2>1 DEF ResetPlayers
<1>5. CASE UnlockLevels
  BY <1>5 DEF UnlockLevels
<1> QED
  BY <1>1, <1>2, <1>3, <1>4, <1>5 DEF Tick

LEMMA InitTypes == Init => TypeInv
  BY DEF Init, TypeInv, TypeOK, LocalsOK, Labels

LEMMA NextKeepsTypes == TypeInv /\ [Next]_vars => TypeInv'
<1> SUFFICES ASSUME TypeInv, [Next]_vars
             PROVE  TypeInv'
  OBVIOUS
<1>1. CASE Environment
  BY <1>1, ReceiveKeepsTypes, SilenceKeepsTypes DEF Environment
<1>2. ASSUME NEW w \in Workers, Step(w)
      PROVE  TypeInv'
  BY <1>2, StepKeepsTypes
<1>3. CASE JanitorStep
  BY <1>3, JanitorKeepsTypes
<1>4. CASE Reap
  BY <1>4, ReapKeepsTypes
<1>5. CASE Tick
  BY <1>5, TickKeepsTypes
<1>6. CASE UNCHANGED vars
  BY <1>6 DEF vars, TypeInv, TypeOK, LocalsOK
<1> QED
  BY <1>1, <1>2, <1>3, <1>4, <1>5, <1>6 DEF Next

(* The tables and the locals of every worker are well-typed throughout,    *)
(* and no level is ever stored under the sentinel id.                      *)
THEOREM TypeCorrect == Spec => []TypeOK
<1>1. TypeInv => TypeOK
  BY DEF TypeInv
<1> QED
  BY <1>1, InitTypes, NextKeepsTypes, PTL DEF Spec

THEOREM TypeInvariant == Spec => []TypeInv
  BY InitTypes, NextKeepsTypes, PTL DEF Spec

-----------------------------------------------------------------------------
(* The reaper.  A step either leaves the empty levels and the duties to    *)
(* reap them as they are, or brings its own duty along.                    *)
ReapDue == reapers > 0 \/ \E w \in Workers : pc[w] = "reap"

(* A worker that moves on from another section leaves the duties alone.    *)
LEMMA LocalStepKeepsDue ==
  ASSUME TypeOK, NEW w \in Workers, pc[w] # "reap", ReapDue,
         reapers' = reapers, NEW label, pc' = [pc EXCEPT ![w] = label]
  PROVE  ReapDue'
  BY DEF TypeOK, ReapDue

LEMMA StepKeepsReaping ==
  ASSUME TypeInv, NoForgottenEmptyLevel, NEW w \in Workers, Step(w)
  PROVE  NoForgottenEmptyLevel'
<1>t. TypeOK /\ LocalsOK
  BY DEF TypeInv
<1>1. CASE LeaveLevel(w)
  <2>1. CASE level_id[w] \in DOMAIN levels
    <3>1. pc'[w] = "reap"
      BY <1>1, <1>t, <2>1 DEF LeaveLevel, Goto, AfterLeave, TypeOK
    <3> QED
      BY <3>1 DEF NoForgottenEmptyLevel
  <2>2. CASE level_id[w] \notin DOMAIN levels
    <3>1. levels' = levels /\ reapers' = reapers
      BY <1>1, <2>2 DEF LeaveLevel
    <3>2. ReapDue => ReapDue'
      BY <1>1, <1>t, <2>2, LocalStepKeepsDue
        DEF LeaveLevel, AfterLeave, GotoWith, Return
    <3> QED
      BY <3>1, <3>2 DEF NoForgottenEmptyLevel, ReapDue
  <2> QED
    BY <2>1, <2>2
<1>2. CASE SpawnReaper(w)
  <2>1. reapers' > 0
    BY <1>2, <1>t DEF SpawnReaper, TypeOK
  <2> QED
    BY <2>1 DEF NoForgottenEmptyLevel
<1>3. CASE JoinLevel(w) \/ StoreData(w)
  <2>1. ReapDue => ReapDue'
    BY <1>3, <1>t, LocalStepKeepsDue DEF JoinLevel, StoreData, Goto, Return
  <2>2. \A l \in DOMAIN levels' : levels'[l] = {} =>
          l \in DOMAIN levels /\ levels[l] = {}
    BY <1>3, <1>t DEF JoinLevel, StoreData, With, Players, TypeOK
  <2> QED
    BY <2>1, <2>2 DEF NoForgottenEmptyLevel, ReapDue
<1>4. CASE \/ Verify(w) \/ RefuseClient(w) \/ AddClient(w) \/ SignIn(w)
           \/ Reject(w) \/ Keepalive(w) \/ RemoveClient(w) \/ EnterLevel(w)
           \/ AnnounceJoin(w) \/ RecordLevel(w) \/ ExitLevel(w)
           \/ AnnounceExit(w) \/ ReadLevel(w)
  <2>1. levels' = levels /\ reapers' = reapers /\ pc[w] # "reap"
    BY <1>4 DEF Verify, RefuseClient, AddClient, SignIn, Reject, Keepalive,
      RemoveClient, EnterLevel, AnnounceJoin, RecordLevel, ExitLevel,
      AnnounceExit, Announce, ReadLevel, tables
  <2>2. \E label : pc' = [pc EXCEPT ![w] = label]
    BY <1>4 DEF Verify, RefuseClient, AddClient, SignIn, Reject, Keepalive,
      RemoveClient, EnterLevel, AnnounceJoin, RecordLevel, ExitLevel,
      AnnounceExit, Announce, ReadLevel, Goto, GotoWith, Return
  <2>3. ReapDue => ReapDue'
    BY <1>t, <2>1, <2>2, LocalStepKeepsDue
  <2> QED
    BY <2>1, <2>3 DEF NoForgottenEmptyLevel, ReapDue
<1> QED
  BY <1>1, <1>2, <1>3, <1>4 DEF Step

LEMMA NextKeepsReaping ==
  TypeInv /\ NoForgottenEmptyLevel /\ [Next]_vars => NoForgottenEmptyLevel'
<1> SUFFICES ASSUME TypeInv, NoForgottenEmptyLevel, [Next]_vars
             PROVE  NoForgottenEmptyLevel'
  OBVIOUS
<1>t. TypeOK
  BY DEF TypeInv
<1>1. ASSUME NEW t \in Tasks, NEW p \in Packets, Receive(t, p)
      PROVE  NoForgottenEmptyLevel'
  <2>1. t \in Workers /\ pc[t] # "reap" /\ levels' = levels /\ reapers' = reapers
    BY <1>1 DEF Receive, Workers, tables
  <2>2. ReapDue => ReapDue'
    BY <1>1, <1>t, <2>1, LocalStepKeepsDue DEF Receive
  <2> QED
    BY <2>1, <2>2 DEF NoForgottenEmptyLevel, ReapDue
<1>2. ASSUME NEW c \in Clients, GoSilent(c)
      PROVE  NoForgottenEmptyLevel'
  BY <1>2 DEF GoSilent, NoForgottenEmptyLevel, locals
<1>3. ASSUME NEW w \in Workers, Step(w)
      PROVE  NoForgottenEmptyLevel'
  BY <1>3, StepKeepsReaping
<1>4. CASE JanitorStep
  <2>1. /\ Janitor \in Workers /\ pc[Janitor] # "reap"
        /\ levels' = levels /\ reapers' = reapers
    BY <1>4 DEF JanitorStep, CollectSilent, KickNext, Workers, tables
  <2>2. ReapDue => ReapDue'
    BY <1>4, <1>t, <2>1, LocalStepKeepsDue
      DEF JanitorStep, CollectSilent, KickNext
  <2> QED
    BY <2>1, <2>2 DEF NoForgottenEmptyLevel, ReapDue
<1>5. CASE Reap
  BY <1>5, <1>t DEF Reap, Restrict, NoForgottenEmptyLevel, TypeOK
<1>6. CASE Tick
  BY <1>6 DEF Tick, CollectPlayers, LockLevels, SendLevel, ResetPlayers,
    UnlockLevels, NoForgottenEmptyLevel, tables, locals
<1>7. CASE UNCHANGED vars
  BY <1>7 DEF vars, NoForgottenEmptyLevel
<1> QED
  BY <1>1, <1>2, <1>3, <1>4, <1>5, <1>6, <1>7 DEF Next, Environment

(* Although reaping is spawned and never awaited, no level without players *)
(* is ever left in the table with nobody due to drop it, for any number of *)
(* tasks, clients and levels.                                              *)
THEOREM ReapingNeverForgotten == Spec => []NoForgottenEmptyLevel
<1>1. Init => NoForgottenEmptyLevel
  BY DEF Init, NoForgottenEmptyLevel
<1> QED
  BY <1>1, TypeInvariant, NextKeepsReaping, PTL DEF Spec

-----------------------------------------------------------------------------
(* The limit.  Only AddClient makes the client table grow, by the one      *)
(* client it found room for in the same section.                           *)
LEMMA KnownFinite ==
  ASSUME TypeOK
  PROVE  /\ IsFiniteSet(DOMAIN connected_clients)
         /\ Cardinality(DOMAIN connected_clients) \in Nat
  BY ClientsFinite, FS_Subset, FS_CardinalityType DEF TypeOK

LEMMA ShrinkingKeepsCapacity ==
  ASSUME TypeOK, CapacityRespected,
         DOMAIN connected_clients' \subseteq DOMAIN connected_clients
  PROVE  CapacityRespected'
<1>1. /\ Cardinality(DOMAIN connected_clients') \in Nat
      /\ Cardinality(DOMAIN connected_clients')
           <= Cardinality(DOMAIN connected_clients)
  BY KnownFinite, FS_Subset, FS_CardinalityType
<1> QED
  BY <1>1, KnownFinite, LimitIsI32 DEF CapacityRespected

LEMMA AddingKeepsCapacity ==
  ASSUME TypeInv, CapacityRespected, NEW t \in Workers, AddClient(t)
  PROVE  CapacityRespected'
<1> DEFINE D == DOMAIN connected_clients
<1>1. D' = D \cup {Client(t)} /\ Client(t) \notin D
  BY DEF AddClient, With, Known
<1>2. IsFiniteSet(D) /\ Cardinality(D) \in Nat
  BY KnownFinite DEF TypeInv
<1>3. Cardinality(D') = Cardinality(D) + 1
  BY <1>1, <1>2, FS_AddElement
<1>4. MaxClients # 0 => ~(Cardinality(D) >= MaxClients)
  BY DEF AddClient, Full
<1> HIDE DEF D
<1>5. MaxClients # 0 => Cardinality(D') <= MaxClients
  BY <1>2, <1>3, <1>4, LimitIsI32
<1> QED
  BY <1>5 DEF CapacityRespected, D

LEMMA NextKeepsCapacity ==
  TypeInv /\ CapacityRespected /\ [Next]_vars => CapacityRespected'
<1> SUFFICES ASSUME TypeInv, CapacityRespected, [Next]_vars
             PROVE  CapacityRespected'
  OBVIOUS
<1> DEFINE Shrinks == DOMAIN connected_clients' \subseteq DOMAIN connected_clients
<1>1. ASSUME NEW w \in Workers, Step(w), ~AddClient(w)
      PROVE  Shrinks
  BY <1>1 DEF Step, Verify, RefuseClient, SignIn, Reject, Keepalive,
    RemoveClient, LeaveLevel, SpawnReaper, EnterLevel, AnnounceJoin, JoinLevel,
    RecordLevel, ExitLevel, AnnounceExit, Announce, ReadLevel, StoreData,
    SetLevel, Without, Restrict, tables
<1>2. CASE Environment \/ JanitorStep \/ Reap
  BY <1>2, ShrinkingKeepsCapacity
    DEF Environment, Receive, GoSilent, JanitorStep, CollectSilent, KickNext,
      Reap, TypeInv, tables
<1>3. CASE Tick
  <2>1. Shrinks
    BY <1>3 DEF Tick, CollectPlayers, LockLevels, SendLevel, ResetPlayers,
      UnlockLevels, SetLevel, tables
  <2> QED
    BY <2>1, ShrinkingKeepsCapacity DEF TypeInv
<1>4. ASSUME NEW w \in Workers, Step(w)
      PROVE  CapacityRespected'
  BY <1>1, <1>4, AddingKeepsCapacity, ShrinkingKeepsCapacity DEF TypeInv
<1>5. CASE UNCHANGED vars
  BY <1>5 DEF vars, CapacityRespected
<1> QED
  BY <1>2, <1>3, <1>4, <1>5 DEF Next

(* GLOBED_GS_MAX_CLIENTS is respected by any number of check-ins handled   *)
(* at once, because add_client counts and inserts under one lock.          *)
THEOREM LimitNeverExceeded == Spec => []CapacityRespected
<1>1. Init => CapacityRespected
  BY FS_EmptySet, LimitIsI32 DEF Init, CapacityRespected
<1> QED
  BY <1>1, TypeInvariant, NextKeepsCapacity, PTL DEF Spec

-----------------------------------------------------------------------------
(* The names.  A check-in about to store or to drop a client's data stays  *)
(* where it is in the steps of all others, and these make no client        *)
(* nameless.                                                               *)
JanitorInv == packet[Janitor] \in Kicks \cup {NoPacket}

SigningIn(t, c) == pc[t] \in {"sign_in", "reject"} /\ Client(t) = c

NoNewNameless ==
  /\ DOMAIN connected_clients' \subseteq DOMAIN connected_clients
  /\ \A c \in DOMAIN connected_clients' :
       connected_clients[c].named => connected_clients'[c].named

CheckInsStay ==
  \A t \in Tasks : pc[t] \in {"sign_in", "reject"} =>
    pc'[t] = pc[t] /\ packet'[t] = packet[t]

LEMMA OthersKeepNames ==
  ASSUME NamelessOnlyDuringCheckIn, NoNewNameless, CheckInsStay
  PROVE  NamelessOnlyDuringCheckIn'
  BY DEF NamelessOnlyDuringCheckIn, NoNewNameless, CheckInsStay, Client

LEMMA OwnStepsOnly ==
  ASSUME TypeOK, NEW w \in Workers, Step(w)
  PROVE  /\ \A t \in Workers \ {w} : pc'[t] = pc[t] /\ packet'[t] = packet[t]
         /\ packet'[w] \in {packet[w], NoPacket}
<1>1. \/ \E label : Goto(w, label)
      \/ \E label, l : GotoWith(w, label, l)
      \/ Return(w)
  BY DEF Step, Verify, RefuseClient, AddClient, SignIn, Reject, Keepalive,
    RemoveClient, LeaveLevel, SpawnReaper, AfterLeave, EnterLevel, AnnounceJoin,
    JoinLevel, RecordLevel, ExitLevel, AnnounceExit, Announce, ReadLevel, StoreData
<1> QED
  BY <1>1 DEF Goto, GotoWith, Return, TypeOK, Workers

(* The janitor has no check-in to handle.                                  *)
LEMMA JanitorInvariant == Spec => []JanitorInv
<1>1. Init => JanitorInv
  BY DEF Init, JanitorInv, Workers
<1>2. TypeInv /\ JanitorInv /\ [Next]_vars => JanitorInv'
  <2> SUFFICES ASSUME TypeOK, JanitorInv, [Next]_vars PROVE JanitorInv'
    BY DEF TypeInv
  <2>1. ASSUME NEW w \in Workers, Step(w) PROVE JanitorInv'
    BY <2>1, OwnStepsOnly DEF JanitorInv, Workers
  <2>2. ASSUME NEW t \in Tasks, NEW p \in Packets, Receive(t, p) PROVE JanitorInv'
    BY <2>2, WorkersDistinct DEF Receive, JanitorInv, TypeOK, Workers
  <2>3. ASSUME NEW c \in Clients, KickNext(c) PROVE JanitorInv'
    BY <2>3 DEF KickNext, JanitorInv, TypeOK, Workers, Kicks
  <2>4. CASE Reap \/ Tick \/ CollectSilent \/ \E c \in Clients : GoSilent(c)
    BY <2>4 DEF Reap, Tick, CollectPlayers, LockLevels, SendLevel, ResetPlayers,
      UnlockLevels, CollectSilent, GoSilent, JanitorInv, locals
  <2>5. CASE UNCHANGED vars
    BY <2>5 DEF vars, JanitorInv
  <2> QED
    BY <2>1, <2>2, <2>3, <2>4, <2>5 DEF Next, Environment, JanitorStep
<1> QED
  BY <1>1, <1>2, TypeInvariant, PTL DEF Spec

LEMMA StepKeepsNames ==
  ASSUME TypeInv, JanitorInv, NamelessOnlyDuringCheckIn, NEW w \in Workers, Step(w),
         "broken" \notin Bodies, SendFails = FALSE
  PROVE  NamelessOnlyDuringCheckIn'
<1>t. TypeOK /\ LocalsOK
  BY DEF TypeInv
<1>1. \A t \in Tasks \ {w} : pc'[t] = pc[t] /\ packet'[t] = packet[t]
  BY <1>t, OwnStepsOnly DEF Workers
<1>2. CASE AddClient(w)
  <2>1. packet[w].body \in Bodies /\ Bodies \subseteq {"good", "invalid"}
    BY <1>2, <1>t, BodiesKnown DEF AddClient, LocalsOK, CheckIns
  <2>2. pc'[w] \in {"sign_in", "reject"} /\ packet' = packet
    BY <1>2, <1>t, <2>1 DEF AddClient, Goto, TypeOK
  <2>3. w \in Tasks
    <3>1. packet[w] \in CheckIns /\ packet[w] \in Packets \cup Kicks
      BY <1>2, <1>t DEF AddClient, LocalsOK
    <3>2. packet[w] \notin Kicks \cup {NoPacket}
      BY <3>1, NoPacketDistinct DEF CheckIns, Kicks
    <3> QED
      BY <3>2 DEF JanitorInv, Workers
  <2>4. ASSUME NEW c \in DOMAIN connected_clients', ~connected_clients'[c].named
        PROVE  \E t \in Tasks : SigningIn(t, c)'
    <3>1. CASE c = Client(w)
      BY <2>2, <2>3, <3>1 DEF SigningIn, Client
    <3>2. CASE c # Client(w)
      <4>1. c \in DOMAIN connected_clients /\ ~connected_clients[c].named
        BY <1>2, <2>4, <3>2 DEF AddClient, With
      <4>2. PICK t \in Tasks : SigningIn(t, c)
        BY <4>1 DEF NamelessOnlyDuringCheckIn, SigningIn
      <4>3. t # w
        BY <1>2, <4>2 DEF AddClient, SigningIn
      <4> QED
        BY <1>1, <4>2, <4>3 DEF SigningIn, Client
    <3> QED
      BY <3>1, <3>2
  <2> QED
    BY <2>4 DEF NamelessOnlyDuringCheckIn, SigningIn
<1>3. CASE SignIn(w) \/ Reject(w)
  <2>1. ASSUME NEW c \in DOMAIN connected_clients', ~connected_clients'[c].named
        PROVE  \E t \in Tasks : SigningIn(t, c)'
    <3>1. c \in DOMAIN connected_clients /\ ~connected_clients[c].named /\ c # Client(w)
      <4>1. CASE SignIn(w)
        <5>1. DOMAIN connected_clients' = DOMAIN connected_clients
              /\ connected_clients'[c] =
                   IF c = Client(w) THEN [connected_clients[c] EXCEPT !.named = TRUE]
                   ELSE connected_clients[c]
          BY <2>1, <4>1 DEF SignIn
        <5>2. connected_clients[c] \in ClientData
          BY <1>t, <2>1, <5>1 DEF TypeOK
        <5> QED
          BY <2>1, <5>1, <5>2 DEF ClientData
      <4>2. CASE Reject(w)
        BY <2>1, <4>2 DEF Reject, Without, Restrict
      <4> QED
        BY <1>3, <4>1, <4>2
    <3>2. PICK t \in Tasks : SigningIn(t, c)
      BY <3>1 DEF NamelessOnlyDuringCheckIn, SigningIn
    <3>3. t # w
      BY <3>1, <3>2 DEF SigningIn
    <3> QED
      BY <1>1, <3>2, <3>3 DEF SigningIn, Client
  <2> QED
    BY <2>1 DEF NamelessOnlyDuringCheckIn, SigningIn
<1>4. CASE ~AddClient(w) /\ ~SignIn(w) /\ ~Reject(w)
  <2>1. pc[w] \notin {"sign_in", "reject"}
    BY <1>4 DEF Step, Verify, RefuseClient, Keepalive,
      RemoveClient, LeaveLevel, SpawnReaper, EnterLevel, AnnounceJoin, JoinLevel,
      RecordLevel, ExitLevel, AnnounceExit, Announce, ReadLevel, StoreData
  <2>2. CheckInsStay
    BY <1>1, <2>1 DEF CheckInsStay
  <2>3. NoNewNameless
    <3>1. CASE RecordLevel(w) \/ ExitLevel(w) \/ Keepalive(w)
      BY <1>t, <3>1 DEF RecordLevel, ExitLevel, Keepalive, SetLevel, TypeOK, ClientData,
        NoNewNameless
    <3>2. CASE RemoveClient(w)
      BY <3>2 DEF RemoveClient, Without, Restrict, NoNewNameless
    <3>3. CASE ~RecordLevel(w) /\ ~ExitLevel(w) /\ ~Keepalive(w) /\ ~RemoveClient(w)
      BY <1>4, <3>3 DEF Step, Verify, RefuseClient, LeaveLevel, SpawnReaper, EnterLevel,
        AnnounceJoin, JoinLevel, AnnounceExit, Announce, ReadLevel, StoreData, tables,
        NoNewNameless
    <3> QED
      BY <3>1, <3>2, <3>3
  <2> QED
    BY <2>2, <2>3, OthersKeepNames
<1> QED
  BY <1>2, <1>3, <1>4

(* When every body decodes and the answers can be sent, a client is in the *)
(* table without a name only while its check-in is being handled, however  *)
(* many sessions of an account come and go at once.                        *)
THEOREM NamelessOnlyMeanwhile ==
  ASSUME "broken" \notin Bodies, SendFails = FALSE
  PROVE  Spec => []NamelessOnlyDuringCheckIn
<1>1. Init => NamelessOnlyDuringCheckIn
  BY DEF Init, NamelessOnlyDuringCheckIn
<1>2. TypeInv /\ JanitorInv /\ NamelessOnlyDuringCheckIn /\ [Next]_vars
        => NamelessOnlyDuringCheckIn'
  <2> SUFFICES ASSUME TypeInv, JanitorInv, NamelessOnlyDuringCheckIn, [Next]_vars
               PROVE  NamelessOnlyDuringCheckIn'
    OBVIOUS
  <2>t. TypeOK
    BY DEF TypeInv
  <2>1. ASSUME NEW t \in Tasks, NEW p \in Packets, Receive(t, p)
        PROVE  NamelessOnlyDuringCheckIn'
    BY <2>t, <2>1, OthersKeepNames
      DEF Receive, NoNewNameless, CheckInsStay, tables, TypeOK, Workers
  <2>2. ASSUME NEW c \in Clients, GoSilent(c)
        PROVE  NamelessOnlyDuringCheckIn'
    BY <2>t, <2>2, OthersKeepNames
      DEF GoSilent, NoNewNameless, CheckInsStay, locals, TypeOK, ClientData
  <2>3. ASSUME NEW w \in Workers, Step(w)
        PROVE  NamelessOnlyDuringCheckIn'
    BY <2>3, StepKeepsNames
  <2>4. CASE JanitorStep
    BY <2>t, <2>4, OthersKeepNames, WorkersDistinct
      DEF JanitorStep, CollectSilent, KickNext, NoNewNameless, CheckInsStay, tables,
        TypeOK, Workers
  <2>5. CASE Reap
    BY <2>5, OthersKeepNames DEF Reap, NoNewNameless, CheckInsStay, locals
  <2>6. CASE Tick
    <3>1. NoNewNameless
      BY <2>t, <2>6 DEF Tick, CollectPlayers, LockLevels, SendLevel, ResetPlayers,
        UnlockLevels, SetLevel, NoNewNameless, tables, TypeOK, ClientData
    <3>2. CheckInsStay
      BY <2>6 DEF Tick, CollectPlayers, LockLevels, SendLevel, ResetPlayers,
        UnlockLevels, CheckInsStay, locals
    <3> QED
      BY <3>1, <3>2, OthersKeepNames
  <2>7. CASE UNCHANGED vars
    BY <2>7 DEF vars, NamelessOnlyDuringCheckIn, Client
  <2> QED
    BY <2>1, <2>2, <2>3, <2>4, <2>5, <2>6, <2>7 DEF Next, Environment
<1> QED
  BY <1>1, <1>2, TypeInvariant, JanitorInvariant, PTL DEF Spec
=============================================================================
