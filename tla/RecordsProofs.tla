---------------------------- MODULE RecordsProofs ---------------------------
(***************************************************************************)
(* The records of PlanRecords leave the contract as it is.  Wills: the one *)
(* linked to a vault is its active version, and a finalized active version *)
(* is never replaced.  Messages: the list of a vault names its messages,   *)
(* what is finalized or unlocked never changes, and the inheritance        *)
(* unlocks every message of its vault.  And the types of the records.      *)
(***************************************************************************)
EXTENDS PlanRecords, InheritanceProofs

(* The wills, messages and notices read the contract and never write it:   *)
(* whatever holds of every execution of the contract holds with them too.  *)
THEOREM RecordsKeepContract == RecordsSpec => Spec
<1>1. RecordsInit => Init
  BY DEF RecordsInit
<1>2. [RecordsNext]_<<vars, recordVars>> => [Next]_vars
  BY DEF RecordsNext
<1> QED BY <1>1, <1>2, PTL DEF RecordsSpec, Spec

-----------------------------------------------------------------------------
(* The inductive invariant of the versions. *)

VersionsTyped ==
  /\ IsMap(will_versions, Nat, Seq(WillVersionInfo))
  /\ DOMAIN active_version = DOMAIN will_versions

WillInv == VersionsTyped /\ ActiveWillIsLinked

(* What each step does to the versions of the wills: it leaves them alone, *)
(* links a will to a vault without one, or adds a version to a will whose  *)
(* active version is not final; and nothing final becomes open again.      *)
Linked(p, hash) ==
  /\ p \notin DOMAIN vault_will
  /\ vault_will' = Put(vault_will, p, hash)
  /\ UNCHANGED <<will_versions, active_version>>

Renewed(p, hash) ==
  /\ ~ActiveIsFinalized(p)
  /\ will_versions' = Put(will_versions, p, VersionsWithNew(p, hash))
  /\ active_version' = Put(active_version, p, Len(VersionsOf(p)) + 1)
  /\ vault_will' = Put(vault_will, p, hash)

VersionStep ==
  \/ UNCHANGED versionVars
  \/ \E p \in Nat, hash \in WillHash : Linked(p, hash) \/ Renewed(p, hash)

(* Every step of the records is one of these. *)
LEMMA StepsOfVersions ==
  ASSUME [RecordsNext]_<<vars, recordVars>>
  PROVE  VersionStep /\ will_finalized \subseteq will_finalized'
<1> DEFINE Goal == VersionStep /\ will_finalized \subseteq will_finalized'
<1>1. ASSUME UNCHANGED willVars PROVE Goal
  BY <1>1 DEF willVars, VersionStep
<1>2. ASSUME WillNext PROVE Goal
  <2>1. PlanId \subseteq Nat /\ StoredHash \cup VersionHash \subseteq WillHash
    BY RecordsAssumption DEF PlanId
  <2>2. ASSUME UNCHANGED versionVars, will_finalized \subseteq will_finalized' PROVE Goal
    BY <2>2 DEF VersionStep
  <2>3. ASSUME NEW p \in PlanId, NEW caller \in Address, NEW hash \in StoredHash,
               LinkWillToVault(caller, p, hash)
        PROVE  Goal
    <3>1. Linked(p, hash) /\ will_finalized' = will_finalized
      BY <2>3 DEF LinkWillToVault, Linked
    <3> QED BY <2>1, <3>1, Zenon DEF VersionStep
  <2>4. ASSUME NEW p \in PlanId, NEW caller \in Address, NEW hash \in VersionHash,
               CreateWillVersion(caller, p, hash)
        PROVE  Goal
    <3>1. Renewed(p, hash) /\ will_finalized' = will_finalized
      BY <2>4 DEF CreateWillVersion, Renewed
    <3> QED BY <2>1, <3>1, Zenon DEF VersionStep
  <2>5. ASSUME NEW p \in PlanId, NEW caller \in Address,
               \/ \E hash \in StoredHash : StoreWillHash(caller, p, hash)
               \/ \E hash \in SignedHash : SignWill(caller, p, hash)
               \/ \E v \in 1..MaxVersions : FinalizeWill(caller, p, v)
               \/ \E witness \in Witness : AddWitness(caller, p, witness)
               \/ SignAsWitness(caller, p)
        PROVE  Goal
    BY <2>2, <2>5
    DEF StoreWillHash, SignWill, FinalizeWill, AddWitness, SignAsWitness
  <2>6. ASSUME NEW p \in PlanId, NEW will \in WillList, VerifyBeneficiaries(p, will)
        PROVE  Goal
    BY <2>2, <2>6 DEF VerifyBeneficiaries
  <2> HIDE DEF Goal
  <2> QED BY <1>2, <2>3, <2>4, <2>5, <2>6 DEF WillNext
<1>3. ASSUME MessageNext \/ NoticeNext PROVE Goal
  BY <1>1, <1>3 DEF MessageNext, NoticeNext
<1> HIDE DEF Goal
<1>4. Goal
  BY <1>1, <1>2, <1>3 DEF RecordsNext, recordVars
<1> QED BY <1>4 DEF Goal

(* The new version is the last one and the only active one. *)
LEMMA NewVersionIsActive ==
  ASSUME WillInv, NEW p \in Nat, NEW hash \in WillHash,
         NEW old, old = VersionsOf(p), NEW new, new = VersionsWithNew(p, hash)
  PROVE  /\ Len(old) \in Nat
         /\ new \in Seq(WillVersionInfo)
         /\ Len(new) = Len(old) + 1
         /\ new[Len(new)].will_hash = hash
         /\ \A v \in DOMAIN new : new[v].is_active <=> v = Len(new)
<1>1. old \in Seq(WillVersionInfo)
  BY DEF WillInv, VersionsTyped, VersionsOf, IsMap
<1>2. \A v \in 1..Len(old) : old[v] \in WillVersionInfo /\ old[v].is_active \in BOOLEAN
  <2>1. \A v \in 1..Len(old) : old[v] \in WillVersionInfo
    BY <1>1
  <2>2. \A info \in WillVersionInfo : info.is_active \in BOOLEAN
    BY DEF WillVersionInfo
  <2> QED BY <2>1, <2>2
<1>3. ASSUME NEW v \in 1..Len(old) PROVE old[v].is_active <=> IsActiveVersion(p, v)
  <2>1. p \in DOMAIN will_versions /\ old = will_versions[p]
    BY <1>3 DEF VersionsOf
  <2>2. v \in DOMAIN will_versions[p]
    BY <2>1, <1>1
  <2>3. p \in DOMAIN active_version /\ (will_versions[p][v].is_active <=> v = active_version[p])
    BY <2>1, <2>2 DEF WillInv, ActiveWillIsLinked
  <2> QED BY <2>1, <2>3 DEF IsActiveVersion
<1>4. new = [v \in 1..(Len(old) + 1) |->
               IF v = Len(old) + 1 THEN [will_hash |-> hash, is_active |-> TRUE]
               ELSE IF IsActiveVersion(p, v) THEN [old[v] EXCEPT !.is_active = FALSE]
               ELSE old[v]]
  BY DEF VersionsWithNew
<1>5. ASSUME NEW v \in 1..(Len(old) + 1)
      PROVE  new[v] \in WillVersionInfo /\ (new[v].is_active <=> v = Len(old) + 1)
  <2>1. CASE v = Len(old) + 1
    <3>1. new[v] = [will_hash |-> hash, is_active |-> TRUE]
      BY <1>4, <2>1
    <3> QED BY <3>1, <2>1 DEF WillVersionInfo
  <2>2. CASE v # Len(old) + 1
    <3>1. v \in 1..Len(old)
      BY <1>1, <2>2
    <3>2. new[v] = IF IsActiveVersion(p, v) THEN [old[v] EXCEPT !.is_active = FALSE]
                   ELSE old[v]
      BY <1>4, <2>2
    <3>3. CASE IsActiveVersion(p, v)
      BY <3>1, <3>2, <3>3, <1>2, <2>2 DEF WillVersionInfo
    <3>4. CASE ~IsActiveVersion(p, v)
      BY <3>1, <3>2, <3>4, <1>2, <1>3, <2>2
    <3> QED BY <3>3, <3>4
  <2> QED BY <2>1, <2>2
<1>6. Len(old) \in Nat /\ Len(old) + 1 \in Nat
  BY <1>1
<1>7. new \in [1..(Len(old) + 1) -> WillVersionInfo]
  BY <1>4, <1>5
<1>8. new \in Seq(WillVersionInfo) /\ Len(new) = Len(old) + 1
  BY <1>6, <1>7
<1>9. new[Len(old) + 1].will_hash = hash
  BY <1>4, <1>6
<1> HIDE DEF VersionsWithNew
<1>10. \A v \in DOMAIN new : new[v].is_active <=> v = Len(new)
  BY <1>5, <1>7, <1>8
<1> QED BY <1>6, <1>8, <1>9, <1>10

(* The step keeps the invariant. *)
LEMMA VersionsStayLinked ==
  ASSUME WillInv, VersionStep
  PROVE  WillInv'
<1>1. CASE UNCHANGED versionVars
  BY <1>1 DEF versionVars, WillInv, VersionsTyped, ActiveWillIsLinked
<1>2. ASSUME NEW p \in Nat, NEW hash \in WillHash, Linked(p, hash)
      PROVE  WillInv'
  <2>1. \A q \in DOMAIN vault_will :
          q \in DOMAIN vault_will' /\ vault_will'[q] = vault_will[q]
    BY <1>2 DEF Linked, Put
  <2>2. VersionsTyped'
    BY <1>2 DEF Linked, WillInv, VersionsTyped
  <2>3. ActiveWillIsLinked'
    BY <1>2, <2>1 DEF Linked, WillInv, ActiveWillIsLinked
  <2> QED BY <2>2, <2>3 DEF WillInv
<1>3. ASSUME NEW p \in Nat, NEW hash \in WillHash, Renewed(p, hash)
      PROVE  WillInv'
  <2> DEFINE old == VersionsOf(p)
             new == VersionsWithNew(p, hash)
  <2>1. /\ Len(old) \in Nat
        /\ new \in Seq(WillVersionInfo)
        /\ Len(new) = Len(old) + 1
        /\ new[Len(new)].will_hash = hash
        /\ \A v \in DOMAIN new : new[v].is_active <=> v = Len(new)
    BY NewVersionIsActive
  <2>2. /\ will_versions' = Put(will_versions, p, new)
        /\ active_version' = Put(active_version, p, Len(new))
        /\ vault_will' = Put(vault_will, p, hash)
    BY <1>3, <2>1 DEF Renewed
  <2> HIDE DEF old, new
  <2>3. VersionsTyped'
    <3>1. IsMap(will_versions', Nat, Seq(WillVersionInfo))
      BY <2>1, <2>2 DEF WillInv, VersionsTyped, IsMap, Put
    <3> QED BY <2>2, <3>1 DEF WillInv, VersionsTyped, Put
  <2>4. ASSUME NEW q \in DOMAIN will_versions', q = p
        PROVE  /\ q \in DOMAIN active_version' /\ q \in DOMAIN vault_will'
               /\ active_version'[q] = Len(will_versions'[q])
               /\ \A v \in DOMAIN will_versions'[q] :
                    will_versions'[q][v].is_active <=> v = active_version'[q]
               /\ vault_will'[q] = will_versions'[q][active_version'[q]].will_hash
    <3>1. /\ q \in DOMAIN active_version' /\ q \in DOMAIN vault_will'
          /\ will_versions'[q] = new /\ active_version'[q] = Len(new)
          /\ vault_will'[q] = hash
      BY <2>2, <2>4 DEF Put
    <3> QED BY <2>1, <3>1
  <2>5. ASSUME NEW q \in DOMAIN will_versions', q # p
        PROVE  /\ q \in DOMAIN active_version' /\ q \in DOMAIN vault_will'
               /\ active_version'[q] = Len(will_versions'[q])
               /\ \A v \in DOMAIN will_versions'[q] :
                    will_versions'[q][v].is_active <=> v = active_version'[q]
               /\ vault_will'[q] = will_versions'[q][active_version'[q]].will_hash
    <3>1. /\ q \in DOMAIN will_versions /\ will_versions'[q] = will_versions[q]
          /\ q \in DOMAIN active_version =>
               q \in DOMAIN active_version' /\ active_version'[q] = active_version[q]
          /\ q \in DOMAIN vault_will =>
               q \in DOMAIN vault_will' /\ vault_will'[q] = vault_will[q]
      BY <2>2, <2>5 DEF Put
    <3> QED BY <3>1 DEF WillInv, ActiveWillIsLinked
  <2>6. ActiveWillIsLinked'
    BY <2>4, <2>5, Zenon DEF ActiveWillIsLinked
  <2> QED BY <2>3, <2>6 DEF WillInv
<1> QED BY <1>1, <1>2, <1>3 DEF VersionStep

(* The invariant holds in every state. *)
LEMMA WillInvHolds == RecordsSpec => []WillInv
<1>1. RecordsInit => WillInv
  BY DEF RecordsInit, WillInit, WillInv, VersionsTyped, ActiveWillIsLinked, IsMap, EmptyMap
<1>2. WillInv /\ [RecordsNext]_<<vars, recordVars>> => WillInv'
  BY StepsOfVersions, VersionsStayLinked
<1> QED BY <1>1, <1>2, PTL DEF RecordsSpec

(* In every execution the will linked to a vault is the newest version of  *)
(* its will, the only active one, however links and new versions are mixed *)
(* (link_will_to_vault, create_will_version).                              *)
THEOREM LinkedWill == RecordsSpec => []ActiveWillIsLinked
<1>1. WillInv => ActiveWillIsLinked
  BY DEF WillInv
<1> QED BY <1>1, WillInvHolds, PTL

-----------------------------------------------------------------------------
(* A finalized will stays. *)

WillKept(p) ==
  /\ p \in DOMAIN active_version'
  /\ active_version'[p] = active_version[p]
  /\ <<p, active_version[p]>> \in will_finalized'
  /\ will_versions'[p] = will_versions[p]
  /\ vault_will'[p] = vault_will[p]

(* No step takes a finalized will away. *)
LEMMA FinalizedIsKept ==
  ASSUME WillInv, [RecordsNext]_<<vars, recordVars>>, NEW p, ActiveIsFinalized(p)
  PROVE  WillKept(p)
<1>1. VersionStep /\ will_finalized \subseteq will_finalized'
  BY StepsOfVersions
<1>2. <<p, active_version[p]>> \in will_finalized' /\ p \in DOMAIN active_version
  BY <1>1 DEF ActiveIsFinalized, IsFinalized
<1>3. p \in DOMAIN will_versions /\ p \in DOMAIN vault_will
  BY <1>2 DEF WillInv, VersionsTyped, ActiveWillIsLinked
<1>4. CASE UNCHANGED versionVars
  BY <1>2, <1>4 DEF versionVars, WillKept
<1>5. ASSUME NEW q \in Nat, NEW hash \in WillHash, Linked(q, hash) PROVE WillKept(p)
  BY <1>2, <1>3, <1>5 DEF Linked, Put, WillKept
<1>6. ASSUME NEW q \in Nat, NEW hash \in WillHash, Renewed(q, hash) PROVE WillKept(p)
  <2>1. p # q
    BY <1>6 DEF Renewed
  <2> QED BY <1>2, <1>3, <1>6, <2>1 DEF Renewed, Put, WillKept
<1> QED BY <1>1, <1>4, <1>5, <1>6 DEF VersionStep

(* A will whose active version is finalized is final: no call of anybody,  *)
(* a later owner of the plan included, replaces the version, its hash or   *)
(* the link to it (finalize_will, create_will_version).                    *)
THEOREM SettledWill == RecordsSpec => FinalizedWillStays
<1>1. WillInv /\ [RecordsNext]_<<vars, recordVars>> =>
        [\A p \in PlanId :
           ActiveIsFinalized(p) =>
             /\ p \in DOMAIN active_version'
             /\ active_version'[p] = active_version[p]
             /\ <<p, active_version[p]>> \in will_finalized'
             /\ will_versions'[p] = will_versions[p]
             /\ vault_will'[p] = vault_will[p]]_<<vars, recordVars>>
  BY FinalizedIsKept DEF WillKept
<1> QED BY <1>1, WillInvHolds, PTL DEF RecordsSpec, FinalizedWillStays

-----------------------------------------------------------------------------
(* Messages: the box of the calls that create them holds the messages, the *)
(* lists of the vaults and the next identifier.                            *)

Boxes == [messages : Maps(Nat, LegacyMessage), lists : Maps(Nat, Seq(Nat)), next : Nat]

(* A list names messages of its vault, each once and oldest first. *)
ListSound(list, p, letters) ==
  /\ list \in Seq(Nat) /\ Ascending(list)
  /\ \A id : InSeq(list, id) => id \in DOMAIN letters /\ letters[id].vault_id = p

Listed(box, id) ==
  /\ id < box.next
  /\ InSeq(VaultMessagesIn(box.lists, box.messages[id].vault_id), id)

BoxSound(box) ==
  /\ box \in Boxes
  /\ \A p \in DOMAIN box.lists : ListSound(box.lists[p], p, box.messages)
  /\ \A id \in DOMAIN box.messages : Listed(box, id)

(* New messages leave the others alone and are not unlocked. *)
Carries(new, old) ==
  /\ \A id \in DOMAIN old : id \in DOMAIN new /\ new[id] = old[id]
  /\ \A id \in DOMAIN new \ DOMAIN old : ~new[id].is_unlocked

(* A member of Maps is a typed map. *)
LEMMA MapIsTyped ==
  ASSUME NEW Key, NEW Value, NEW map, map \in Maps(Key, Value)
  PROVE  IsMap(map, Key, Value)
BY DEF Maps, IsMap

(* A typed map is a member of Maps. *)
LEMMA TypedIsMap ==
  ASSUME NEW Key, NEW Value, NEW map, IsMap(map, Key, Value)
  PROVE  map \in Maps(Key, Value)
<1>1. map \in [DOMAIN map -> Value] /\ DOMAIN map \in SUBSET Key
  BY DEF IsMap
<1> QED BY <1>1 DEF Maps

(* The parts of a sound box. *)
LEMMA BoxParts ==
  ASSUME NEW box, BoxSound(box)
  PROVE  /\ IsMap(box.messages, Nat, LegacyMessage) /\ IsMap(box.lists, Nat, Seq(Nat))
         /\ box.next \in Nat
         /\ \A p : ListSound(VaultMessagesIn(box.lists, p), p, box.messages)
         /\ \A p : AllBelow(VaultMessagesIn(box.lists, p), box.next)
<1>1. box.messages \in Maps(Nat, LegacyMessage) /\ box.lists \in Maps(Nat, Seq(Nat))
      /\ box.next \in Nat
  BY DEF BoxSound, Boxes
<1>2. ASSUME NEW p PROVE ListSound(VaultMessagesIn(box.lists, p), p, box.messages)
  <2>1. CASE p \in DOMAIN box.lists
    BY <2>1 DEF BoxSound, VaultMessagesIn
  <2>2. CASE p \notin DOMAIN box.lists
    BY <2>2 DEF VaultMessagesIn, ListSound, Ascending, InSeq
  <2> QED BY <2>1, <2>2
<1>3. ASSUME NEW p, NEW id, InSeq(VaultMessagesIn(box.lists, p), id) PROVE id < box.next
  BY <1>2, <1>3 DEF ListSound, BoxSound, Listed
<1> QED BY <1>1, <1>2, <1>3, MapIsTyped DEF AllBelow

(* A box with one message more. *)
LEMMA MessageAdded ==
  ASSUME NEW box, BoxSound(box), NEW m, m \in LegacyMessage, ~m.is_unlocked,
         NEW new, NEW p, p = m.vault_id,
         new = [messages |-> Put(box.messages, box.next, m),
                lists    |-> Put(box.lists, p, Append(VaultMessagesIn(box.lists, p), box.next)),
                next     |-> box.next + 1]
  PROVE  BoxSound(new) /\ Carries(new.messages, box.messages)
<1> DEFINE next == box.next
           old == VaultMessagesIn(box.lists, p)
           list == Append(old, next)
           letters == box.messages
           more == Put(letters, next, m)
           lists == Put(box.lists, p, list)
<1>1. /\ IsMap(letters, Nat, LegacyMessage) /\ IsMap(box.lists, Nat, Seq(Nat)) /\ next \in Nat
      /\ ListSound(old, p, letters) /\ AllBelow(old, next)
      /\ p \in Nat
  BY BoxParts DEF LegacyMessage
<1>2. /\ list \in Seq(Nat) /\ Ascending(list)
      /\ \A id : InSeq(list, id) <=> InSeq(old, id) \/ id = next
  <2>1. old \in Seq(Nat) /\ Ascending(old)
    BY <1>1 DEF ListSound
  <2>2. IsSeq(old) /\ list = Append(old, next) /\ list \in Seq(Nat)
    BY <1>1, <2>1 DEF IsSeq
  <2> HIDE DEF old, next, list
  <2>3. /\ \A x : InSeq(list, x) <=> InSeq(old, x) \/ x = next
        /\ Ascending(old) /\ AllBelow(old, next) => Ascending(list)
    BY <2>2, AppendKeeps
  <2> QED BY <1>1, <2>1, <2>2, <2>3
<1> HIDE DEF list, old, next
<1>3. /\ DOMAIN more = DOMAIN letters \cup {next} /\ more[next] = m
      /\ \A id \in DOMAIN letters : id < next /\ id # next /\ more[id] = letters[id]
  <2>1. \A id \in DOMAIN letters : id < next /\ id \in Nat
    BY <1>1 DEF BoxSound, Listed, IsMap, next
  <2> QED BY <1>1, <2>1 DEF Put
<1>4. /\ DOMAIN lists = DOMAIN box.lists \cup {p} /\ lists[p] = list
      /\ \A q \in DOMAIN box.lists : q # p => lists[q] = box.lists[q]
  BY DEF Put
<1>5. new.messages = more /\ new.lists = lists /\ new.next = next + 1
  BY DEF list, old, next
<1>6. new \in Boxes
  <2>1. IsMap(more, Nat, LegacyMessage) /\ IsMap(lists, Nat, Seq(Nat))
    BY <1>1, <1>2, PutIsMap
  <2>2. more \in Maps(Nat, LegacyMessage) /\ lists \in Maps(Nat, Seq(Nat))
    BY <2>1, TypedIsMap
  <2>3. next + 1 \in Nat
    BY <1>1
  <2>4. new = [messages |-> more, lists |-> lists, next |-> next + 1]
    BY DEF list, old, next
  <2> HIDE DEF more, lists
  <2> QED BY <2>2, <2>3, <2>4 DEF Boxes
<1> HIDE DEF more, lists
<1>7. ASSUME NEW q \in DOMAIN lists PROVE ListSound(lists[q], q, more)
  <2>1. CASE q = p
    BY <1>1, <1>2, <1>3, <1>4, <2>1 DEF ListSound
  <2>2. CASE q # p
    <3>1. ListSound(box.lists[q], q, letters) /\ lists[q] = box.lists[q]
      BY <1>4, <2>2 DEF BoxSound
    <3> QED BY <1>3, <3>1 DEF ListSound
  <2> QED BY <2>1, <2>2
<1>8. ASSUME NEW id \in DOMAIN more PROVE Listed(new, id)
  <2> DEFINE q == more[id].vault_id
  <2>1. id < next + 1
    <3>1. id = next \/ (id \in Nat /\ id < next)
      BY <1>1, <1>3 DEF IsMap
    <3> QED BY <1>1, <3>1
  <2>2. InSeq(VaultMessagesIn(lists, q), id)
    <3>1. CASE id = next
      <4>1. q = p
        BY <1>3, <3>1
      <4> QED BY <1>2, <1>4, <3>1, <4>1 DEF VaultMessagesIn
    <3>2. CASE id \in DOMAIN letters
      <4>1. q = letters[id].vault_id /\ InSeq(VaultMessagesIn(box.lists, q), id)
        BY <1>3, <3>2 DEF BoxSound, Listed
      <4> HIDE DEF q
      <4>2. CASE q = p
        BY <1>2, <1>4, <4>1, <4>2 DEF VaultMessagesIn, old
      <4>3. CASE q # p
        BY <1>4, <4>1, <4>3 DEF VaultMessagesIn
      <4> QED BY <4>2, <4>3
    <3> QED BY <1>3, <3>1, <3>2
  <2> QED BY <1>5, <2>1, <2>2 DEF Listed
<1>9. Carries(more, letters)
  BY <1>3 DEF Carries
<1> QED BY <1>5, <1>6, <1>7, <1>8, <1>9 DEF BoxSound

Entries == [vault_id : Nat, content : Content, unlock_timestamp : Nat]

(* create_legacy_message adds a message to a sound box. *)
LEMMA CreatedBox ==
  ASSUME NEW box, BoxSound(box), NEW creator, creator \in Address,
         NEW params, params \in Entries, NEW new, new = WithMessage(box, creator, params)
  PROVE  BoxSound(new) /\ Carries(new.messages, box.messages)
<1> DEFINE m == NewMessage(creator, params)
           p == params.vault_id
<1>1. m \in LegacyMessage /\ ~m.is_unlocked /\ p = m.vault_id
  BY DEF NewMessage, LegacyMessage, Entries
<1>2. new = [messages |-> Put(box.messages, box.next, m),
             lists    |-> Put(box.lists, p, Append(VaultMessagesIn(box.lists, p), box.next)),
             next     |-> box.next + 1]
  BY DEF WithMessage
<1> HIDE DEF m, p
<1> QED BY <1>1, <1>2, MessageAdded

(* The box after 0, 1, ... entries of a batch. *)
Batched(creator, list) ==
  CHOOSE f : f = [k \in 0..Len(list) |->
                    IF k = 0 THEN Box
                    ELSE IF CanCreateMessage(creator, list[k])
                         THEN WithMessage(f[k - 1], creator, list[k])
                         ELSE f[k - 1]]

(* What one call after the other carries, they carry together. *)
LEMMA CarriesOn ==
  ASSUME NEW a, NEW b, NEW c, Carries(b, a), Carries(c, b)
  PROVE  Carries(c, a)
BY DEF Carries

(* batch_create_messages leaves a sound box, whatever entries it skips. *)
LEMMA BatchedBox ==
  ASSUME BoxSound(Box), NEW creator, creator \in Address,
         NEW list, list \in Seq(Entries), NEW new, new = BoxAfterBatch(creator, list)
  PROVE  BoxSound(new) /\ Carries(new.messages, messages)
<1> DEFINE n == Len(list)
           S == {b \in Boxes : BoxSound(b) /\ Carries(b.messages, messages)}
           Next1(i, b) == IF CanCreateMessage(creator, list[i])
                          THEN WithMessage(b, creator, list[i]) ELSE b
           step == [t \in (1..n) \X S |-> Next1(t[1], t[2])]
           g == Iterate(n, step, Box)
           f == Batched(creator, list)
<1>1. n \in Nat /\ \A i \in 1..n : list[i] \in Entries
  OBVIOUS
<1> HIDE DEF n
<1>2. Box \in S
  BY DEF BoxSound, Carries, Box
<1>3. ASSUME NEW i \in 1..n, NEW b \in S PROVE Next1(i, b) \in S
  <2> DEFINE made == WithMessage(b, creator, list[i])
  <2>1. made = WithMessage(b, creator, list[i]) /\ list[i] \in Entries
    BY <1>1
  <2> HIDE DEF made
  <2>2. BoxSound(made) /\ Carries(made.messages, b.messages)
    BY <2>1, CreatedBox
  <2>3. made \in S
    BY <2>2, CarriesOn DEF BoxSound
  <2> HIDE DEF S
  <2> QED BY <2>1, <2>3
<1>4. step \in [(1..n) \X S -> S]
  <2> HIDE DEF S, Next1
  <2> QED BY <1>3
<1>5. \A i \in 1..n, b \in S : step[<<i, b>>] = Next1(i, b)
  <2> HIDE DEF S, Next1
  <2> QED OBVIOUS
<1>6. g = Iterate(n, step, Box)
  OBVIOUS
<1> HIDE DEF g, step, S, Next1
<1>7. g = [i \in 0..n |-> IF i = 0 THEN Box ELSE step[<<i, g[i - 1]>>]]
  BY <1>1, <1>6, IterateDef
<1>8. \A k \in 0..n : g[k] \in S
  BY <1>1, <1>2, <1>4, <1>6, IterateIn
<1>9. ASSUME NEW i \in 0..n PROVE g[i] = IF i = 0 THEN Box ELSE Next1(i, g[i - 1])
  <2>1. CASE i # 0
    <3>1. i \in 1..n /\ i - 1 \in 0..n
      BY <1>1, <2>1
    <3>2. g[i] = step[<<i, g[i - 1]>>]
      BY <1>7, <2>1
    <3> QED BY <1>5, <1>8, <2>1, <3>1, <3>2
  <2>2. CASE i = 0
    BY <1>7, <2>2
  <2> QED BY <2>1, <2>2
<1>10. g = [i \in 0..n |-> IF i = 0 THEN Box ELSE Next1(i, g[i - 1])]
  <2>1. g = [i \in 0..n |-> g[i]]
    BY <1>7
  <2> QED BY <2>1, <1>9
<1>11. f = [i \in 0..n |-> IF i = 0 THEN Box ELSE Next1(i, f[i - 1])]
  BY <1>10 DEF Batched, n, Next1
<1>12. f[0] = Box
  BY <1>1, <1>11
<1>13. ASSUME NEW k \in 1..n PROVE f[k] = Next1(k, f[k - 1])
  <2>1. k \in 0..n /\ k # 0
    BY <1>1
  <2> QED BY <1>11, <2>1
<1>14. new = f[n]
  BY DEF BoxAfterBatch, Batched, n
<1> HIDE DEF f
<1> DEFINE T == {k \in Nat : k <= n => f[k] \in S}
<1>15. 0 \in T
  BY <1>2, <1>12
<1>16. ASSUME NEW k \in Nat, k \in T PROVE k + 1 \in T
  <2> SUFFICES ASSUME k + 1 <= n PROVE f[k + 1] \in S
    OBVIOUS
  <2>1. k + 1 \in 1..n /\ (k + 1) - 1 = k /\ f[k] \in S
    BY <1>1, <1>16
  <2>2. f[k + 1] = Next1(k + 1, f[k])
    BY <1>13, <2>1
  <2> QED BY <1>3, <2>1, <2>2
<1>17. Nat \subseteq T
  <2> HIDE DEF T
  <2> QED BY <1>15, <1>16, SetInduction
<1>18. f[n] \in S
  BY <1>1, <1>17
<1> QED BY <1>14, <1>18 DEF S

-----------------------------------------------------------------------------
(* The messages of a step. *)

(* What an edited message keeps. *)
Edits(new, old) ==
  /\ new.vault_id = old.vault_id /\ new.creator = old.creator
  /\ old.is_finalized => new.is_finalized
  /\ old.is_unlocked => new.is_unlocked
  /\ old.is_finalized \/ old.is_unlocked =>
       /\ new.content = old.content
       /\ new.unlock_timestamp = old.unlock_timestamp

Settles ==
  \A id \in DOMAIN messages :
    /\ messages[id].is_finalized => id \in DOMAIN messages'
    /\ id \in DOMAIN messages' => Edits(messages'[id], messages[id])

Opens(id) ==
  messages'[id].is_unlocked /\ ~(id \in DOMAIN messages /\ messages[id].is_unlocked)

Reaches ==
  \A id \in DOMAIN messages' :
    Opens(id) =>
      /\ Triggered(messages'[id].vault_id)
      /\ \A other \in DOMAIN messages' :
           messages'[other].vault_id = messages'[id].vault_id =>
             messages'[other].is_unlocked

MessageStep == BoxSound(Box)' /\ Settles /\ Reaches

(* Some messages are edited, none comes or goes. *)
MessagesEdited ==
  /\ IsMap(messages', Nat, LegacyMessage) /\ DOMAIN messages' = DOMAIN messages
  /\ \A id \in DOMAIN messages : Edits(messages'[id], messages[id])
  /\ UNCHANGED <<next_message_id, vault_messages>>

(* The box of a state. *)
LEMMA BoxIs ==
  /\ Box.messages = messages /\ Box.lists = vault_messages /\ Box.next = next_message_id
  /\ Box' = [messages |-> messages', lists |-> vault_messages', next |-> next_message_id']
  /\ BoxSound(Box)' <=> BoxSound(Box')
<1>1. BoxSound(Box)' <=> BoxSound(Box')
  BY DEF BoxSound, Boxes, ListSound, Listed, Maps, VaultMessagesIn, InSeq, Ascending
<1> QED BY <1>1 DEF Box

(* An edit leaves a sound box. *)
LEMMA EditStep ==
  ASSUME BoxSound(Box), MessagesEdited
  PROVE  BoxSound(Box)' /\ Settles
<1> DEFINE old == Box
           new == [messages |-> messages', lists |-> vault_messages', next |-> next_message_id']
<1>1. /\ old.messages = messages /\ old.lists = vault_messages /\ old.next = next_message_id
      /\ old \in Boxes
      /\ \A p \in DOMAIN vault_messages : ListSound(vault_messages[p], p, messages)
      /\ \A id \in DOMAIN messages : Listed(old, id)
  BY DEF Box, BoxSound
<1>2. new.messages = messages' /\ new.lists = old.lists /\ new.next = old.next
  BY <1>1 DEF MessagesEdited
<1>3. new \in Boxes
  <2>1. messages' \in Maps(Nat, LegacyMessage)
    BY TypedIsMap DEF MessagesEdited
  <2>2. old.lists \in Maps(Nat, Seq(Nat)) /\ old.next \in Nat
    BY <1>1 DEF Boxes
  <2> QED BY <1>1, <2>1, <2>2 DEF Boxes, MessagesEdited
<1> HIDE DEF old, new
<1>4. ASSUME NEW p \in DOMAIN new.lists PROVE ListSound(new.lists[p], p, new.messages)
  BY <1>1, <1>2 DEF ListSound, MessagesEdited, Edits
<1>5. ASSUME NEW id \in DOMAIN new.messages PROVE Listed(new, id)
  <2>1. /\ id \in DOMAIN messages /\ Listed(old, id)
        /\ new.messages[id].vault_id = messages[id].vault_id
    BY <1>1, <1>2 DEF MessagesEdited, Edits
  <2> QED BY <1>1, <1>2, <2>1 DEF Listed
<1>6. BoxSound(new)
  BY <1>3, <1>4, <1>5 DEF BoxSound
<1>7. BoxSound(Box)'
  BY <1>6, BoxIs DEF new
<1>8. Settles
  BY DEF Settles, MessagesEdited
<1> QED BY <1>7, <1>8

(* update_legacy_message and finalize_legacy_message unlock nothing. *)
LEMMA EditedOnce ==
  ASSUME BoxSound(Box), NEW id, NEW m, m \in LegacyMessage,
         id \in DOMAIN messages, Edits(m, messages[id]),
         m.is_unlocked = messages[id].is_unlocked,
         messages' = [messages EXCEPT ![id] = m],
         UNCHANGED <<next_message_id, vault_messages>>
  PROVE  MessageStep
<1>1. IsMap(messages, Nat, LegacyMessage)
  BY BoxParts, BoxIs
<1>2. IsMap(messages', Nat, LegacyMessage) /\ DOMAIN messages' = DOMAIN messages
  BY <1>1 DEF IsMap
<1>3. \A other \in DOMAIN messages :
        messages'[other] = IF other = id THEN m ELSE messages[other]
  OBVIOUS
<1>4. MessagesEdited
  BY <1>2, <1>3 DEF MessagesEdited, Edits
<1>5. Reaches
  BY <1>2, <1>3 DEF Reaches, Opens
<1> QED BY <1>4, <1>5, EditStep DEF MessageStep

(* unlock_messages_on_inheritance unlocks what the list names, which is    *)
(* every message of the vault.                                             *)
LEMMA UnlockStep ==
  ASSUME BoxSound(Box), NEW p, UnlockMessagesOnInheritance(p)
  PROVE  MessageStep
<1> DEFINE list == VaultMessages(p)
<1>1. IsMap(messages, Nat, LegacyMessage)
  BY BoxParts, BoxIs
<1>2. \A id \in DOMAIN messages : InSeq(list, id) <=> messages[id].vault_id = p
  <2>1. ListSound(VaultMessagesIn(vault_messages, p), p, messages)
    BY BoxParts, BoxIs
  <2>2. \A id \in DOMAIN messages :
          InSeq(VaultMessagesIn(vault_messages, messages[id].vault_id), id)
    BY BoxIs DEF BoxSound, Listed
  <2> QED BY <2>1, <2>2 DEF ListSound, VaultMessages
<1> HIDE DEF list
<1>3. /\ DOMAIN messages' = DOMAIN messages
      /\ messages' = [id \in DOMAIN messages |->
           IF InSeq(list, id) THEN [messages[id] EXCEPT !.is_unlocked = TRUE]
           ELSE messages[id]]
  BY DEF UnlockMessagesOnInheritance, list
<1>4. ASSUME NEW id \in DOMAIN messages
      PROVE  /\ messages'[id] \in LegacyMessage /\ Edits(messages'[id], messages[id])
             /\ messages'[id].vault_id = messages[id].vault_id
             /\ messages'[id].is_unlocked <=>
                  messages[id].vault_id = p \/ messages[id].is_unlocked
  <2>1. messages[id] \in LegacyMessage
    BY <1>1 DEF IsMap
  <2>2. CASE InSeq(list, id)
    BY <1>2, <1>3, <2>1, <2>2 DEF LegacyMessage, Edits
  <2>3. CASE ~InSeq(list, id)
    BY <1>2, <1>3, <2>1, <2>3 DEF LegacyMessage, Edits
  <2> QED BY <2>2, <2>3
<1>5. MessagesEdited
  <2>1. IsMap(messages', Nat, LegacyMessage)
    BY <1>1, <1>3, <1>4 DEF IsMap
  <2> QED BY <2>1, <1>3, <1>4 DEF MessagesEdited, UnlockMessagesOnInheritance
<1>6. Reaches
  <2>1. Triggered(p)
    BY DEF UnlockMessagesOnInheritance
  <2>2. \A id \in DOMAIN messages : Opens(id) => messages[id].vault_id = p
    BY <1>4 DEF Opens
  <2>3. ASSUME NEW id \in DOMAIN messages', Opens(id)
        PROVE  /\ Triggered(messages'[id].vault_id)
               /\ \A other \in DOMAIN messages' :
                    messages'[other].vault_id = messages'[id].vault_id =>
                      messages'[other].is_unlocked
    <3>1. messages'[id].vault_id = p
      BY <1>3, <1>4, <2>2, <2>3
    <3> QED BY <1>3, <1>4, <2>1, <3>1
  <2> QED BY <2>3 DEF Reaches
<1> QED BY <1>5, <1>6, EditStep DEF MessageStep

(* delete_legacy_message takes the message from the list of its vault,     *)
(* and no other list names it.                                             *)
LEMMA DeleteStep ==
  ASSUME BoxSound(Box), NEW creator, NEW id, id \in DOMAIN messages,
         DeleteLegacyMessage(creator, id)
  PROVE  MessageStep
<1> DEFINE p == messages[id].vault_id
           old == VaultMessagesIn(vault_messages, p)
           list == Without(old, {id})
           lists == Put(vault_messages, p, list)
           letters == Drop(messages, id)
           new == [messages |-> letters, lists |-> lists, next |-> next_message_id]
<1>1. /\ IsMap(messages, Nat, LegacyMessage) /\ IsMap(vault_messages, Nat, Seq(Nat))
      /\ next_message_id \in Nat
      /\ ListSound(old, p, messages)
  BY BoxParts, BoxIs
<1>2. /\ \A q \in DOMAIN vault_messages : ListSound(vault_messages[q], q, messages)
      /\ \A other \in DOMAIN messages :
           /\ other < next_message_id
           /\ InSeq(VaultMessagesIn(vault_messages, messages[other].vault_id), other)
  BY BoxIs DEF BoxSound, Listed
<1>3. /\ messages' = letters /\ vault_messages' = lists
      /\ next_message_id' = next_message_id /\ ~messages[id].is_finalized
  BY DEF DeleteLegacyMessage, VaultMessages
<1>4. /\ list \in Seq(Nat) /\ Ascending(list)
      /\ \A x : InSeq(list, x) <=> InSeq(old, x) /\ x # id
  <2>1. old \in ListOf(Nat) /\ Ascending(old) /\ list = Without(old, {id})
    BY <1>1 DEF ListSound, ListOf
  <2> HIDE DEF old, list
  <2>2. /\ list \in ListOf(Nat)
        /\ \A x : InSeq(list, x) <=> InSeq(old, x) /\ x \notin {id}
        /\ Ascending(old) => Ascending(list)
    BY <2>1, WithoutKeeps
  <2> QED BY <2>1, <2>2 DEF ListOf
<1>5. p \in Nat
  BY <1>1 DEF IsMap, LegacyMessage
<1> HIDE DEF list, old, p
<1>6. /\ DOMAIN letters = DOMAIN messages \ {id}
      /\ \A other \in DOMAIN letters : letters[other] = messages[other]
      /\ DOMAIN lists = DOMAIN vault_messages \cup {p} /\ lists[p] = list
      /\ \A q \in DOMAIN vault_messages : q # p => lists[q] = vault_messages[q]
  BY DEF Drop, Put
<1>7. new \in Boxes
  <2>1. IsMap(lists, Nat, Seq(Nat))
    BY <1>1, <1>4, <1>5, PutIsMap
  <2>2. IsMap(letters, Nat, LegacyMessage)
    BY <1>1 DEF IsMap, Drop
  <2>3. letters \in Maps(Nat, LegacyMessage) /\ lists \in Maps(Nat, Seq(Nat))
    BY <2>1, <2>2, TypedIsMap
  <2> HIDE DEF letters, lists
  <2> QED BY <1>1, <2>3 DEF Boxes
<1>8. new.messages = letters /\ new.lists = lists /\ new.next = next_message_id
  OBVIOUS
<1> HIDE DEF letters, lists, new
<1>9. ASSUME NEW q \in DOMAIN lists PROVE ListSound(lists[q], q, letters)
  <2>1. CASE q = p
    BY <1>1, <1>4, <1>6, <2>1 DEF ListSound
  <2>2. CASE q # p
    <3>1. ListSound(vault_messages[q], q, messages) /\ lists[q] = vault_messages[q]
      BY <1>2, <1>6, <2>2
    <3> QED BY <1>6, <2>2, <3>1 DEF ListSound, p
  <2> QED BY <2>1, <2>2
<1>10. ASSUME NEW other \in DOMAIN letters PROVE Listed(new, other)
  <2> DEFINE q == letters[other].vault_id
  <2>1. /\ other < next_message_id /\ other # id
        /\ InSeq(VaultMessagesIn(vault_messages, q), other)
    BY <1>2, <1>6
  <2> HIDE DEF q
  <2>2. InSeq(VaultMessagesIn(lists, q), other)
    <3>1. CASE q = p
      BY <1>4, <1>6, <2>1, <3>1 DEF VaultMessagesIn, old
    <3>2. CASE q # p
      BY <1>6, <2>1, <3>2 DEF VaultMessagesIn
    <3> QED BY <3>1, <3>2
  <2> QED BY <1>8, <2>1, <2>2 DEF Listed, q
<1>11. BoxSound(new)
  BY <1>7, <1>8, <1>9, <1>10 DEF BoxSound
<1>12. BoxSound(Box)'
  BY <1>3, <1>11, BoxIs DEF new
<1>13. Settles
  BY <1>3, <1>6 DEF Settles, Edits
<1>14. Reaches
  BY <1>3, <1>6 DEF Reaches, Opens
<1> QED BY <1>12, <1>13, <1>14 DEF MessageStep

(* A box stored with more messages. *)
LEMMA StoredStep ==
  ASSUME NEW new, BoxSound(new), Carries(new.messages, messages), StoreBox(new)
  PROVE  MessageStep
<1>1. new = [messages |-> new.messages, lists |-> new.lists, next |-> new.next]
  BY DEF BoxSound, Boxes
<1>2. BoxSound(Box)'
  BY <1>1, BoxIs DEF StoreBox
<1>3. Settles
  BY DEF Settles, Edits, Carries, StoreBox
<1>4. Reaches
  BY DEF Reaches, Opens, Carries, StoreBox
<1> QED BY <1>2, <1>3, <1>4 DEF MessageStep

(* Every step of the records is such a step. *)
LEMMA StepsOfMessages ==
  ASSUME BoxSound(Box), [RecordsNext]_<<vars, recordVars>>
  PROVE  MessageStep
<1>1. ASSUME UNCHANGED messageVars PROVE MessageStep
  <2>1. IsMap(messages, Nat, LegacyMessage)
    BY BoxParts, BoxIs
  <2>2. MessagesEdited /\ Reaches
    BY <1>1, <2>1 DEF messageVars, MessagesEdited, Edits, Reaches, Opens
  <2> QED BY <2>2, EditStep DEF MessageStep
<1>2. ASSUME MessageNext PROVE MessageStep
  <2>1. /\ MessageParams \cup UpdateParams \subseteq Entries
        /\ \A list \in MessageBatch : list \in Seq(Entries)
    BY RecordsAssumption DEF Entries
  <2>2. ASSUME NEW creator \in Address, NEW params \in MessageParams,
               CreateLegacyMessage(creator, params)
        PROVE  MessageStep
    <3> DEFINE new == WithMessage(Box, creator, params)
    <3>1. StoreBox(new) /\ params \in Entries
      BY <2>1, <2>2 DEF CreateLegacyMessage
    <3>2. new = WithMessage(Box, creator, params)
      OBVIOUS
    <3> HIDE DEF new
    <3>3. BoxSound(new) /\ Carries(new.messages, messages)
      BY <3>1, <3>2, CreatedBox, BoxIs
    <3> QED BY <3>1, <3>3, StoredStep
  <2>3. ASSUME NEW creator \in Address, NEW list \in MessageBatch,
               BatchCreateMessages(creator, list)
        PROVE  MessageStep
    <3> DEFINE new == BoxAfterBatch(creator, list)
    <3>1. StoreBox(new) /\ list \in Seq(Entries)
      BY <2>1, <2>3 DEF BatchCreateMessages
    <3>2. new = BoxAfterBatch(creator, list)
      OBVIOUS
    <3> HIDE DEF new
    <3>3. BoxSound(new) /\ Carries(new.messages, messages)
      BY <3>1, <3>2, BatchedBox
    <3> QED BY <3>1, <3>3, StoredStep
  <2>4. ASSUME NEW creator \in Address, NEW id \in DOMAIN messages,
               NEW params \in UpdateParams, UpdateLegacyMessage(creator, id, params)
        PROVE  MessageStep
    <3> DEFINE m == [messages[id] EXCEPT !.content = params.content,
                                         !.unlock_timestamp = params.unlock_timestamp]
    <3>1. messages[id] \in LegacyMessage /\ params \in Entries
      BY <2>1, BoxParts, BoxIs DEF IsMap
    <3>2. /\ m \in LegacyMessage /\ m.is_unlocked = messages[id].is_unlocked
          /\ Edits(m, messages[id])
      BY <2>4, <3>1 DEF UpdateLegacyMessage, LegacyMessage, Entries, Edits
    <3>3. /\ messages' = [messages EXCEPT ![id] = m]
          /\ UNCHANGED <<next_message_id, vault_messages>>
      BY <2>4 DEF UpdateLegacyMessage
    <3> HIDE DEF m
    <3> QED BY <3>2, <3>3, EditedOnce
  <2>5. ASSUME NEW creator \in Address, NEW id \in DOMAIN messages,
               FinalizeLegacyMessage(creator, id)
        PROVE  MessageStep
    <3> DEFINE m == [messages[id] EXCEPT !.is_finalized = TRUE]
    <3>1. messages[id] \in LegacyMessage
      BY BoxParts, BoxIs DEF IsMap
    <3>2. /\ m \in LegacyMessage /\ m.is_unlocked = messages[id].is_unlocked
          /\ Edits(m, messages[id])
      BY <3>1 DEF LegacyMessage, Edits
    <3>3. /\ messages' = [messages EXCEPT ![id] = m]
          /\ UNCHANGED <<next_message_id, vault_messages>>
      BY <2>5 DEF FinalizeLegacyMessage
    <3> HIDE DEF m
    <3> QED BY <3>2, <3>3, EditedOnce
  <2> QED BY <1>2, <2>2, <2>3, <2>4, <2>5, UnlockStep, DeleteStep DEF MessageNext
<1>3. ASSUME WillNext \/ NoticeNext PROVE MessageStep
  BY <1>1, <1>3 DEF WillNext, NoticeNext
<1> HIDE DEF MessageStep
<1> QED BY <1>1, <1>2, <1>3 DEF RecordsNext, recordVars

(* The box is sound in every state. *)
LEMMA BoxStaysSound == RecordsSpec => []BoxSound(Box)
<1>1. RecordsInit => BoxSound(Box)
  <2> SUFFICES ASSUME RecordsInit PROVE BoxSound(Box)
    OBVIOUS
  <2>1. IsMap(messages, Nat, LegacyMessage) /\ IsMap(vault_messages, Nat, Seq(Nat))
    BY DEF RecordsInit, MessageInit, EmptyMap, IsMap
  <2>2. Box \in Boxes
    BY <2>1, TypedIsMap DEF RecordsInit, MessageInit, Box, Boxes
  <2>3. DOMAIN messages = {} /\ DOMAIN vault_messages = {}
    BY DEF RecordsInit, MessageInit, EmptyMap
  <2> QED BY <2>2, <2>3, BoxIs DEF BoxSound
<1>2. BoxSound(Box) /\ [RecordsNext]_<<vars, recordVars>> => BoxSound(Box)'
  BY StepsOfMessages DEF MessageStep
<1> QED BY <1>1, <1>2, PTL DEF RecordsSpec

(* In every execution the list of a vault names its messages, each once    *)
(* and oldest first, and no message is left out of it, whatever single     *)
(* creations, batches and deletions are mixed (create_legacy_message,      *)
(* batch_create_messages, delete_legacy_message).                          *)
THEOREM MessagesIndexed == RecordsSpec => []MessageIndexAgrees
<1>1. ASSUME BoxSound(Box) PROVE MessageIndexAgrees
  <2>1. \A p \in DOMAIN vault_messages : ListSound(vault_messages[p], p, messages)
    BY <1>1, BoxIs DEF BoxSound
  <2>2. \A id \in DOMAIN messages :
          id < next_message_id /\ InSeq(VaultMessages(messages[id].vault_id), id)
    BY <1>1, BoxIs DEF BoxSound, Listed, VaultMessages
  <2>3. ASSUME NEW p \in DOMAIN vault_messages
        PROVE  LET list == vault_messages[p]
               IN  /\ \A i, j \in DOMAIN list : i < j => list[i] < list[j]
                   /\ \A i \in DOMAIN list :
                        list[i] \in DOMAIN messages /\ messages[list[i]].vault_id = p
    BY <2>1 DEF ListSound, Ascending, InSeq
  <2> QED BY <2>2, <2>3 DEF MessageIndexAgrees
<1>2. BoxSound(Box) => MessageIndexAgrees
  BY <1>1
<1> QED BY <1>2, BoxStaysSound, PTL

(* A finalized message is never deleted, and what a finalized or unlocked  *)
(* message says never changes, whoever calls what in whatever order        *)
(* (update_legacy_message, finalize_legacy_message, delete_legacy_message).*)
THEOREM MessagesStay == RecordsSpec => MessagesSettle
<1>1. BoxSound(Box) /\ [RecordsNext]_<<vars, recordVars>> =>
        [\A id \in DOMAIN messages :
           LET old == messages[id]
           IN  /\ old.is_finalized => id \in DOMAIN messages'
               /\ id \in DOMAIN messages' =>
                    LET new == messages'[id]
                    IN  /\ new.vault_id = old.vault_id
                        /\ new.creator = old.creator
                        /\ old.is_finalized => new.is_finalized
                        /\ old.is_unlocked => new.is_unlocked
                        /\ old.is_finalized \/ old.is_unlocked =>
                             /\ new.content = old.content
                             /\ new.unlock_timestamp = old.unlock_timestamp
         ]_<<vars, recordVars>>
  BY StepsOfMessages DEF MessageStep, Settles, Edits
<1> QED BY <1>1, BoxStaysSound, PTL DEF RecordsSpec, MessagesSettle

(* Messages are unlocked by the inheritance of their vault only, and no    *)
(* message of the vault is left behind (unlock_messages_on_inheritance).   *)
THEOREM UnlockingIsComplete == RecordsSpec => UnlockReachesEveryMessage
<1>1. BoxSound(Box) /\ [RecordsNext]_<<vars, recordVars>> =>
        [\A id \in DOMAIN messages' :
           messages'[id].is_unlocked
             /\ ~(id \in DOMAIN messages /\ messages[id].is_unlocked) =>
             /\ Triggered(messages'[id].vault_id)
             /\ \A other \in DOMAIN messages' :
                  messages'[other].vault_id = messages'[id].vault_id =>
                    messages'[other].is_unlocked]_<<vars, recordVars>>
  BY StepsOfMessages DEF MessageStep, Reaches, Opens
<1> QED BY <1>1, BoxStaysSound, PTL DEF RecordsSpec, UnlockReachesEveryMessage

-----------------------------------------------------------------------------
(* Types of the records.  The versions and the messages have theirs from   *)
(* the invariants above.                                                   *)

VaultsTyped == IsMap(vault_will, Nat, WillHash) /\ IsMap(active_version, Nat, Nat)

FinalizedTyped ==
  \A f \in will_finalized : f \in Nat \X Nat /\ f[2] \in DOMAIN VersionsOf(f[1])

DocumentsTyped == IsMap(will_hash, Nat, WillHash) /\ IsMap(verification, Nat, BOOLEAN)

SignaturesTyped ==
  /\ IsMap(will_signature, Nat, WillSignatureProof)
  /\ signature_used \subseteq Nat \X WillHash

WitnessesTyped ==
  /\ IsMap(witnesses, Nat, Seq(Address))
  /\ witness_signature \subseteq Nat \X Address

NoticesTyped ==
  /\ IsMap(notified_at, Nat \X Nat, Nat)
  /\ IsMap(acknowledged_at, DOMAIN notified_at, Nat)
  /\ IsMap(requires_ack, Nat, BOOLEAN)

WillsTyped ==
  VaultsTyped /\ FinalizedTyped /\ DocumentsTyped /\ SignaturesTyped /\ WitnessesTyped

(* The steps of the versions keep the types of links and finalizations     *)
(* that no step forgets.                                                   *)
LEMMA VaultsStayTyped ==
  ASSUME WillInv, VaultsTyped, VersionStep
  PROVE  /\ VaultsTyped'
         /\ \A p : \A v \in DOMAIN VersionsOf(p) : v \in DOMAIN VersionsOf(p)'
<1> DEFINE Goal == /\ VaultsTyped'
                   /\ \A p : \A v \in DOMAIN VersionsOf(p) : v \in DOMAIN VersionsOf(p)'
<1>1. ASSUME UNCHANGED versionVars PROVE Goal
  BY <1>1 DEF versionVars, VaultsTyped, VersionsOf
<1>2. ASSUME NEW p \in Nat, NEW hash \in WillHash, Linked(p, hash) PROVE Goal
  <2>1. IsMap(Put(vault_will, p, hash), Nat, WillHash)
    BY PutIsMap DEF VaultsTyped
  <2> QED BY <1>2, <2>1 DEF Linked, VaultsTyped, VersionsOf
<1>3. ASSUME NEW p \in Nat, NEW hash \in WillHash, Renewed(p, hash) PROVE Goal
  <2> DEFINE old == VersionsOf(p)
             new == VersionsWithNew(p, hash)
  <2>1. Len(old) \in Nat /\ new \in Seq(WillVersionInfo) /\ Len(new) = Len(old) + 1
    BY NewVersionIsActive
  <2>2. old \in Seq(WillVersionInfo)
    BY DEF WillInv, VersionsTyped, VersionsOf, IsMap
  <2>3. /\ will_versions' = Put(will_versions, p, new)
        /\ active_version' = Put(active_version, p, Len(old) + 1)
        /\ vault_will' = Put(vault_will, p, hash)
        /\ old = VersionsOf(p)
    BY <1>3 DEF Renewed
  <2> HIDE DEF old, new
  <2>4. \A v \in DOMAIN old : v \in DOMAIN new
    BY <2>1, <2>2
  <2>5. Len(old) + 1 \in Nat
    BY <2>1
  <2>6. VaultsTyped'
    BY <2>3, <2>5, PutIsMap DEF VaultsTyped
  <2>7. ASSUME NEW q, NEW v \in DOMAIN VersionsOf(q) PROVE v \in DOMAIN VersionsOf(q)'
    <3>1. CASE q = p
      <4>1. VersionsOf(q)' = new
        BY <2>3, <3>1 DEF VersionsOf, Put
      <4> QED BY <2>3, <2>4, <2>7, <3>1, <4>1
    <3>2. CASE q # p
      BY <2>3, <2>7, <3>2 DEF VersionsOf, Put
    <3> QED BY <3>1, <3>2
  <2> QED BY <2>6, <2>7
<1> HIDE DEF Goal
<1>4. Goal
  BY <1>1, <1>2, <1>3 DEF VersionStep
<1> QED BY <1>4 DEF Goal

(* Wills, signatures and witnesses stay typed. *)
LEMMA WillsStayTyped ==
  ASSUME WillInv, WillsTyped, [RecordsNext]_<<vars, recordVars>>
  PROVE  WillsTyped'
<1>1. VaultsTyped' /\ \A p : \A v \in DOMAIN VersionsOf(p) : v \in DOMAIN VersionsOf(p)'
  BY StepsOfVersions, VaultsStayTyped DEF WillsTyped
<1> DEFINE Rest == FinalizedTyped' /\ DocumentsTyped' /\ SignaturesTyped' /\ WitnessesTyped'
<1>2. ASSUME UNCHANGED will_finalized PROVE FinalizedTyped'
  BY <1>1, <1>2 DEF WillsTyped, FinalizedTyped
<1>3. /\ UNCHANGED documentVars => DocumentsTyped'
      /\ UNCHANGED signatureVars => SignaturesTyped'
      /\ UNCHANGED witnessVars => WitnessesTyped'
  BY DEF WillsTyped, documentVars, DocumentsTyped, signatureVars, SignaturesTyped,
         witnessVars, WitnessesTyped
<1>4. ASSUME UNCHANGED <<documentVars, signatureVars, will_finalized, witnessVars>>
      PROVE  Rest
  BY <1>2, <1>3, <1>4
<1>5. ASSUME UNCHANGED willVars PROVE Rest
  BY <1>4, <1>5 DEF willVars
<1>6. ASSUME WillNext PROVE Rest
  <2>1. /\ PlanId \subseteq Nat /\ StoredHash \subseteq WillHash /\ SignedHash \subseteq WillHash
        /\ Witness \subseteq Address /\ \A v \in 1..MaxVersions : v \in Nat
    BY RecordsAssumption DEF PlanId
  <2>2. ASSUME NEW p \in PlanId, NEW caller \in Address, NEW hash \in StoredHash,
               StoreWillHash(caller, p, hash)
        PROVE  Rest
    <3>1. IsMap(Put(will_hash, p, hash), Nat, WillHash)
      BY <2>1, PutIsMap DEF WillsTyped, DocumentsTyped
    <3>2. DocumentsTyped'
      BY <2>2, <3>1 DEF StoreWillHash, WillsTyped, DocumentsTyped
    <3> QED BY <1>2, <1>3, <2>2, <3>2 DEF StoreWillHash
  <2>3. ASSUME NEW p \in PlanId, NEW will \in WillList, VerifyBeneficiaries(p, will)
        PROVE  Rest
    <3>1. WillMatchesPlan(plans[p], will) \in BOOLEAN
      BY DEF WillMatchesPlan
    <3>2. IsMap(verification', Nat, BOOLEAN)
      BY <2>1, <2>3, <3>1, PutIsMap DEF VerifyBeneficiaries, WillsTyped, DocumentsTyped
    <3>3. DocumentsTyped'
      BY <2>3, <3>2 DEF VerifyBeneficiaries, WillsTyped, DocumentsTyped
    <3> QED BY <1>2, <1>3, <2>3, <3>3 DEF VerifyBeneficiaries
  <2>4. ASSUME NEW p \in PlanId, NEW caller \in Address,
               \/ \E hash \in StoredHash : LinkWillToVault(caller, p, hash)
               \/ \E hash \in VersionHash : CreateWillVersion(caller, p, hash)
        PROVE  Rest
    <3>1. UNCHANGED <<documentVars, signatureVars, will_finalized, witnessVars>>
      BY <2>4 DEF LinkWillToVault, CreateWillVersion
    <3> QED BY <1>4, <3>1
  <2>5. ASSUME NEW p \in PlanId, NEW caller \in Address, NEW hash \in SignedHash,
               SignWill(caller, p, hash)
        PROVE  Rest
    <3> DEFINE proof == [will_hash |-> hash, signer |-> caller]
    <3>1. proof \in WillSignatureProof /\ <<p, hash>> \in Nat \X WillHash
      BY <2>1 DEF WillSignatureProof
    <3> HIDE DEF proof
    <3>2. IsMap(Put(will_signature, p, proof), Nat, WillSignatureProof)
      BY <2>1, <3>1, PutIsMap DEF WillsTyped, SignaturesTyped
    <3>3. SignaturesTyped'
      BY <2>5, <3>1, <3>2 DEF SignWill, WillsTyped, SignaturesTyped, proof
    <3> QED BY <1>2, <1>3, <2>5, <3>3 DEF SignWill
  <2>6. ASSUME NEW p \in PlanId, NEW caller \in Address, NEW v \in 1..MaxVersions,
               FinalizeWill(caller, p, v)
        PROVE  Rest
    <3>1. <<p, v>> \in Nat \X Nat /\ v \in DOMAIN VersionsOf(p)
      BY <2>1, <2>6 DEF FinalizeWill
    <3>2. /\ will_finalized' = will_finalized \cup {<<p, v>>}
          /\ UNCHANGED <<documentVars, signatureVars, witnessVars>>
      BY <2>6 DEF FinalizeWill
    <3>3. FinalizedTyped'
      BY <1>1, <3>1, <3>2 DEF WillsTyped, FinalizedTyped
    <3> QED BY <1>3, <3>2, <3>3
  <2>7. ASSUME NEW p \in PlanId, NEW caller \in Address, NEW witness \in Witness,
               AddWitness(caller, p, witness)
        PROVE  Rest
    <3>1. WitnessesOf(p) \in Seq(Address)
      BY DEF WillsTyped, WitnessesTyped, WitnessesOf, IsMap
    <3>2. Append(WitnessesOf(p), witness) \in Seq(Address)
      BY <2>1, <3>1
    <3>3. IsMap(witnesses', Nat, Seq(Address))
      BY <2>1, <2>7, <3>2, PutIsMap DEF AddWitness, WillsTyped, WitnessesTyped
    <3>4. WitnessesTyped'
      BY <2>7, <3>3 DEF AddWitness, WillsTyped, WitnessesTyped
    <3> QED BY <1>2, <1>3, <2>7, <3>4 DEF AddWitness
  <2>8. ASSUME NEW p \in PlanId, NEW caller \in Address, SignAsWitness(caller, p)
        PROVE  Rest
    <3>1. <<p, caller>> \in Nat \X Address
      BY <2>1
    <3>2. WitnessesTyped'
      BY <2>8, <3>1 DEF SignAsWitness, WillsTyped, WitnessesTyped
    <3> QED BY <1>2, <1>3, <2>8, <3>2 DEF SignAsWitness
  <2> HIDE DEF Rest
  <2> QED BY <1>6, <2>2, <2>3, <2>4, <2>5, <2>6, <2>7, <2>8 DEF WillNext
<1>7. ASSUME MessageNext \/ NoticeNext PROVE Rest
  BY <1>5, <1>7 DEF MessageNext, NoticeNext
<1>8. Rest
  <2> HIDE DEF Rest
  <2> QED BY <1>5, <1>6, <1>7 DEF RecordsNext, recordVars
<1> QED BY <1>1, <1>8 DEF WillsTyped

(* Notices stay typed. *)
LEMMA NoticesStayTyped ==
  ASSUME NoticesTyped, now \in Nat, [RecordsNext]_<<vars, recordVars>>
  PROVE  NoticesTyped'
<1>1. ASSUME UNCHANGED noticeVars PROVE NoticesTyped'
  BY <1>1 DEF noticeVars, NoticesTyped
<1>2. ASSUME NoticeNext PROVE NoticesTyped'
  <2>1. PlanId \subseteq Nat /\ NoticeIndex \subseteq Nat /\ AckValue \subseteq BOOLEAN
    BY RecordsAssumption DEF PlanId
  <2>2. ASSUME NEW p \in PlanId, NEW caller \in Address, NEW i \in NoticeIndex,
               NotifyBeneficiary(caller, p, i)
        PROVE  NoticesTyped'
    <3>1. <<p, i>> \in Nat \X Nat
      BY <2>1
    <3>2. IsMap(notified_at', Nat \X Nat, Nat)
      BY <2>2, <3>1, PutIsMap DEF NotifyBeneficiary, NoticesTyped
    <3>3. DOMAIN notified_at \subseteq DOMAIN notified_at'
      BY <2>2 DEF NotifyBeneficiary, Put
    <3> QED BY <2>2, <3>2, <3>3 DEF NotifyBeneficiary, NoticesTyped, IsMap
  <2>3. ASSUME NEW p \in PlanId, NEW i \in NoticeIndex, AcknowledgeBeneficiaryStatus(p, i)
        PROVE  NoticesTyped'
    BY <2>3, PutIsMap DEF AcknowledgeBeneficiaryStatus, NoticesTyped
  <2>4. ASSUME NEW p \in PlanId, NEW caller \in Address, NEW required \in AckValue,
               RequireAcknowledgment(caller, p, required)
        PROVE  NoticesTyped'
    BY <2>1, <2>4, PutIsMap DEF RequireAcknowledgment, NoticesTyped
  <2> QED BY <1>2, <2>2, <2>3, <2>4 DEF NoticeNext
<1>3. ASSUME WillNext \/ MessageNext PROVE NoticesTyped'
  BY <1>1, <1>3 DEF WillNext, MessageNext
<1> QED BY <1>1, <1>2, <1>3 DEF RecordsNext, recordVars

(* Wills, messages and notices hold what their types say in every state,   *)
(* and a finalized version is one that exists.                             *)
THEOREM RecordTypes == RecordsSpec => []RecordsTypeOK
<1>1. RecordsInit => WillsTyped /\ NoticesTyped
  BY DEF RecordsInit, WillInit, NoticeInit, WillsTyped, VaultsTyped, FinalizedTyped,
         DocumentsTyped, SignaturesTyped, WitnessesTyped, NoticesTyped, EmptyMap, IsMap
<1>2. TypeOK => now \in Nat
  BY DEF TypeOK
<1>3. /\ WillInv /\ WillsTyped /\ NoticesTyped /\ now \in Nat
      /\ [RecordsNext]_<<vars, recordVars>>
      => WillsTyped' /\ NoticesTyped'
  BY WillsStayTyped, NoticesStayTyped
<1>4. WillInv /\ WillsTyped /\ NoticesTyped /\ BoxSound(Box) => RecordsTypeOK
  <2>1. BoxSound(Box) =>
          /\ next_message_id \in Nat /\ IsMap(messages, Nat, LegacyMessage)
          /\ IsMap(vault_messages, Nat, Seq(Nat))
    BY BoxParts, BoxIs
  <2> QED BY <2>1 DEF WillInv, VersionsTyped, WillsTyped, VaultsTyped, FinalizedTyped,
                      DocumentsTyped, SignaturesTyped, WitnessesTyped, NoticesTyped,
                      RecordsTypeOK
<1>5. Spec => []TypeOK
  BY TypesAreKept
<1> QED BY <1>1, <1>2, <1>3, <1>4, <1>5, RecordsKeepContract, WillInvHolds, BoxStaysSound,
           PTL DEF RecordsSpec
=============================================================================
