--------------------------- MODULE ComponentProof ---------------------------
(***************************************************************************)
(* Proofs about four components that know nothing of each other: grants,   *)
(* outbox and trash of remoteposix, and the debouncer of the search        *)
(* service.                                                                *)
(***************************************************************************)
EXTENDS Outbox, Debouncer, Grants, TLAPS

(* The trash has its nodes and its workers to itself.                      *)
CONSTANTS Files, Folder, MaxKey, MaxVersion, MaxFail

VARIABLES
    place, inside, items, owner, there, vfile, durable, touched,
    step, key, list, todo, emptying, keys, fails

Trash == INSTANCE Retention WITH File <- Files, Dir <- Folder, pc <- step

USE SMTT(60), ZenonT(60)

----------------------------------------------------------------------------
(* Grants, for any members, groups, sets of permissions and changes.       *)

(* What the owner has given above a node it has given on the node.         *)
GivenBelow == \A n \in Node : \A m \in Chain(n) : given[m] \subseteq given[n]

GrantsInv == GrantsTypeOK /\ GivenBelow /\ NoEscalation

LEMMA ChainType ==
    ASSUME GrantsTypeOK
    PROVE  \A n \in Node : Chain(n) \subseteq Node /\ n \in Chain(n)
BY DEF GrantsTypeOK, Chain, Node

LEMMA MatchingType == \A u \in Member : Matching(u) \subseteq Grantee
BY GrantsAssumption DEF Matching, Grantee

LEMMA ValueType ==
    /\ \A v \in Value \cup {NoGrant} : v.perms \subseteq Perm
    /\ NoGrant.perms = {} /\ Deny.perms = {} /\ NoGrant # Deny /\ Deny \in Value
BY GrantsAssumption DEF Value, NoGrant, Deny, Allow

(* A member has no more on a node than the owner has given there.          *)
LEMMA WithinGiven ==
    ASSUME GrantsInv, NEW u \in Member, NEW n \in Node
    PROVE  Permissions(u, n) \subseteq given[n]
<1>1. Chain(n) \subseteq Node /\ Matching(u) \subseteq Grantee
  BY ChainType, MatchingType DEF GrantsInv
<1>2. \A m \in Chain(n), g \in Matching(u) : grant[m][g].perms \subseteq given[n]
  BY <1>1 DEF GrantsInv, GivenBelow, NoEscalation
<1> QED BY <1>2, GrantsAssumption DEF Permissions

(* AddGrant, UpdateGrant, RemoveGrant and DenyGrant are one change with    *)
(* different values.                                                       *)
Changes(u, n, g, act, v) ==
    /\ act \in {"add", "update", "remove", "deny"} /\ v \in Value \cup {NoGrant}
    /\ v = NoGrant => act = "remove"
    /\ act = "remove" => v = NoGrant
    /\ MayChange(u, n, act, v, grant[n][g]) /\ Written(u, n, g, v)

LEMMA StepIsChange ==
    ASSUME GrantsNext
    PROVE  \E u \in User :
             /\ by' = u
             /\ \/ \E n \in Node, g \in Grantee : \E act, v : Changes(u, n, g, act, v)
                \/ \E to \in {SpaceRoot, Dir} : MoveFile(u, to)
<1> PICK u \in User :
      /\ by' = u
      /\ \/ \E n \in Node, g \in Grantee : AddGrant(u, n, g) \/ UpdateGrant(u, n, g) \/ RemoveGrant(u, n, g) \/ DenyGrant(u, n, g)
         \/ \E to \in {SpaceRoot, Dir} : MoveFile(u, to)
  BY DEF GrantsNext
<1>1. \A v \in Value : v # NoGrant
  BY DEF Value, NoGrant, Allow, Deny
<1>2. ASSUME NEW n \in Node, NEW g \in Grantee, AddGrant(u, n, g) PROVE \E v : Changes(u, n, g, "add", v)
  BY <1>1, <1>2 DEF AddGrant, Changes
<1>3. ASSUME NEW n \in Node, NEW g \in Grantee, UpdateGrant(u, n, g) PROVE \E v : Changes(u, n, g, "update", v)
  BY <1>1, <1>3 DEF UpdateGrant, Changes
<1>4. ASSUME NEW n \in Node, NEW g \in Grantee, RemoveGrant(u, n, g) PROVE Changes(u, n, g, "remove", NoGrant)
  BY <1>4 DEF RemoveGrant, Changes
<1>5. ASSUME NEW n \in Node, NEW g \in Grantee, DenyGrant(u, n, g) PROVE Changes(u, n, g, "deny", Deny)
  BY <1>1, <1>5, ValueType DEF DenyGrant, Changes
<1> QED BY <1>2, <1>3, <1>4, <1>5

(* A member writes at most what it has, and has something.                 *)
LEMMA MemberWrites ==
    ASSUME NEW u \in Member, NEW n \in Node, NEW g \in Grantee, NEW act, NEW v, Changes(u, n, g, act, v)
    PROVE  /\ v.perms \subseteq Permissions(u, n) /\ Permissions(u, n) # {}
           /\ v = Deny => "DenyGrant" \in Permissions(u, n)
           /\ grant[n][g] # NoGrant => grant[n][g].perms \subseteq Permissions(u, n)
           /\ grant[n][g] = Deny => "DenyGrant" \in Permissions(u, n)
<1>1. LET ps == Permissions(u, n) IN Needed(act) \in ps /\ MayWrite(ps, act, v) /\ MayReplace(ps, act, grant[n][g])
  BY GrantsAssumption DEF Changes, MayChange
<1>2. act = "remove" => v = NoGrant
  BY DEF Changes
<1> QED BY <1>1, <1>2, ValueType DEF MayWrite, MayReplace, PermissionsWithin

LEMMA WrittenFacts ==
    ASSUME GrantsTypeOK, NEW u \in User, NEW n \in Node, NEW g \in Grantee, NEW v \in Value \cup {NoGrant}, Written(u, n, g, v)
    PROVE  /\ grant' \in [Node -> [Grantee -> Value \cup {NoGrant}]]
           /\ grant'[n][g] = v /\ parent' = parent
           /\ \A m \in Node, h \in Grantee : m # n \/ h # g => grant'[m][h] = grant[m][h]
           /\ given' \in [Node -> SUBSET Perm]
           /\ \A m \in Node : given[m] \subseteq given'[m]
           /\ u = Owner => \A m \in Node : given'[m] = IF n \in Chain(m) THEN given[m] \cup v.perms ELSE given[m]
           /\ u # Owner => given' = given
<1>1. v.perms \subseteq Perm
  BY ValueType
<1>2. grant' = [grant EXCEPT ![n][g] = v] /\ grant \in [Node -> [Grantee -> Value \cup {NoGrant}]] /\ parent' = parent
  BY DEF Written, GrantsTypeOK
<1>3. given \in [Node -> SUBSET Perm]
  BY DEF GrantsTypeOK
<1>4. CASE u = Owner
  <2>1. given' = [m \in Node |-> IF n \in Chain(m) THEN given[m] \cup v.perms ELSE given[m]]
    BY <1>4 DEF Written
  <2> QED BY ZenonT(60), <1>1, <1>2, <1>3, <1>4, <2>1
<1>5. CASE u # Owner
  <2>1. given' = given
    BY <1>5 DEF Written
  <2> QED BY ZenonT(60), <1>2, <1>3, <1>5, <2>1
<1> QED BY ZenonT(60), <1>4, <1>5

LEMMA ChangeGrantsInv ==
    ASSUME GrantsInv, NEW u \in User, NEW n \in Node, NEW g \in Grantee, NEW act, NEW v, Changes(u, n, g, act, v)
    PROVE  GivenBelow' /\ NoEscalation'
<1> USE DEF GrantsInv
<1>1. v \in Value \cup {NoGrant} /\ Written(u, n, g, v)
  BY DEF Changes
<1>2. /\ grant'[n][g] = v /\ parent' = parent
      /\ \A m \in Node, h \in Grantee : m # n \/ h # g => grant'[m][h] = grant[m][h]
      /\ \A m \in Node : given[m] \subseteq given'[m]
      /\ u # Owner => given' = given
  BY <1>1, WrittenFacts
<1>own. u = Owner => \A m \in Node : given'[m] = IF n \in Chain(m) THEN given[m] \cup v.perms ELSE given[m]
  BY ZenonT(180), <1>1, WrittenFacts
<1>3. \A m : Chain(m)' = Chain(m)
  BY <1>2 DEF Chain
<1>4. v.perms \subseteq given'[n]
  <2>1. CASE u = Owner
    BY ZenonT(60), <1>2, <1>own, <2>1, ChainType
  <2>2. CASE u # Owner
    <3>1. u \in Member
      BY <2>2 DEF User
    <3> QED BY <1>2, <2>2, <3>1, MemberWrites, WithinGiven
  <2> QED BY <2>1, <2>2
<1>5. NoEscalation'
  BY <1>2, <1>4 DEF NoEscalation
<1>6. \A m \in Node : \A k \in Chain(m) : k \in Node /\ (n \in Chain(k) => n \in Chain(m))
  BY GrantsAssumption DEF Chain, Node, GrantsTypeOK
<1>7. GivenBelow'
  <2>1. CASE u = Owner
    BY ZenonT(180), <1>2, <1>own, <1>3, <1>6, <2>1 DEF GivenBelow
  <2>2. CASE u # Owner
    BY <1>2, <1>3, <2>2 DEF GivenBelow
  <2> QED BY <2>1, <2>2
<1> QED BY <1>5, <1>7

LEMMA MoveGrantsInv ==
    ASSUME GrantsInv, NEW u \in User, NEW to \in {SpaceRoot, Dir}, MoveFile(u, to)
    PROVE  GrantsTypeOK' => GivenBelow' /\ NoEscalation'
<1> USE DEF GrantsInv
<1>1. parent' = to /\ given' = [given EXCEPT ![File] = @ \cup given[to]] /\ grant' = grant
  BY DEF MoveFile
<1>2. given \in [Node -> SUBSET Perm] /\ File \in Node /\ to \in Node /\ to # File
  BY GrantsAssumption DEF GrantsTypeOK, Node
<1>3. \A m \in Node : given[m] \subseteq given'[m]
  BY <1>1, <1>2
<1>4. \A m \in Node \ {File} : given'[m] = given[m]
  BY <1>1, <1>2
<1>5. given[to] \subseteq given'[File]
  BY <1>1, <1>2
<1>6. NoEscalation'
  BY <1>1, <1>3 DEF NoEscalation
<1>7. given[SpaceRoot] \subseteq given[File] /\ given[SpaceRoot] \subseteq given[Dir]
  BY DEF GivenBelow, Chain, Node
<1>8. ASSUME NEW n \in Node, NEW m \in Chain(n)' PROVE given'[m] \subseteq given'[n]
  <2>1. CASE n = File
    <3>1. m \in {File, SpaceRoot, to}
      BY <1>1, <2>1 DEF Chain
    <3> QED BY <1>2, <1>3, <1>4, <1>5, <1>7, <2>1, <3>1, GrantsAssumption DEF Node
  <2>2. CASE n # File
    <3>1. m \in {n, SpaceRoot} /\ n \in {SpaceRoot, Dir}
      BY <2>2 DEF Chain, Node
    <3> QED BY <1>4, <1>7, <3>1, GrantsAssumption DEF Node
  <2> QED BY <2>1, <2>2
<1> QED BY <1>6, <1>8 DEF GivenBelow

LEMMA GrantsInitInv == GrantsInit => GrantsInv
BY GrantsAssumption, ValueType DEF GrantsInit, GrantsInv, GrantsTypeOK, GivenBelow, NoEscalation, User, Chain, Node

LEMMA GrantsNextInv == GrantsInv /\ [GrantsNext]_grantVars => GrantsInv'
<1> SUFFICES ASSUME GrantsInv, GrantsNext PROVE GrantsInv'
  BY DEF grantVars, GrantsInv, GrantsTypeOK, GivenBelow, NoEscalation, Chain
<1> PICK u \in User :
      /\ by' = u
      /\ \/ \E n \in Node, g \in Grantee : \E act, v : Changes(u, n, g, act, v)
         \/ \E to \in {SpaceRoot, Dir} : MoveFile(u, to)
  BY StepIsChange
<1>1. changes' \in 0..MaxChanges /\ by' \in User
  BY GrantsAssumption DEF GrantsNext, GrantsInv, GrantsTypeOK
<1>2. ASSUME NEW n \in Node, NEW g \in Grantee, NEW act, NEW v, Changes(u, n, g, act, v) PROVE GrantsInv'
  <2>1. v \in Value \cup {NoGrant} /\ Written(u, n, g, v)
    BY <1>2 DEF Changes
  <2>2. GrantsTypeOK'
    BY ZenonT(60), <1>1, <2>1, WrittenFacts DEF GrantsInv, GrantsTypeOK
  <2> QED BY <1>2, <2>2, ChangeGrantsInv DEF GrantsInv
<1>3. ASSUME NEW to \in {SpaceRoot, Dir}, MoveFile(u, to) PROVE GrantsInv'
  <2>1. GrantsTypeOK'
    BY <1>1, <1>3 DEF MoveFile, GrantsInv, GrantsTypeOK, Node
  <2> QED BY <1>3, <2>1, MoveGrantsInv DEF GrantsInv
<1> QED BY <1>2, <1>3

(* A member that is denied has nothing to act with.                        *)
LEMMA DeniedHasNothing ==
    ASSUME NEW u \in Member, NEW n \in Node, NEW m \in Chain(n), NEW g \in Matching(u), grant[m][g] = Deny
    PROVE  Permissions(u, n) = {}
BY GrantsAssumption DEF Permissions

LEMMA DenialStep ==
    ASSUME GrantsInv, GrantsNext
    PROVE  OwnDenialStays
<1> SUFFICES ASSUME NEW u \in Member, NEW n \in Node, by' = u,
                    NEW m \in Chain(n), NEW g \in Matching(u), grant[m][g] = Deny
             PROVE  \E k \in Chain(n)', h \in Matching(u) : grant'[k][h] = Deny
  BY DEF OwnDenialStays
<1>1. m \in Node /\ g \in Grantee
  BY ChainType, MatchingType DEF GrantsInv
<1>2. \/ \E k \in Node, h \in Grantee : \E act, v : Changes(u, k, h, act, v)
      \/ \E to \in {SpaceRoot, Dir} : MoveFile(u, to)
  BY StepIsChange
<1>3. ASSUME NEW k \in Node, NEW h \in Grantee, NEW act, NEW v, Changes(u, k, h, act, v)
      PROVE  m \in Chain(n)' /\ grant'[m][g] = Deny
  <2>1. v \in Value \cup {NoGrant} /\ Written(u, k, h, v) /\ u \in User
    BY <1>3 DEF Changes, User
  <2>2. /\ parent' = parent
        /\ \A i \in Node, j \in Grantee : i # k \/ j # h => grant'[i][j] = grant[i][j]
    BY <2>1, WrittenFacts DEF GrantsInv
  <2>3. m # k
    BY <1>3, ChainType, DeniedHasNothing, MemberWrites DEF GrantsInv
  <2>4. Chain(n)' = Chain(n)
    BY <2>2 DEF Chain
  <2> QED BY <1>1, <2>2, <2>3, <2>4
<1>4. ASSUME NEW to \in {SpaceRoot, Dir}, MoveFile(u, to)
      PROVE  m \in Chain(n)' /\ grant'[m][g] = Deny
  <2>1. Permissions(u, File) # {} /\ grant' = grant
    BY <1>4 DEF MoveFile
  <2>2. n # File
    BY <2>1, DeniedHasNothing DEF Node
  <2>3. Chain(n)' = Chain(n)
    BY <2>2 DEF Chain
  <2> QED BY <2>1, <2>3
<1> QED BY <1>2, <1>3, <1>4

LEMMA StrongerStep ==
    ASSUME GrantsInv, GrantsNext
    PROVE  StrongerStay
<1> SUFFICES ASSUME NEW n \in Node, NEW g \in Grantee, grant'[n][g] # grant[n][g], by' # Owner
             PROVE  /\ grant[n][g].perms \subseteq Permissions(by', n)
                    /\ Deny \in {grant[n][g], grant'[n][g]} => "DenyGrant" \in Permissions(by', n)
  BY DEF StrongerStay
<1> PICK u \in User :
      /\ by' = u
      /\ \/ \E k \in Node, h \in Grantee : \E act, v : Changes(u, k, h, act, v)
         \/ \E to \in {SpaceRoot, Dir} : MoveFile(u, to)
  BY StepIsChange
<1>1. u \in Member
  BY DEF User
<1>2. PICK k \in Node, h \in Grantee : \E act, v : Changes(u, k, h, act, v)
  BY DEF MoveFile
<1>3. PICK act, v : Changes(u, k, h, act, v)
  BY <1>2
<1>4. v \in Value \cup {NoGrant} /\ Written(u, k, h, v)
  BY <1>3 DEF Changes
<1>5. k = n /\ h = g /\ grant'[n][g] = v
  BY <1>4, WrittenFacts DEF GrantsInv
<1>6. /\ v = Deny => "DenyGrant" \in Permissions(u, n)
      /\ grant[n][g] # NoGrant => grant[n][g].perms \subseteq Permissions(u, n)
      /\ grant[n][g] = Deny => "DenyGrant" \in Permissions(u, n)
  BY <1>1, <1>3, <1>5, MemberWrites
<1> QED BY <1>5, <1>6, ValueType

(* Delegation stays within what the owner gave, denials bind the members   *)
(* they apply to, and nobody takes away what they could not have given:    *)
(* after any sequence of changes of grants and moves.                      *)
THEOREM Delegation == GrantsSpec => DelegationLimited
<1>1. GrantsInv => GrantsTypeOK /\ NoEscalation
  BY DEF GrantsInv
<1>2. GrantsInv /\ [GrantsNext]_grantVars => [OwnDenialStays /\ StrongerStay]_grantVars
  BY DenialStep, StrongerStep
<1> QED BY <1>1, <1>2, GrantsInitInv, GrantsNextInv, PTL DEF GrantsSpec, DelegationLimited

----------------------------------------------------------------------------
(* The outbox, for any number of processes, events and failures.           *)

USE DEF Id

(* The empty outbox, nobody at work.                                       *)
LEMMA InitIInv == Init => IInv
  BY OutboxAssumption DEF Init, IInv, TypeOK, FirstRows, AtLeastOnce, InOrder

(* A commit adds the greatest id: batches stay first parts of the outbox.  *)
LEMMA CommitIInv == ASSUME IInv, Commit PROVE IInv'
  <1>1. TypeOK'
    BY OutboxAssumption DEF IInv, TypeOK, Commit
  <1>2. \A p \in Process : FirstRows(batch[p])'
    BY OutboxAssumption DEF IInv, TypeOK, Commit, FirstRows
  <1>3. AtLeastOnce' /\ InOrder'
    BY OutboxAssumption DEF IInv, TypeOK, Commit, AtLeastOnce, InOrder
  <1>4. (\A i \in outbox : (\A p \in Process : row[p] # i) => sends[i] <= faults)'
    BY OutboxAssumption DEF IInv, TypeOK, Commit
  <1> QED BY <1>1, <1>2, <1>3, <1>4, OutboxAssumption DEF IInv, TypeOK, Commit

(* The lock was free, so that no other process has a batch.                *)
LEMMA ReadBatchIInv == ASSUME IInv, NEW p \in Process, ReadBatch(p) PROVE IInv'
  <1> PICK b \in SUBSET Id : FirstRows(b) /\ batch' = [batch EXCEPT ![p] = b]
    BY ZenonT(60) DEF ReadBatch
  <1>1. TypeOK'
    BY DEF IInv, TypeOK, ReadBatch, Acquire
  <1>2. (\A q \in Process : FirstRows(batch[q]))'
    BY ZenonT(60) DEF IInv, TypeOK, ReadBatch, FirstRows
  <1>3. (\A q \in Process : batch[q] # {} => lock = q)'
    BY OutboxAssumption DEF IInv, TypeOK, ReadBatch, Acquire
  <1>4. (\A q \in Process : row[q] # 0 => row[q] \in batch[q] /\ sends[row[q]] > 0)'
    BY DEF IInv, TypeOK, ReadBatch
  <1>5. AtLeastOnce' /\ InOrder'
    BY DEF IInv, ReadBatch, AtLeastOnce, InOrder
  <1> QED BY <1>1, <1>2, <1>3, <1>4, <1>5 DEF IInv, ReadBatch

(* The least row of the batch is the least of the outbox: everything       *)
(* before it was published and deleted.                                    *)
LEMMA PublishIInv == ASSUME IInv, NEW p \in Process, Publish(p) PROVE IInv'
  <1> PICK i \in Id : /\ IsLeast(i, batch[p])
                      /\ sends' = [sends EXCEPT ![i] = @ + 1] /\ row' = [row EXCEPT ![p] = i]
    BY ZenonT(60) DEF Publish
  <1>0. i \in outbox /\ i \in batch[p] /\ i <= last
    BY DEF IInv, IsLeast, FirstRows
  <1>1. TypeOK'
    BY DEF IInv, TypeOK, Publish
  <1>2. \A q \in Process : row[q] # i
    BY <1>0 DEF IInv, TypeOK, Publish
  <1>3. \A j \in Id : j < i => sends[j] > 0
    <2> TAKE j \in Id
    <2> HAVE j < i
    <2>1. j \notin outbox
      BY <1>0 DEF IInv, IsLeast, FirstRows
    <2>2. j \in 1..last
      BY <1>0 DEF IInv, TypeOK
    <2> QED BY <2>1, <2>2 DEF IInv, AtLeastOnce
  <1>4. InOrder'
    BY <1>3 DEF IInv, TypeOK, InOrder, Publish
  <1>5. AtLeastOnce'
    BY DEF IInv, TypeOK, AtLeastOnce, Publish
  <1>6. (\A q \in Process : row[q] # 0 => row[q] \in batch[q] /\ sends[row[q]] > 0)'
    BY <1>0 DEF IInv, TypeOK, Publish
  <1>7. (\A j \in Id : sends[j] <= faults + 1)'
    BY <1>0, <1>2 DEF IInv, TypeOK, Publish
  <1>8. (\A j \in outbox : (\A q \in Process : row[q] # j) => sends[j] <= faults)'
    <2> SUFFICES ASSUME NEW j \in outbox, \A q \in Process : row'[q] # j PROVE sends'[j] <= faults
      BY DEF Publish
    <2>1. j # i
      BY DEF IInv, TypeOK
    <2>2. \A q \in Process : row[q] # j
      BY DEF IInv, TypeOK, Publish
    <2> QED BY <2>1, <2>2 DEF IInv, TypeOK
  <1>9. (\A j \in Id : j > last => sends[j] = 0)'
    BY <1>0 DEF IInv, TypeOK, Publish
  <1> QED BY ZenonT(60), <1>1, <1>4, <1>5, <1>6, <1>7, <1>8, <1>9 DEF IInv, Publish, FirstRows

(* The row was published; it leaves the outbox and the batch together.     *)
LEMMA DeleteRowIInv == ASSUME IInv, NEW p \in Process, DeleteRow(p) PROVE IInv'
  <1>0. row[p] \in batch[p] /\ lock = p /\ sends[row[p]] > 0 /\ row[p] \in Id
    BY DEF IInv, TypeOK, DeleteRow
  <1>a. \A q \in Process : q # p => batch[q] = {} /\ row[q] = 0
    BY <1>0 DEF IInv, TypeOK
  <1>b. batch' = [batch EXCEPT ![p] = @ \ {row[p]}] /\ row' = [row EXCEPT ![p] = 0] /\ outbox' = outbox \ {row[p]}
    BY DEF DeleteRow
  <1>c. lock' = IF batch'[p] = {} THEN None ELSE lock
    BY <1>0 DEF DeleteRow, Release
  <1>1. TypeOK'
    BY ZenonT(60), <1>b, <1>c DEF IInv, TypeOK, DeleteRow
  <1>2. (\A q \in Process : FirstRows(batch[q]))'
    BY <1>a, <1>b DEF IInv, TypeOK, FirstRows
  <1>3. (\A q \in Process : batch[q] # {} => lock = q)'
    BY <1>0, <1>a, <1>b, <1>c DEF IInv, TypeOK
  <1>4. (\A q \in Process : row[q] # 0 => row[q] \in batch[q] /\ sends[row[q]] > 0)'
    BY <1>a, <1>b DEF IInv, TypeOK
  <1>5. AtLeastOnce'
    BY <1>0, <1>b DEF IInv, TypeOK, AtLeastOnce, DeleteRow
  <1>6. InOrder'
    BY DEF IInv, InOrder, DeleteRow
  <1>7. (\A j \in outbox : (\A q \in Process : row[q] # j) => sends[j] <= faults)'
    <2> SUFFICES ASSUME NEW j \in outbox, j # row[p] PROVE sends[j] <= faults
      BY <1>b DEF DeleteRow
    <2>1. \A q \in Process : row[q] # j
      BY <1>a DEF IInv, TypeOK
    <2> QED BY <2>1 DEF IInv
  <1> QED BY ZenonT(60), <1>1, <1>2, <1>3, <1>4, <1>5, <1>6, <1>7, <1>b DEF IInv, DeleteRow

(* One more failure pays for the event that may be published again.        *)
LEMMA FailIInv == ASSUME IInv, NEW p \in Process, Fail(p) PROVE IInv'
  <1>0. lock = p /\ lock' = None
    BY DEF IInv, Fail, Release
  <1>1. TypeOK'
    BY <1>0, OutboxAssumption DEF IInv, TypeOK, Fail
  <1>2. (\A q \in Process : FirstRows(batch[q]))'
    BY DEF IInv, TypeOK, Fail, FirstRows
  <1>3. (\A q \in Process : batch[q] # {} => lock = q)'
    BY <1>0, OutboxAssumption DEF IInv, TypeOK, Fail
  <1>4. (\A q \in Process : row[q] # 0 => row[q] \in batch[q] /\ sends[row[q]] > 0)'
    BY DEF IInv, TypeOK, Fail
  <1>5. AtLeastOnce' /\ InOrder'
    BY DEF IInv, AtLeastOnce, InOrder, Fail
  <1>6. (\A j \in outbox : (\A q \in Process : row[q] # j) => sends[j] <= faults)'
    BY DEF IInv, TypeOK, Fail
  <1>7. (\A j \in Id : sends[j] <= faults + 1)'
    BY DEF IInv, TypeOK, Fail
  <1> QED BY <1>1, <1>2, <1>3, <1>4, <1>5, <1>6, <1>7 DEF IInv, Fail

LEMMA StutterIInv == ASSUME IInv, UNCHANGED vars PROVE IInv'
  BY DEF IInv, vars, TypeOK, FirstRows, AtLeastOnce, InOrder

(* The strengthening holds of everything the maintenance of any number of  *)
(* processes does with the outbox.                                         *)
THEOREM Invariance == Spec => []IInv
  <1>1. IInv /\ [Next]_vars => IInv'
    BY CommitIInv, ReadBatchIInv, PublishIInv, DeleteRowIInv, FailIInv, StutterIInv DEF Next
  <1> QED BY <1>1, InitIInv, PTL DEF Spec

(* publish deletes a row only after its event was published: "Delivery is  *)
(* at least once".                                                         *)
THEOREM DeliveryAtLeastOnce == Spec => []AtLeastOnce
  <1>1. IInv => AtLeastOnce
    BY DEF IInv
  <1> QED BY <1>1, Invariance, PTL

(* Events are first published in the order in which their transactions     *)
(* committed, batch after batch and process after process.                 *)
THEOREM DeliveryInOrder == Spec => []InOrder
  <1>1. IInv => InOrder
    BY DEF IInv
  <1> QED BY <1>1, Invariance, PTL

(* An event is published again once at most for every failure: the lock    *)
(* keeps processes from publishing the same batch.                         *)
THEOREM RepetitionByFault == Spec => []DuplicatesByFault
  <1>1. IInv => DuplicatesByFault
    BY DEF IInv, TypeOK, DuplicatesByFault, Extra
  <1> QED BY <1>1, Invariance, PTL

(* All of it together, as the run of the outbox checks it.                 *)
THEOREM OutboxSoundness == Spec => []OutboxSound
  <1>1. IInv /\ AtLeastOnce /\ InOrder /\ DuplicatesByFault => OutboxSound
    BY DEF OutboxSound
  <1> QED BY <1>1, Invariance, DeliveryAtLeastOnce, DeliveryInOrder, RepetitionByFault, PTL

HIDE DEF Id

----------------------------------------------------------------------------
(* The debouncer, for any number of events and callbacks.                  *)

\* A callback that arms a timer again finds one in the map.
PendingThere == armed # {} \/ (\E w \in Worker : pc[w] # "idle") => pending \in Timer

DebouncerIInv == DebouncerTypeOK /\ PendingThere /\ NotForgotten

LEMMA DebouncerInitIInv == DebouncerInit => DebouncerIInv
BY ZenonT(60), DebouncerAssumption DEF DebouncerInit, DebouncerIInv, DebouncerTypeOK, Pc, PendingThere, NotForgotten

LEMMA DebouncerNextIInv == DebouncerIInv /\ [DebouncerNext]_debouncerVars => DebouncerIInv'
<1> SUFFICES ASSUME DebouncerIInv, [DebouncerNext]_debouncerVars PROVE DebouncerIInv'
  OBVIOUS
<1> USE DebouncerAssumption DEF DebouncerIInv, DebouncerTypeOK, Pc, PendingThere, NotForgotten
<1>1. ASSUME NEW t \in Timer, Debounce(t) PROVE DebouncerIInv'
  BY <1>1 DEF Debounce
<1>2. ASSUME NEW t \in Timer, NEW w \in Worker, Fire(t, w) PROVE DebouncerIInv'
  BY <1>2 DEF Fire
<1>3. ASSUME NEW w \in Worker, Load(w) PROVE DebouncerIInv'
  BY <1>3 DEF Load
<1>4. ASSUME NEW w \in Worker, Reset(w) PROVE DebouncerIInv'
  BY <1>4 DEF Reset
<1>5. ASSUME NEW w \in Worker, Store(w) PROVE DebouncerIInv'
  BY ZenonT(60), <1>5 DEF Store
<1>6. ASSUME NEW w \in Worker, Delete(w) PROVE DebouncerIInv'
  BY ZenonT(60), <1>6 DEF Delete
<1>7. CASE UNCHANGED debouncerVars
  BY <1>7 DEF debouncerVars
<1> QED
  BY ZenonT(60), <1>1, <1>2, <1>3, <1>4, <1>5, <1>6, <1>7 DEF DebouncerNext, Work

\* An event is never forgotten, whatever timers fire, are stopped and are reset
\* at the same time (Debounce).
THEOREM EventsKept == DebouncerSpec => []NotForgotten
<1>1. DebouncerIInv => NotForgotten
  BY DEF DebouncerIInv
<1> QED
  BY <1>1, DebouncerInitIInv, DebouncerNextIInv, PTL DEF DebouncerSpec

\* At most one callback is between its timer and the start of its run; while
\* a run is in progress the map says so and no other is about to start.
Alone ==
    Prompt =>
      /\ \A v, w \in Worker : pc[v] \in {"load", "store"} /\ pc[w] \in {"load", "store"} => v = w
      /\ \A v, w \in Worker : pc[w] = "run" => inProgress /\ pc[v] # "store"
      /\ OneRun

DebouncerInv2 == DebouncerTypeOK /\ Alone

LEMMA DebouncerInitInv2 == DebouncerInit => DebouncerInv2
BY ZenonT(60), DebouncerAssumption DEF DebouncerInit, DebouncerInv2, DebouncerTypeOK, Pc, Alone, OneRun, Running

LEMMA DebouncerNextInv2 == DebouncerTypeOK' /\ DebouncerInv2 /\ [DebouncerNext]_debouncerVars => DebouncerInv2'
<1> SUFFICES ASSUME DebouncerTypeOK', DebouncerInv2, [DebouncerNext]_debouncerVars, Prompt PROVE Alone'
  BY DEF DebouncerInv2, Alone
<1> USE DEF DebouncerInv2, DebouncerTypeOK, Pc, Alone, OneRun, Running
<1>1. ASSUME NEW t \in Timer, Debounce(t) PROVE Alone'
  BY <1>1 DEF Debounce
<1>2. ASSUME NEW t \in Timer, NEW w \in Worker, Fire(t, w) PROVE Alone'
  BY <1>2 DEF Fire
<1>3. ASSUME NEW w \in Worker, Load(w) PROVE Alone'
  BY <1>3 DEF Load
<1>4. ASSUME NEW w \in Worker, Reset(w) PROVE Alone'
  BY <1>4 DEF Reset
<1>5. ASSUME NEW w \in Worker, Store(w) PROVE Alone'
  BY <1>5 DEF Store
<1>6. ASSUME NEW w \in Worker, Delete(w) PROVE Alone'
  BY <1>6 DEF Delete
<1>7. CASE UNCHANGED debouncerVars
  BY <1>7 DEF debouncerVars
<1> QED
  BY ZenonT(60), <1>1, <1>2, <1>3, <1>4, <1>5, <1>6, <1>7 DEF DebouncerNext, Work

\* Where no timer fires between a callback's look at the map and its entry in
\* it, a space is never indexed twice at the same time (inProgress).
THEOREM RunsAlone == DebouncerSpec => [](Prompt => OneRun)
<1>1. DebouncerIInv => DebouncerTypeOK
  BY DEF DebouncerIInv
<1>2. DebouncerInv2 => (Prompt => OneRun)
  BY DEF DebouncerInv2, Alone
<1> QED
  BY <1>1, <1>2, DebouncerInitIInv, DebouncerNextIInv, DebouncerInitInv2, DebouncerNextInv2, PTL DEF DebouncerSpec

\* Both together, as the run of the debouncer checks them.
THEOREM DebouncerSoundness == DebouncerSpec => []DebouncerSound
<1>1. DebouncerIInv => DebouncerTypeOK
  BY DEF DebouncerIInv
<1>2. DebouncerSpec => []DebouncerIInv
  BY DebouncerInitIInv, DebouncerNextIInv, PTL DEF DebouncerSpec
<1>3. DebouncerTypeOK /\ NotForgotten /\ (Prompt => OneRun) => DebouncerSound
  BY DEF DebouncerSound
<1> QED
  BY <1>1, <1>2, <1>3, EventsKept, RunsAlone, PTL

----------------------------------------------------------------------------
(* Trash and versions, for any number of workers, files, items and failures.*)

TrashConstants ==
    /\ None \notin Worker \cup Trash!Node \cup Nat /\ Trash!Node \cap Nat = {} /\ Folder \notin Files
    /\ MaxKey \in Nat /\ MaxVersion \in Nat /\ MaxFail \in Nat

(* The names of nodes, versions and keys do not mix.                       *)
LEMMA TrashNames ==
    ASSUME TrashConstants
    PROVE  /\ None \notin Trash!Node /\ None \notin Trash!Key /\ None # 0 /\ 0 \notin Trash!Key
           /\ Trash!Version \subseteq Nat /\ Trash!Node \cap Nat = {} /\ Trash!Node \cap Trash!Version = {}
<1>1. Trash!Version \subseteq Nat /\ Trash!Key \subseteq Nat \ {0}
  BY DEF TrashConstants, Trash!Version, Trash!Key
<1>2. 0 \in Nat
  OBVIOUS
<1> QED BY ZenonT(60), <1>1, <1>2 DEF TrashConstants

(* What x holds is out of reach of a step.                                 *)
Keeps(x) ==
    /\ step'[x] = step[x] /\ key'[x] = key[x] /\ todo'[x] = todo[x] /\ emptying' = emptying
    /\ touched \subseteq touched'
    /\ step[x] # "next" =>
          /\ items'[key[x]] = items[key[x]]
          /\ \A v \in Trash!Version : owner'[v] \in items[key[x]] <=> owner[v] \in items[key[x]]
          /\ vfile' \cap Trash!VersionsOf(items[key[x]]) \subseteq vfile
          /\ durable' \cap (items[key[x]] \cup Trash!VersionsOf(items[key[x]])) \subseteq durable
    /\ \A y \in Trash!Working' \ {x} : key'[y] # key[x]

LEMMA KeepsOwns ==
    ASSUME NEW x \in Worker, Trash!Owns(x), Keeps(x)
    PROVE  Trash!Owns(x)'
<1>1. CASE step[x] = "next"
  BY ZenonT(60), <1>1 DEF Trash!Owns, Keeps
<1>2. CASE step[x] # "next"
  <2>1. Trash!VersionsOf(items[key[x]])' = Trash!VersionsOf(items[key[x]]) /\ items'[key'[x]] = items[key[x]]
    BY ZenonT(60), <1>2 DEF Keeps, Trash!VersionsOf
  <2> QED BY ZenonT(60), <1>2, <2>1 DEF Trash!Owns, Keeps
<1> QED BY <1>1, <1>2

(* A step of w alone: the others are working on what they were.            *)
LEMMA OthersKeep ==
    ASSUME Trash!Held, Trash!Shapes, NEW w \in Worker, NEW x \in Trash!Working \ {w},
           step' = [step EXCEPT ![w] = step'[w]] /\ key' = [key EXCEPT ![w] = key'[w]] /\ todo' = [todo EXCEPT ![w] = todo'[w]],
           emptying' = IF emptying = w THEN None ELSE emptying,
           w \in Trash!Working' => (w \in Trash!Working /\ key'[w] = key[w]) \/ key'[w] # key[x],
           touched \subseteq touched', vfile' \subseteq vfile, durable' \subseteq durable,
           step[x] # "next" =>
             /\ items'[key[x]] = items[key[x]]
             /\ \A v \in Trash!Version : owner'[v] \in items[key[x]] <=> owner[v] \in items[key[x]]
    PROVE  Trash!Owns(x)'
<1>1. x \in Worker /\ Trash!Owns(x)
  BY DEF Trash!Held, Trash!Working
<1>2. emptying' = emptying
  BY <1>1 DEF Trash!Owns
<1>3. \A y \in Worker \ {w} : step'[y] = step[y] /\ key'[y] = key[y] /\ todo'[y] = todo[y]
  BY DEF Trash!Shapes
<1>4. ASSUME NEW y \in Trash!Working' \ {x} PROVE key'[y] # key[x]
  <2>1. y \in Worker /\ y # x /\ step'[y] \notin {"idle", "lock"}
    BY ZenonT(60) DEF Trash!Working
  <2>2. y \in Trash!Working => key[y] # key[x]
    BY ZenonT(60), <1>1, <2>1 DEF Trash!Owns
  <2>3. CASE y = w
    BY ZenonT(60), <2>1, <2>2, <2>3
  <2>4. CASE y # w
    <3>1. step'[y] = step[y] /\ key'[y] = key[y]
      BY ZenonT(60), <1>3, <2>1, <2>4
    <3>2. y \in Trash!Working
      BY ZenonT(60), <2>1, <3>1 DEF Trash!Working
    <3> QED BY ZenonT(60), <2>2, <3>1, <3>2
  <2> QED BY <2>3, <2>4
<1> QED BY ZenonT(60), <1>1, <1>2, <1>3, <1>4, KeepsOwns DEF Keeps

LEMMA EndHeld ==
    ASSUME TrashConstants, Trash!Held, Trash!Shapes, NEW w \in Worker, Trash!End(w),
           touched \subseteq touched', vfile' \subseteq vfile, durable' \subseteq durable,
           \A x \in Trash!Working \ {w} : step[x] # "next" =>
             /\ items'[key[x]] = items[key[x]]
             /\ \A v \in Trash!Version : owner'[v] \in items[key[x]] <=> owner[v] \in items[key[x]]
    PROVE  Trash!Held'
<1>1. /\ step' = [step EXCEPT ![w] = "idle"] /\ key' = [key EXCEPT ![w] = 0] /\ todo' = [todo EXCEPT ![w] = {}]
      /\ emptying' = IF emptying = w THEN None ELSE emptying
  BY DEF Trash!End, Trash!Goto
<1>2. /\ step'[w] = "idle" /\ key'[w] = 0 /\ todo'[w] = {}
      /\ \A y \in Worker \ {w} : step'[y] = step[y] /\ key'[y] = key[y]
  BY <1>1 DEF Trash!Shapes
<1>3. w \notin Trash!Working' /\ Trash!Working' \subseteq Trash!Working \ {w} /\ Trash!Working \ {w} \subseteq Trash!Working'
  BY ZenonT(60), <1>2 DEF Trash!Working
<1>4. ASSUME NEW x \in Trash!Working' PROVE Trash!Owns(x)'
  BY ZenonT(60), <1>1, <1>2, <1>3, OthersKeep
<1>5. \A y \in Worker : step'[y] = "lock" => key'[y] \in Trash!Key
  BY ZenonT(60), <1>2 DEF Trash!Held
<1>6. \A y \in Worker : emptying' = y => y \in Trash!Working'
  BY ZenonT(60), <1>1, <1>3 DEF Trash!Held, TrashConstants
<1> QED BY <1>4, <1>5, <1>6 DEF Trash!Held, Trash!Key

LEMMA EndShapes ==
    ASSUME Trash!Shapes, NEW w \in Worker, Trash!End(w)
    PROVE  /\ step' \in [Worker -> {"idle", "lock", "restore", "next", "purge", "versions", "delete"}]
           /\ key' \in [Worker -> Trash!Key \cup {0}] /\ list' \in [Worker -> SUBSET Trash!Key]
           /\ todo' \in [Worker -> SUBSET Trash!Version] /\ emptying' \in Worker \cup {None}
BY DEF Trash!Shapes, Trash!End, Trash!Goto

(* Publications: nobody works on a node of the tree.                       *)
LEMMA ReplaceTrash ==
    ASSUME TrashConstants, Trash!IInv, NEW f \in Files, Trash!Replace(f)
    PROVE  Trash!IInv'
<1> USE DEF Trash!IInv
<1> PICK v \in Trash!Version :
      /\ owner[v] = None /\ v \notin durable
      /\ owner' = [owner EXCEPT ![v] = f]
      /\ vfile' = vfile \cup {v} /\ durable' = durable \cup {v}
  BY ZenonT(60) DEF Trash!Replace
<1>1. /\ place[f] = 0 /\ emptying = None
      /\ UNCHANGED <<place, inside, items, there, touched, step, key, list, todo, emptying, keys, fails>>
  BY ZenonT(60) DEF Trash!Replace, Trash!TreeFree, Trash!local
<1>2. f \in Trash!Node /\ f # None /\ v \notin Trash!Node /\ Trash!Version \subseteq Nat
  BY DEF TrashConstants, Trash!Node, Trash!Version
<1>3. owner'[v] = f /\ \A u \in Trash!Version \ {v} : owner'[u] = owner[u]
  BY DEF Trash!TypeOK
<1>4. Trash!TypeOK' /\ Trash!Shapes'
  BY <1>1 DEF Trash!TypeOK, Trash!Shapes
<1>5. Trash!Led'
  BY <1>1, <1>2, <1>3 DEF Trash!Led
<1>6. Trash!OthersUntouched'
  BY <1>1, <1>3 DEF Trash!OthersUntouched
<1>7. ASSUME NEW x \in Trash!Working PROVE Trash!Owns(x)'
  <2>1. x \in Worker /\ Trash!Owns(x)
    BY DEF Trash!Held, Trash!Working
  <2>2. step[x] # "next" => key[x] \in Trash!Key /\ f \notin items[key[x]] /\ None \notin items[key[x]]
    BY <1>1, <1>2, <2>1 DEF Trash!Owns, Trash!TypeOK, Trash!Shapes, Trash!Key, TrashConstants
  <2>3. step[x] # "next" => \A u \in Trash!Version : owner'[u] \in items[key[x]] <=> owner[u] \in items[key[x]]
    BY ZenonT(60), <1>3, <2>2
  <2>4. step[x] # "next" => v \notin Trash!VersionsOf(items[key[x]]) /\ v \notin items[key[x]]
    BY <1>2, <2>2 DEF Trash!VersionsOf, Trash!Shapes
  <2>5. Trash!Working' = Trash!Working
    BY <1>1 DEF Trash!Working
  <2>6. step[x] # "next" =>
          /\ vfile' \cap Trash!VersionsOf(items[key[x]]) \subseteq vfile
          /\ durable' \cap (items[key[x]] \cup Trash!VersionsOf(items[key[x]])) \subseteq durable
    BY ZenonT(60), <2>4
  <2>7. \A y \in Trash!Working \ {x} : key[y] # key[x]
    BY ZenonT(60), <2>1 DEF Trash!Owns
  <2>8. Keeps(x)
    BY ZenonT(60), <1>1, <2>3, <2>5, <2>6, <2>7 DEF Keeps
  <2> QED BY ZenonT(60), <2>1, <2>8, KeepsOwns
<1>8. Trash!Held'
  BY ZenonT(60), <1>1, <1>7 DEF Trash!Held, Trash!Working
<1> QED BY <1>4, <1>5, <1>6, <1>8

LEMMA DeleteTrash ==
    ASSUME TrashConstants, Trash!IInv, NEW n \in Trash!Node, Trash!Delete(n)
    PROVE  Trash!IInv'
<1> USE DEF Trash!IInv
<1> DEFINE sub == Trash!Subtree(n)
<1>1. /\ place[n] = 0 /\ emptying = None /\ keys < MaxKey /\ keys' = keys + 1
      /\ items' = [items EXCEPT ![keys + 1] = sub]
      /\ place' = [m \in Trash!Node |-> IF m \in sub THEN keys + 1 ELSE place[m]]
      /\ inside' \subseteq inside
      /\ UNCHANGED <<owner, there, vfile, durable, touched, step, key, list, todo, emptying, fails>>
  BY DEF Trash!Delete, Trash!TreeFree, Trash!local, Trash!disk
<1>2. sub \subseteq Trash!Node /\ n \in sub /\ \A m \in sub : place[m] = 0
  BY ZenonT(60), <1>1 DEF Trash!Subtree, Trash!Node, Trash!Shapes
<1> HIDE DEF sub
<1>3. /\ keys \in Nat /\ keys + 1 \in Trash!Key /\ items[keys + 1] = {} /\ 0 \notin Trash!Key
      /\ items'[keys + 1] = sub /\ \A k \in Trash!Key \ {keys + 1} : items'[k] = items[k]
  BY <1>1 DEF Trash!Shapes, Trash!Key, TrashConstants
<1>4. \A k \in Trash!Key : k > keys + 1 => k > keys
  BY <1>3 DEF Trash!Key
<1>5. Trash!TypeOK'
  <2>1. place' \in [Trash!Node -> Trash!Key \cup {0, None}]
    BY <1>1, <1>3 DEF Trash!TypeOK
  <2>2. ASSUME NEW k \in Trash!Key, NEW m \in Trash!Node PROVE m \in items'[k] <=> place'[m] = k
    BY <1>1, <1>2, <1>3 DEF Trash!TypeOK
  <2> QED BY ZenonT(60), <1>1, <2>1, <2>2 DEF Trash!TypeOK, Trash!Key, Trash!Node, Trash!Version
<1>6. Trash!Shapes'
  <2>1. keys' \in 0..MaxKey /\ \A k \in Trash!Key : k > keys' => items'[k] = {}
    BY <1>1, <1>3, <1>4 DEF Trash!Shapes, Trash!Key, TrashConstants
  <2>2. items' \in [Trash!Key -> SUBSET Trash!Node] /\ inside' \subseteq Files
    BY <1>1, <1>2, <1>3 DEF Trash!Shapes
  <2> QED BY <1>1, <2>1, <2>2 DEF Trash!Shapes, Trash!Key, Trash!Node, Trash!Version
<1>7. Trash!Led'
  <2>1. \A m \in Trash!Node : place[m] # None => place'[m] # None
    BY ZenonT(60), <1>1, <1>3, TrashNames
  <2> QED BY ZenonT(60), <1>1, <2>1 DEF Trash!Led, Trash!Node, Trash!Version
<1>8. Trash!OthersUntouched'
  BY ZenonT(60), <1>1 DEF Trash!OthersUntouched, Trash!Node, Trash!Version
<1>9. Trash!Held'
  <2>1. ASSUME NEW x \in Trash!Working PROVE Trash!Owns(x)'
    <3>1. x \in Worker /\ Trash!Owns(x)
      BY DEF Trash!Held, Trash!Working
    <3>2. step[x] # "next" => items'[key[x]] = items[key[x]]
      BY ZenonT(60), <1>1, <1>3, <3>1 DEF Trash!Owns
    <3>3. Trash!Working' = Trash!Working
      BY <1>1 DEF Trash!Working
    <3> QED BY ZenonT(60), <1>1, <3>1, <3>2, <3>3, KeepsOwns DEF Keeps, Trash!Owns
  <2> QED BY ZenonT(60), <1>1, <2>1 DEF Trash!Held, Trash!Working, Trash!Key
<1> QED BY <1>5, <1>6, <1>7, <1>8, <1>9

(* Taking locks changes no row and no entry.                               *)
LEMMA SameRows ==
    ASSUME Trash!TypeOK, Trash!Led, Trash!OthersUntouched,
           UNCHANGED <<place, inside, items, owner, there, vfile, durable, touched, keys, fails>>
    PROVE  Trash!TypeOK' /\ Trash!Led' /\ Trash!OthersUntouched'
BY ZenonT(60) DEF Trash!TypeOK, Trash!Led, Trash!OthersUntouched, Trash!Key, Trash!Node, Trash!Version

LEMMA BeginTrashTrash ==
    ASSUME TrashConstants, Trash!IInv, NEW w \in Worker, NEW k \in Trash!Key, Trash!BeginTrash(w, k)
    PROVE  Trash!IInv'
<1> USE DEF Trash!IInv
<1>1. /\ step[w] = "idle" /\ key' = [key EXCEPT ![w] = k] /\ step' = [step EXCEPT ![w] = "lock"]
      /\ UNCHANGED <<place, inside, items, owner, there, vfile, durable, touched, list, todo, emptying, keys, fails>>
  BY ZenonT(60) DEF Trash!BeginTrash, Trash!Goto, Trash!rows, Trash!disk
<1>2. Trash!Shapes'
  BY <1>1 DEF Trash!Shapes, Trash!Key, Trash!Node, Trash!Version
<1>3. /\ step'[w] = "lock" /\ key'[w] = k
      /\ \A y \in Worker \ {w} : step'[y] = step[y] /\ key'[y] = key[y]
  BY <1>1 DEF Trash!Shapes
<1>4. w \notin Trash!Working /\ Trash!Working' = Trash!Working
  BY <1>1, <1>3 DEF Trash!Working
<1>5. ASSUME NEW x \in Trash!Working PROVE Trash!Owns(x)'
  <2>1. x \in Worker \ {w} /\ Trash!Owns(x)
    BY ZenonT(60), <1>4 DEF Trash!Held, Trash!Working
  <2>2. \A y \in Trash!Working' \ {x} : key'[y] # key[x]
    BY ZenonT(60), <1>3, <1>4, <2>1 DEF Trash!Owns, Trash!Working
  <2> QED BY ZenonT(60), <1>1, <1>3, <2>1, <2>2, KeepsOwns DEF Keeps
<1>6. Trash!Held'
  BY <1>1, <1>3, <1>4, <1>5 DEF Trash!Held, Trash!Key
<1> QED BY <1>1, <1>2, <1>6, SameRows

LEMMA LockTrash ==
    ASSUME TrashConstants, Trash!IInv, NEW w \in Worker, NEW what \in {"purge", "restore"}, Trash!Lock(w, what)
    PROVE  Trash!IInv'
<1> USE DEF Trash!IInv
<1>1. /\ step[w] = "lock" /\ emptying = None /\ \A x \in Trash!Working : key[x] # key[w]
      /\ UNCHANGED <<place, inside, items, owner, there, vfile, durable, touched, keys, fails>>
  BY DEF Trash!Lock, Trash!ItemFree, Trash!TreeFree, Trash!rows, Trash!disk
<1>2. CASE Trash!End(w)
  <2>1. Trash!Shapes'
    BY ZenonT(60), <1>1, <1>2, EndShapes DEF Trash!Shapes, Trash!Key, Trash!Node, Trash!Version
  <2>2. Trash!Held'
    BY ZenonT(60), <1>1, <1>2, EndHeld
  <2> QED BY ZenonT(60), <1>1, <2>1, <2>2, SameRows
<1>3. CASE /\ items[key[w]] # {} /\ step' = [step EXCEPT ![w] = what]
           /\ UNCHANGED <<key, list, todo, emptying>>
  <2>1. Trash!Shapes'
    BY <1>1, <1>3 DEF Trash!Shapes, Trash!Key, Trash!Node, Trash!Version
  <2>2. step'[w] = what /\ \A y \in Worker \ {w} : step'[y] = step[y]
    BY <1>3 DEF Trash!Shapes
  <2>3. Trash!Working' = Trash!Working \cup {w} /\ w \notin Trash!Working
    BY ZenonT(60), <1>1, <2>2 DEF Trash!Working
  <2>4. ASSUME NEW x \in Trash!Working PROVE Trash!Owns(x)'
    <3>1. x \in Worker \ {w} /\ Trash!Owns(x)
      BY ZenonT(60), <2>3 DEF Trash!Held, Trash!Working
    <3>2. \A y \in Trash!Working' \ {x} : key'[y] # key[x]
      BY ZenonT(60), <1>1, <1>3, <2>3, <3>1 DEF Trash!Owns
    <3> QED BY ZenonT(60), <1>1, <1>3, <2>2, <3>1, <3>2, KeepsOwns DEF Keeps
  <2>5. Trash!Owns(w)'
    <3>1. key[w] \in Trash!Key
      BY ZenonT(60), <1>1 DEF Trash!Held
    <3>2. \A x \in Trash!Working' \ {w} : key'[x] # key'[w]
      BY ZenonT(60), <1>1, <1>3, <2>3
    <3> QED BY ZenonT(60), <1>1, <1>3, <2>2, <3>1, <3>2 DEF Trash!Owns, Trash!Key
  <2>6. Trash!Held'
    BY ZenonT(60), <1>1, <1>3, <2>2, <2>3, <2>4, <2>5 DEF Trash!Held, Trash!Key, TrashConstants
  <2> QED BY ZenonT(60), <1>1, <2>1, <2>6, SameRows
<1> QED BY <1>2, <1>3 DEF Trash!Lock, Trash!Goto

LEMMA RestoreTrash ==
    ASSUME TrashConstants, Trash!IInv, NEW w \in Worker, Trash!RestoreRecycleItem(w)
    PROVE  Trash!IInv'
<1> USE DEF Trash!IInv
<1>1. step[w] = "restore" /\ w \in Trash!Working /\ Trash!End(w) /\ UNCHANGED <<owner, there, vfile, durable, touched, keys, fails>>
  BY ZenonT(60) DEF Trash!RestoreRecycleItem, Trash!Working, Trash!disk
<1>2. Trash!Owns(w) /\ key[w] \in Trash!Key
  BY ZenonT(60), <1>1 DEF Trash!Held, Trash!Owns
<1>3. CASE UNCHANGED <<place, inside, items>>
  <2>1. Trash!Shapes'
    BY ZenonT(60), <1>1, <1>3, EndShapes DEF Trash!Shapes, Trash!Key, Trash!Node, Trash!Version
  <2>2. Trash!Held'
    BY ZenonT(60), <1>1, <1>3, EndHeld
  <2> QED BY <1>1, <1>3, <2>1, <2>2, SameRows
<1>4. CASE /\ place' = [n \in Trash!Node |-> IF n \in items[key[w]] THEN 0 ELSE place[n]]
           /\ \/ UNCHANGED inside
              \/ place[Folder] = 0 /\ Folder \notin items[key[w]] /\ inside' = inside \cup items[key[w]]
           /\ items' = [items EXCEPT ![key[w]] = {}]
  <2>1. 0 \notin Trash!Key /\ items'[key[w]] = {} /\ \A k \in Trash!Key \ {key[w]} : items'[k] = items[k]
    BY <1>2, <1>4 DEF Trash!Shapes, Trash!Key
  <2>2. Trash!TypeOK'
    <3>1. place' \in [Trash!Node -> Trash!Key \cup {0, None}]
      BY <1>4 DEF Trash!TypeOK
    <3>2. ASSUME NEW k \in Trash!Key, NEW m \in Trash!Node PROVE m \in items'[k] <=> place'[m] = k
      BY <1>2, <1>4, <2>1 DEF Trash!TypeOK
    <3> QED BY ZenonT(60), <1>1, <3>1, <3>2 DEF Trash!TypeOK, Trash!Key, Trash!Node, Trash!Version
  <2>3. Trash!Shapes'
    <3>1. items' \in [Trash!Key -> SUBSET Trash!Node] /\ \A k \in Trash!Key : k > keys' => items'[k] = {}
      BY ZenonT(60), <1>1, <1>4, <2>1 DEF Trash!Shapes
    <3>2. inside \subseteq Files /\ items[key[w]] \subseteq Files \cup {Folder}
      BY ZenonT(60), <1>2 DEF Trash!Shapes, Trash!Node
    <3>3. inside' \subseteq Files
      BY ZenonT(60), <1>4, <3>2
    <3> QED BY ZenonT(60), <1>1, <3>1, <3>3, EndShapes DEF Trash!Shapes, Trash!Key, Trash!Node, Trash!Version
  <2>4. Trash!Led'
    <3>1. \A n \in Trash!Node : place[n] # None => place'[n] # None
      BY ZenonT(60), <1>4, TrashNames
    <3> QED BY ZenonT(60), <1>1, <3>1 DEF Trash!Led, Trash!Node, Trash!Version
  <2>5. Trash!OthersUntouched'
    BY <1>1 DEF Trash!OthersUntouched, Trash!Node, Trash!Version
  <2>6. \A x \in Trash!Working \ {w} : step[x] # "next" => items'[key[x]] = items[key[x]]
    BY ZenonT(60), <1>1, <1>2, <2>1 DEF Trash!Held, Trash!Owns
  <2>7. Trash!Held'
    BY ZenonT(60), <1>1, <2>6, EndHeld
  <2> QED BY <2>2, <2>3, <2>4, <2>5, <2>7
<1> QED BY ZenonT(60), <1>3, <1>4 DEF Trash!RestoreRecycleItem

LEMMA EmptyRecycleTrash ==
    ASSUME TrashConstants, Trash!IInv, NEW w \in Worker, Trash!EmptyRecycle(w)
    PROVE  Trash!IInv'
<1> USE DEF Trash!IInv
<1>1. /\ step[w] = "idle" /\ Trash!Working = {} /\ emptying' = w /\ step' = [step EXCEPT ![w] = "next"]
      /\ list' = [list EXCEPT ![w] = {k \in Trash!Key : items[k] # {}}]
      /\ UNCHANGED <<place, inside, items, owner, there, vfile, durable, touched, key, todo, keys, fails>>
  BY ZenonT(60) DEF Trash!EmptyRecycle, Trash!Goto, Trash!rows, Trash!disk
<1>2. Trash!Shapes'
  BY <1>1 DEF Trash!Shapes, Trash!Key, Trash!Node, Trash!Version
<1>3. step'[w] = "next" /\ \A y \in Worker \ {w} : step'[y] = step[y]
  BY <1>1 DEF Trash!Shapes
<1>4. Trash!Working' = {w}
  BY ZenonT(60), <1>1, <1>3 DEF Trash!Working
<1>5. Trash!Owns(w)'
  BY ZenonT(60), <1>1, <1>3, <1>4 DEF Trash!Owns
<1>6. Trash!Held'
  BY ZenonT(60), <1>1, <1>3, <1>4, <1>5 DEF Trash!Held, Trash!Key
<1> QED BY ZenonT(60), <1>1, <1>2, <1>6, SameRows

LEMMA NextItemTrash ==
    ASSUME TrashConstants, Trash!IInv, NEW w \in Worker, Trash!NextItem(w)
    PROVE  Trash!IInv'
<1> USE DEF Trash!IInv
<1>1. step[w] = "next" /\ UNCHANGED <<place, inside, items, owner, there, vfile, durable, touched, keys, fails>>
  BY DEF Trash!NextItem, Trash!rows, Trash!disk
<1>2. CASE Trash!End(w)
  <2>1. Trash!Shapes'
    BY <1>1, <1>2, EndShapes DEF Trash!Shapes, Trash!Key, Trash!Node, Trash!Version
  <2>2. Trash!Held'
    BY <1>1, <1>2, EndHeld
  <2> QED BY <1>1, <2>1, <2>2, SameRows
<1>3. ASSUME NEW k \in list[w], key' = [key EXCEPT ![w] = k], list' = [list EXCEPT ![w] = @ \ {k}],
             step' = [step EXCEPT ![w] = "purge"], UNCHANGED <<todo, emptying>>
      PROVE  Trash!IInv'
  <2>1. k \in Trash!Key
    BY DEF Trash!Shapes
  <2>2. Trash!Shapes'
    BY <1>1, <1>3, <2>1 DEF Trash!Shapes, Trash!Key, Trash!Node, Trash!Version
  <2>3. step'[w] = "purge" /\ key'[w] = k /\ \A y \in Worker \ {w} : step'[y] = step[y] /\ key'[y] = key[y]
    BY <1>3, <2>1 DEF Trash!Shapes
  <2>4. w \in Trash!Working /\ emptying = w
    BY ZenonT(60), <1>1 DEF Trash!Held, Trash!Owns, Trash!Working
  <2>5. Trash!Working = {w}
    BY ZenonT(60), <2>4 DEF Trash!Held, Trash!Owns, TrashConstants
  <2>6. Trash!Working' = {w}
    BY ZenonT(60), <1>1, <2>3, <2>5 DEF Trash!Working
  <2>7. Trash!Owns(w)'
    BY ZenonT(60), <1>3, <2>1, <2>3, <2>4, <2>6 DEF Trash!Owns, Trash!Key, TrashConstants
  <2>8. Trash!Held'
    BY <1>3, <2>1, <2>3, <2>4, <2>6, <2>7 DEF Trash!Held, Trash!Key
  <2> QED BY ZenonT(60), <1>1, <2>2, <2>8, SameRows
<1> QED BY <1>2, <1>3 DEF Trash!NextItem, Trash!Goto

(* The steps of a purge before its rows go: w goes on with its item.       *)
LEMMA PurgeHeld ==
    ASSUME TrashConstants, Trash!IInv, NEW w \in Trash!Working, NEW at \in {"versions", "delete"},
           step[w] # "next", step' = [step EXCEPT ![w] = at], todo' = [todo EXCEPT ![w] = todo'[w]],
           UNCHANGED <<place, inside, items, owner, key, list, emptying, keys, fails>>,
           touched \subseteq touched', vfile' \subseteq vfile, durable' \subseteq durable,
           items[key[w]] \subseteq touched',
           at = "versions" => /\ todo'[w] \subseteq Trash!VersionsOf(items[key[w]])
                              /\ Trash!VersionsOf(items[key[w]]) \cap vfile' \subseteq todo'[w],
           at = "delete" => durable' \cap (items[key[w]] \cup Trash!VersionsOf(items[key[w]])) = {}
    PROVE  Trash!Held'
<1> USE DEF Trash!IInv
<1>1. w \in Worker /\ Trash!Owns(w) /\ key[w] \in Trash!Key
  BY ZenonT(60) DEF Trash!Held, Trash!Working, Trash!Owns
<1>2. step'[w] = at /\ \A y \in Worker \ {w} : step'[y] = step[y] /\ todo'[y] = todo[y]
  BY <1>1 DEF Trash!Shapes
<1>3. Trash!Working' = Trash!Working
  BY ZenonT(60), <1>1, <1>2 DEF Trash!Working
<1>4. ASSUME NEW x \in Trash!Working \ {w} PROVE Trash!Owns(x)'
  <2>1. x \in Worker /\ Trash!Owns(x)
    BY ZenonT(60) DEF Trash!Held, Trash!Working
  <2>2. \A y \in Trash!Working' \ {x} : key'[y] # key[x]
    BY ZenonT(60), <1>3, <2>1 DEF Trash!Owns
  <2> QED BY ZenonT(60), <1>2, <2>1, <2>2, KeepsOwns DEF Keeps
<1>5. Trash!Owns(w)'
  <2>1. Trash!VersionsOf(items[key[w]])' = Trash!VersionsOf(items[key[w]])
    BY ZenonT(60) DEF Trash!VersionsOf, Trash!Version
  <2> QED BY ZenonT(180), <1>1, <1>2, <1>3, <2>1 DEF Trash!Owns, Trash!Key
<1> QED BY ZenonT(60), <1>1, <1>2, <1>3, <1>4, <1>5 DEF Trash!Held, Trash!Key

LEMMA PurgeTrash ==
    ASSUME TrashConstants, Trash!IInv, NEW w \in Worker, Trash!Purge(w)
    PROVE  Trash!IInv'
<1> USE DEF Trash!IInv
<1>1. /\ step[w] = "purge" /\ w \in Trash!Working
      /\ todo' = [todo EXCEPT ![w] = Trash!VersionsOf(items[key[w]])] /\ touched' = touched \cup items[key[w]]
      /\ step' = [step EXCEPT ![w] = "versions"]
      /\ UNCHANGED <<place, inside, items, owner, there, vfile, durable, key, list, emptying, keys, fails>>
  BY ZenonT(60) DEF Trash!Purge, Trash!Goto, Trash!rows, Trash!disk, Trash!Working
<1>2. key[w] \in Trash!Key /\ items[key[w]] \subseteq Trash!Node
  BY ZenonT(60), <1>1 DEF Trash!Held, Trash!Owns, Trash!Shapes
<1>3. Trash!VersionsOf(items[key[w]]) \subseteq Trash!Version /\ todo'[w] = Trash!VersionsOf(items[key[w]])
  BY <1>1 DEF Trash!VersionsOf, Trash!Shapes
<1>4. Trash!Shapes'
  BY ZenonT(60), <1>1, <1>2, <1>3 DEF Trash!Shapes, Trash!Key, Trash!Node, Trash!Version
<1>5. Trash!TypeOK' /\ Trash!Led'
  BY ZenonT(60), <1>1 DEF Trash!TypeOK, Trash!Led, Trash!Key, Trash!Node, Trash!Version
<1>6. Trash!OthersUntouched'
  BY ZenonT(60), <1>1 DEF Trash!OthersUntouched, Trash!Node, Trash!Version
<1>7. todo' = [todo EXCEPT ![w] = todo'[w]]
  BY ZenonT(60), <1>1, <1>3
<1>8. Trash!Held'
  BY ZenonT(60), <1>1, <1>3, <1>7, PurgeHeld
<1> QED BY <1>4, <1>5, <1>6, <1>8

LEMMA RemoveVersionTrash ==
    ASSUME TrashConstants, Trash!IInv, NEW w \in Worker, NEW v \in Trash!Version, Trash!RemoveVersion(w, v)
    PROVE  Trash!IInv'
<1> USE DEF Trash!IInv
<1>1. /\ step[w] = "versions" /\ w \in Trash!Working /\ v \in todo[w]
      /\ vfile' = vfile \ {v} /\ todo' = [todo EXCEPT ![w] = @ \ {v}]
      /\ UNCHANGED <<place, inside, items, owner, there, durable, touched, step, key, list, emptying, keys, fails>>
  BY ZenonT(60) DEF Trash!RemoveVersion, Trash!rows, Trash!Working
<1>2. /\ key[w] \in Trash!Key /\ items[key[w]] \subseteq touched
      /\ todo[w] \subseteq Trash!VersionsOf(items[key[w]])
      /\ Trash!VersionsOf(items[key[w]]) \cap vfile \subseteq todo[w]
  BY ZenonT(60), <1>1 DEF Trash!Held, Trash!Owns
<1>3. owner[v] \in touched
  BY ZenonT(60), <1>1, <1>2 DEF Trash!VersionsOf
<1>4. todo'[w] = todo[w] \ {v} /\ todo' = [todo EXCEPT ![w] = todo'[w]] /\ step' = [step EXCEPT ![w] = "versions"]
  BY <1>1 DEF Trash!Shapes
<1>5. Trash!Shapes'
  BY <1>1 DEF Trash!Shapes, Trash!Key, Trash!Node, Trash!Version
<1>6. Trash!TypeOK' /\ Trash!Led'
  BY ZenonT(60), <1>1 DEF Trash!TypeOK, Trash!Led, Trash!Key, Trash!Node, Trash!Version
<1>7. Trash!OthersUntouched'
  BY <1>1, <1>3 DEF Trash!OthersUntouched, Trash!Node, Trash!Version
<1>8. Trash!Held'
  BY ZenonT(60), <1>1, <1>2, <1>4, PurgeHeld
<1> QED BY <1>5, <1>6, <1>7, <1>8

LEMMA RemoveEntryTrash ==
    ASSUME TrashConstants, Trash!IInv, NEW w \in Worker, NEW n \in Trash!Node, Trash!RemoveEntry(w, n)
    PROVE  Trash!IInv'
<1> USE DEF Trash!IInv
<1>1. /\ step[w] = "versions" /\ w \in Trash!Working /\ n \in items[key[w]] /\ there' = there \ {n}
      /\ UNCHANGED <<place, inside, items, owner, vfile, durable, touched, step, key, list, todo, emptying, keys, fails>>
  BY ZenonT(60) DEF Trash!RemoveEntry, Trash!rows, Trash!local, Trash!Working
<1>2. /\ key[w] \in Trash!Key /\ items[key[w]] \subseteq touched
      /\ todo[w] \subseteq Trash!VersionsOf(items[key[w]])
      /\ Trash!VersionsOf(items[key[w]]) \cap vfile \subseteq todo[w]
  BY ZenonT(60), <1>1 DEF Trash!Held, Trash!Owns
<1>3. step' = [step EXCEPT ![w] = "versions"] /\ todo' = [todo EXCEPT ![w] = todo'[w]]
  BY <1>1 DEF Trash!Shapes
<1>4. Trash!Shapes'
  BY <1>1 DEF Trash!Shapes, Trash!Key, Trash!Node, Trash!Version
<1>5. Trash!TypeOK' /\ Trash!Led'
  BY ZenonT(60), <1>1 DEF Trash!TypeOK, Trash!Led, Trash!Key, Trash!Node, Trash!Version
<1>6. Trash!OthersUntouched'
  BY ZenonT(60), <1>1, <1>2 DEF Trash!OthersUntouched, Trash!Node, Trash!Version
<1>7. Trash!Held'
  BY ZenonT(60), <1>1, <1>2, <1>3, PurgeHeld
<1> QED BY <1>4, <1>5, <1>6, <1>7

(* After the directories are synced, nothing of the item can come back.    *)
LEMMA SyncDirsTrash ==
    ASSUME TrashConstants, Trash!IInv, NEW w \in Worker, Trash!SyncDirs(w)
    PROVE  Trash!IInv'
<1> USE DEF Trash!IInv
<1>1. /\ step[w] = "versions" /\ w \in Trash!Working /\ todo[w] = {} /\ items[key[w]] \cap there = {}
      /\ durable' = there \cup vfile /\ step' = [step EXCEPT ![w] = "delete"]
      /\ UNCHANGED <<place, inside, items, owner, there, vfile, touched, key, list, todo, emptying, keys, fails>>
  BY ZenonT(60) DEF Trash!SyncDirs, Trash!rows, Trash!Goto, Trash!Working
<1>2. /\ key[w] \in Trash!Key /\ items[key[w]] \subseteq touched /\ items[key[w]] \subseteq Trash!Node
      /\ Trash!VersionsOf(items[key[w]]) \cap vfile = {}
  BY ZenonT(60), <1>1 DEF Trash!Held, Trash!Owns, Trash!Shapes
<1>3. /\ Trash!VersionsOf(items[key[w]]) \subseteq Nat /\ vfile \subseteq Nat
      /\ there \cap Nat = {} /\ items[key[w]] \cap Nat = {}
  <2>1. Trash!VersionsOf(items[key[w]]) \subseteq Trash!Version /\ vfile \subseteq Trash!Version /\ there \subseteq Trash!Node
    BY ZenonT(60) DEF Trash!VersionsOf, Trash!TypeOK
  <2> QED BY ZenonT(60), <1>2, <2>1, TrashNames
<1>4. durable' \cap (items[key[w]] \cup Trash!VersionsOf(items[key[w]])) = {} /\ durable' \subseteq durable
  BY ZenonT(60), <1>1, <1>2, <1>3 DEF Trash!Led
<1>5. todo' = [todo EXCEPT ![w] = todo'[w]]
  BY <1>1 DEF Trash!Shapes
<1>6. Trash!Shapes'
  BY <1>1 DEF Trash!Shapes, Trash!Key, Trash!Node, Trash!Version
<1>7. Trash!TypeOK' /\ Trash!OthersUntouched'
  BY ZenonT(60), <1>1 DEF Trash!TypeOK, Trash!OthersUntouched, Trash!Key, Trash!Node, Trash!Version
<1>8. Trash!Led'
  BY ZenonT(60), <1>1, <1>4 DEF Trash!Led, Trash!Node, Trash!Version
<1>9. Trash!Held'
  BY ZenonT(60), <1>1, <1>2, <1>4, <1>5, PurgeHeld
<1> QED BY <1>6, <1>7, <1>8, <1>9

LEMMA DeleteRowsTrash ==
    ASSUME TrashConstants, Trash!IInv, NEW w \in Worker, Trash!DeleteRows(w)
    PROVE  Trash!IInv'
<1> USE DEF Trash!IInv
<1> DEFINE k == key[w]
<1>1. /\ step[w] = "delete" /\ w \in Trash!Working
      /\ owner' = [v \in Trash!Version |-> IF owner[v] \in items[k] THEN None ELSE owner[v]]
      /\ place' = [n \in Trash!Node |-> IF place[n] = k THEN None ELSE place[n]]
      /\ items' = [items EXCEPT ![k] = {}]
      /\ UNCHANGED <<inside, there, vfile, durable, touched, keys, fails>>
  BY ZenonT(60) DEF Trash!DeleteRows, Trash!disk, Trash!Working
<1>2. /\ Trash!Owns(w) /\ k \in Trash!Key /\ items[k] \subseteq Trash!Node
      /\ durable \cap (items[k] \cup Trash!VersionsOf(items[k])) = {}
  BY ZenonT(60), <1>1 DEF Trash!Held, Trash!Owns, Trash!Shapes
<1>3. None \notin Trash!Key /\ items'[k] = {} /\ \A l \in Trash!Key \ {k} : items'[l] = items[l]
  <2>1. items \in [Trash!Key -> SUBSET Trash!Node]
    BY ZenonT(60) DEF Trash!Shapes
  <2> QED BY ZenonT(60), <1>1, <1>2, <2>1, TrashNames
<1>4. Trash!TypeOK'
  <2>1. place' \in [Trash!Node -> Trash!Key \cup {0, None}] /\ owner' \in [Trash!Version -> Files \cup {None}]
    BY ZenonT(60), <1>1 DEF Trash!TypeOK
  <2>2. ASSUME NEW l \in Trash!Key, NEW m \in Trash!Node PROVE m \in items'[l] <=> place'[m] = l
    BY ZenonT(60), <1>1, <1>2, <1>3 DEF Trash!TypeOK
  <2> QED BY ZenonT(60), <1>1, <2>1, <2>2 DEF Trash!TypeOK, Trash!Key, Trash!Node, Trash!Version
<1>5. items' \in [Trash!Key -> SUBSET Trash!Node] /\ \A l \in Trash!Key : l > keys' => items'[l] = {}
  BY ZenonT(60), <1>1, <1>3 DEF Trash!Shapes
<1>6. Trash!Led'
  <2>1. \A v \in durable \cap Trash!Version : owner'[v] = owner[v]
    BY ZenonT(60), <1>1, <1>2 DEF Trash!VersionsOf
  <2>2. \A n \in durable \cap Trash!Node : place'[n] = place[n]
    BY ZenonT(60), <1>1, <1>2 DEF Trash!TypeOK
  <2> QED BY ZenonT(60), <1>1, <2>1, <2>2 DEF Trash!Led, Trash!Node, Trash!Version
<1>7. Trash!OthersUntouched'
  BY ZenonT(60), <1>1 DEF Trash!OthersUntouched, Trash!Node, Trash!Version
<1>8. CASE emptying # w /\ Trash!End(w)
  <2>1. ASSUME NEW x \in Trash!Working \ {w}, step[x] # "next"
        PROVE  /\ items'[key[x]] = items[key[x]]
               /\ \A v \in Trash!Version : owner'[v] \in items[key[x]] <=> owner[v] \in items[key[x]]
    <3>1. key[x] # k /\ key[x] \in Trash!Key
      BY ZenonT(60), <1>2, <2>1 DEF Trash!Owns, Trash!Held
    <3>2. ASSUME NEW n \in Trash!Node, n \in items[key[x]] PROVE n \notin items[k]
      <4>1. (n \in items[key[x]] <=> place[n] = key[x]) /\ (n \in items[k] <=> place[n] = k)
        BY ZenonT(60), <1>2, <3>1 DEF Trash!TypeOK
      <4> QED BY ZenonT(60), <3>1, <3>2, <4>1
    <3>3. items[key[x]] \subseteq Trash!Node
      BY <3>1 DEF Trash!Shapes
    <3>4. items[key[x]] \cap items[k] = {} /\ None \notin items[key[x]]
      BY ZenonT(60), <3>2, <3>3, TrashNames
    <3> QED BY ZenonT(60), <1>1, <1>3, <3>1, <3>4
  <2>2. Trash!Held'
    BY ZenonT(60), <1>1, <1>8, <2>1, EndHeld
  <2>3. Trash!Shapes'
    BY ZenonT(60), <1>1, <1>5, <1>8, EndShapes DEF Trash!Shapes, Trash!Key, Trash!Node, Trash!Version
  <2> QED BY <1>4, <1>6, <1>7, <2>2, <2>3
<1>9. CASE emptying = w /\ step' = [step EXCEPT ![w] = "next"] /\ UNCHANGED <<key, list, todo, emptying>>
  <2>1. step'[w] = "next" /\ \A y \in Worker \ {w} : step'[y] = step[y]
    BY <1>9 DEF Trash!Shapes
  <2>2. Trash!Working = {w}
    BY ZenonT(60), <1>1, <1>9 DEF Trash!Held, Trash!Owns, TrashConstants
  <2>3. Trash!Working' = {w}
    BY ZenonT(60), <2>1, <2>2 DEF Trash!Working
  <2>4. Trash!Owns(w)'
    BY ZenonT(60), <1>9, <2>1, <2>3 DEF Trash!Owns
  <2>5. Trash!Held'
    BY ZenonT(60), <1>9, <2>1, <2>3, <2>4 DEF Trash!Held, Trash!Key
  <2>6. Trash!Shapes'
    BY ZenonT(60), <1>1, <1>5, <1>9 DEF Trash!Shapes, Trash!Key, Trash!Node, Trash!Version
  <2> QED BY <1>4, <1>6, <1>7, <2>5, <2>6
<1> QED BY ZenonT(60), <1>8, <1>9 DEF Trash!DeleteRows, Trash!Goto

LEMMA PowerLossTrash ==
    ASSUME TrashConstants, Trash!IInv, Trash!PowerLoss
    PROVE  Trash!IInv'
<1> USE DEF Trash!IInv
<1> PICK back \in SUBSET (durable \ (there \cup vfile)) :
      there' = there \cup (back \cap Trash!Node) /\ vfile' = vfile \cup (back \cap Trash!Version)
  BY DEF Trash!PowerLoss
<1>1. /\ step' = [w \in Worker |-> "idle"] /\ key' = [w \in Worker |-> 0]
      /\ list' = [w \in Worker |-> {}] /\ todo' = [w \in Worker |-> {}] /\ emptying' = None
      /\ UNCHANGED <<place, inside, items, owner, durable, touched, keys>>
  BY DEF Trash!PowerLoss, Trash!rows
<1>2. Trash!Shapes'
  BY ZenonT(60), <1>1 DEF Trash!Shapes, Trash!Key, Trash!Node, Trash!Version
<1>3. Trash!TypeOK'
  BY ZenonT(60), <1>1 DEF Trash!TypeOK, Trash!Key, Trash!Node, Trash!Version
<1>4. Trash!Led'
  BY <1>1 DEF Trash!Led, Trash!Node, Trash!Version
<1>5. Trash!OthersUntouched'
  BY <1>1 DEF Trash!OthersUntouched, Trash!Node, Trash!Version
<1>6. Trash!Held'
  BY ZenonT(60), <1>1 DEF Trash!Held, Trash!Working, TrashConstants
<1> QED BY <1>2, <1>3, <1>4, <1>5, <1>6

LEMMA FailTrash ==
    ASSUME TrashConstants, Trash!IInv, NEW w \in Worker, Trash!Fail(w)
    PROVE  Trash!IInv'
<1> USE DEF Trash!IInv
<1>1. Trash!End(w) /\ UNCHANGED <<place, inside, items, owner, there, vfile, durable, touched, keys>>
  BY DEF Trash!Fail, Trash!rows, Trash!disk
<1>2. Trash!TypeOK' /\ Trash!Led' /\ Trash!OthersUntouched'
  BY ZenonT(60), <1>1 DEF Trash!TypeOK, Trash!Led, Trash!OthersUntouched, Trash!Key, Trash!Node, Trash!Version
<1>3. Trash!Shapes'
  BY ZenonT(60), <1>1, EndShapes DEF Trash!Shapes, Trash!Key, Trash!Node, Trash!Version
<1>4. Trash!Held'
  BY ZenonT(60), <1>1, EndHeld
<1> QED BY <1>2, <1>3, <1>4

LEMMA TrashInit == ASSUME TrashConstants, Trash!Init PROVE Trash!IInv
<1>1. Trash!TypeOK /\ Trash!Shapes
  <2>1. /\ place = [n \in Trash!Node |-> 0] /\ owner = [v \in Trash!Version |-> None]
        /\ there = Trash!Node /\ vfile = {} /\ items = [k \in Trash!Key |-> {}]
    BY ZenonT(60) DEF Trash!Init
  <2>2. Trash!TypeOK
    <3>1. \A k \in Trash!Key : \A n \in Trash!Node : n \in items[k] <=> place[n] = k
      BY ZenonT(60), <2>1, TrashNames
    <3> QED BY ZenonT(60), <2>1, <3>1 DEF Trash!TypeOK
  <2>3. keys \in 0..MaxKey
    BY DEF Trash!Init, TrashConstants
  <2>4. \A k \in Trash!Key : items[k] = {}
    BY ZenonT(60), <2>1
  <2>5. /\ inside = Files /\ touched = {} /\ emptying = None /\ step = [x \in Worker |-> "idle"]
        /\ key = [x \in Worker |-> 0] /\ list = [x \in Worker |-> {}] /\ todo = [x \in Worker |-> {}]
    BY ZenonT(60) DEF Trash!Init
  <2> QED BY ZenonT(60), <2>1, <2>2, <2>3, <2>4, <2>5 DEF Trash!Shapes
<1>2. Trash!Led
  <2>1. there \cup vfile = Trash!Node /\ durable = Trash!Node /\ \A n \in Trash!Node : place[n] = 0
    BY ZenonT(60) DEF Trash!Init
  <2> QED BY ZenonT(60), <2>1, TrashNames DEF Trash!Led
<1>3. Trash!OthersUntouched /\ Trash!Held
  BY ZenonT(60) DEF TrashConstants, Trash!Init, Trash!OthersUntouched, Trash!Held, Trash!Working, Trash!Node, Trash!Version
<1> QED BY <1>1, <1>2, <1>3 DEF Trash!IInv

LEMMA TrashNext == ASSUME TrashConstants, Trash!IInv, [Trash!Next]_Trash!vars PROVE Trash!IInv'
<1>1. ASSUME NEW w \in Worker, Trash!Step(w) PROVE Trash!IInv'
  BY <1>1, RestoreTrash, NextItemTrash, PurgeTrash, SyncDirsTrash, DeleteRowsTrash, RemoveVersionTrash,
     RemoveEntryTrash DEF Trash!Step
<1>2. ASSUME NEW w \in Worker,
             Trash!Lock(w, "purge") \/ Trash!Lock(w, "restore") \/ Trash!EmptyRecycle(w) \/ Trash!Fail(w)
      PROVE  Trash!IInv'
  BY <1>2, LockTrash, EmptyRecycleTrash, FailTrash
<1>3. ASSUME NEW w \in Worker, NEW k \in Trash!Key, Trash!BeginTrash(w, k) PROVE Trash!IInv'
  BY <1>3, BeginTrashTrash
<1>4. ASSUME NEW f \in Files, Trash!Replace(f) PROVE Trash!IInv'
  BY <1>4, ReplaceTrash
<1>5. ASSUME NEW n \in Trash!Node, Trash!Delete(n) PROVE Trash!IInv'
  BY <1>5, DeleteTrash
<1>6. CASE UNCHANGED Trash!vars
  <2>1. UNCHANGED <<place, inside, items, owner, there, vfile, durable, touched, step, key, list, todo, emptying, keys, fails>>
    BY <1>6 DEF Trash!vars, Trash!rows, Trash!disk, Trash!local
  <2>2. Trash!TypeOK' /\ Trash!Led' /\ Trash!OthersUntouched'
    BY <2>1, SameRows DEF Trash!IInv
  <2>3. Trash!Shapes'
    BY <2>1 DEF Trash!IInv, Trash!Shapes, Trash!Key, Trash!Node, Trash!Version
  <2>4. Trash!Held'
    BY ZenonT(60), <2>1 DEF Trash!IInv, Trash!Held, Trash!Owns, Trash!Working, Trash!Key, Trash!VersionsOf, Trash!Version
  <2> QED BY <2>2, <2>3, <2>4 DEF Trash!IInv
<1> QED BY <1>1, <1>2, <1>3, <1>4, <1>5, <1>6, PowerLossTrash DEF Trash!Next

(* Contents always have a row that leads to them, and a purge touches      *)
(* nothing but its item, whatever fails, comes back after a power failure  *)
(* or goes on at the same time (PurgeRecycleItem, EmptyRecycle).           *)
THEOREM TrashKept ==
    ASSUME TrashConstants
    PROVE  Trash!Spec => [](Trash!NoOrphans /\ Trash!OthersUntouched)
<1>1. Trash!Init => Trash!IInv
  BY TrashInit
<1>2. Trash!IInv /\ [Trash!Next]_Trash!vars => Trash!IInv'
  BY TrashNext
<1>3. Trash!IInv => Trash!NoOrphans /\ Trash!OthersUntouched
  BY DEF Trash!IInv, Trash!NoOrphans, Trash!Led, Trash!TypeOK
<1> QED BY <1>1, <1>2, <1>3, PTL DEF Trash!Spec
=============================================================================
