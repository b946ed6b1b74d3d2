--------------------------- MODULE DirectoryProofs ---------------------------
(***************************************************************************)
(* Theorems about Directory for all sets of users, identities, mailboxes,  *)
(* addresses and manifests and every value of the bounds.                  *)
(***************************************************************************)
EXTENDS Directory, Functions, FiniteSetTheorems, TLAPS

LEMMA OperationFields ==
  ASSUME NEW op \in Operation
  PROVE  /\ op.kind = "createUser" => op.identity \in Identities /\ op.admin \in BOOLEAN
         /\ op.kind = "updateUser" => op.user \in Users /\ op.status \in Status \cup {None}
         /\ op.kind \in {"addIdentity", "removeIdentity"} =>
              op.user \in Users /\ op.identity \in Identities
         /\ op.kind \in {"grant", "revoke"} => op.user \in Users
         /\ op.kind = "createMailbox" => op.address \in Addresses /\ op.owner \in Users
         /\ op.kind = "updateMailbox" => op.mailbox \in Mailboxes /\ op.status \in Status \cup {None}
         /\ op.kind = "addAddress" =>
              op.mailbox \in Mailboxes /\ op.address \in Addresses /\ op.as \in Kind
         /\ op.kind = "updateAddress" =>
              op.mailbox \in Mailboxes /\ op.address \in Addresses /\ op.status \in Status
         /\ op.kind = "removeAddress" => op.mailbox \in Mailboxes /\ op.address \in Addresses
         /\ op.kind = "setMember" => op.mailbox \in Mailboxes /\ op.user \in Users /\ op.role \in Role
         /\ op.kind = "removeMember" => op.mailbox \in Mailboxes /\ op.user \in Users
BY DEF Operation

\* What a request has checked is an operation with its rows.
LEMMA CheckedOperation ==
  ASSUME TypeOK, NEW i \in Identities, request[i].at = "checked"
  PROVE  /\ request[i].op \in Operation
         /\ request[i].actor \in Users
         /\ request[i].seen \in Rows
         /\ request[i].op.kind \in {"updateUser", "updateMailbox"} => request[i].seen.status \in Status
BY DEF TypeOK, Request

LEMMA GrantingUser ==
  ASSUME TypeOK, NEW i \in Identities, request[i].at = "granting"
  PROVE  request[i].user \in Users
BY DEF TypeOK, Request

LEMMA InitTyped == Init => TypeOK
BY BoundsAssumption DEF Init, TypeOK, Idle, Request

\* What a request reads has the shape of Rows.
LEMMA ReadingTyped ==
  ASSUME TypeOK, NEW op \in Operation
  PROVE  Reading(op) \in Rows
<1>. USE DEF TypeOK
<1>1. /\ \A u : Cardinality(IdentitiesOf(u)) \in Nat
      /\ \A m : Cardinality(Owners(m)) \in Nat
      /\ Cardinality(ActiveAdmins) \in Nat
  BY FiniteAssumption, FS_CardinalityType, FS_Subset DEF IdentitiesOf, Owners, ActiveAdmins
<1>2. op.kind \in {"createUser", "updateUser", "addIdentity", "removeIdentity", "grant", "revoke",
                   "createMailbox", "updateMailbox", "addAddress", "updateAddress",
                   "removeAddress", "setMember", "removeMember"}
  BY DEF Operation
<1>. USE OperationFields
<1>3. CASE op.kind = "updateUser"
  <2>1. Reading(op) = [status |-> status[op.user], admin |-> op.user \in admins]
    BY <1>3 DEF Reading
  <2>2. status[op.user] \in Status \cup {None} /\ (op.user \in admins) \in BOOLEAN
    BY <1>3
  <2>3. Reading(op) \in [status : Status \cup {None}, admin : BOOLEAN]
    BY <2>1, <2>2
  <2>. QED BY <2>3 DEF Rows
<1>4. CASE op.kind = "removeIdentity"
  BY <1>1, <1>4 DEF Reading, Rows
<1>5. CASE op.kind \in {"addIdentity", "grant"}
  BY <1>5 DEF Reading, Rows
<1>6. CASE op.kind = "revoke"
  BY <1>1, <1>6 DEF Reading, Rows
<1>7. CASE op.kind = "updateMailbox"
  BY <1>7 DEF Reading, Rows
<1>8. CASE op.kind \in {"addAddress", "updateAddress", "removeAddress"}
  BY <1>8 DEF Reading, Rows
<1>9. CASE op.kind = "setMember"
  BY <1>9 DEF Reading, Rows
<1>10. CASE op.kind = "removeMember"
  <2>1. Reading(op) = [role |-> role[op.mailbox][op.user], count |-> Cardinality(Owners(op.mailbox))]
    BY <1>10 DEF Reading
  <2>2. role[op.mailbox][op.user] \in Role \cup {None}
    BY <1>10
  <2>3. Reading(op) \in [role : Role \cup {None}, count : Nat]
    BY <1>1, <2>1, <2>2
  <2>. QED BY <2>3 DEF Rows
<1>11. CASE op.kind \in {"createUser", "createMailbox"}
  BY <1>11 DEF Reading, Rows
<1>. QED BY <1>2, <1>3, <1>4, <1>5, <1>6, <1>7, <1>8, <1>9, <1>10, <1>11

\* An answer leaves the requests typed.
LEMMA AnswerTyped ==
  ASSUME TypeOK, NEW i \in Identities, Answer(i)
  PROVE  /\ request' \in [Identities -> Request]
         /\ \A j \in Identities : request'[j] = IF j = i THEN Idle ELSE request[j]
         /\ \A j \in Identities :
              (request'[j].at = "checked" /\ request'[j].op.kind \in {"updateUser", "updateMailbox"}) =>
                request'[j].seen.status \in Status
<1>1. Idle \in Request /\ Idle.at # "checked"
  BY DEF Idle, Request
<1>. QED BY <1>1 DEF Answer, TypeOK

LEMMA ManifestFields ==
  ASSUME NEW man \in Manifests
  PROVE  /\ \A m \in Boxes(man) : man.mailboxes[m].owner \in Users
         /\ \A m \in Boxes(man), u \in Users : man.mailboxes[m].members[u] \in Role \cup {None}
         /\ \A u \in Named(man) : man.users[u].identities \subseteq Identities
<1>1. Valid(man)
  BY ManifestAssumption
<1>2. \A m \in Boxes(man) : man.mailboxes[m] \in ManifestMailbox
  BY <1>1 DEF Valid, Boxes
<1>3. \A u \in Named(man) : man.users[u] \in ManifestUser
  BY <1>1 DEF Valid, Named
<1>. QED BY <1>2, <1>3 DEF ManifestMailbox, ManifestUser

LEMMA ProvisionTyped ==
  ASSUME TypeOK, NEW man \in Manifests, Provision(man)
  PROVE  TypeOK'
<1>. USE DEF TypeOK, Provision
<1>1. \A a \in Addresses : Provisioned(man)[a] \in AddressRow \cup {None}
  <2>. SUFFICES ASSUME NEW a \in Addresses PROVE Provisioned(man)[a] \in AddressRow \cup {None}
    OBVIOUS
  <2>1. CASE \E m \in Boxes(man) : a \in AddressesOf(man, m)
    <3>. DEFINE box == CHOOSE n \in Boxes(man) : a \in AddressesOf(man, n)
    <3>1. box \in Mailboxes
      BY <2>1 DEF Boxes
    <3>2. Provisioned(man)[a] = [mailbox |-> box, status |-> "active",
                                 kind |-> IF a = man.mailboxes[box].address THEN "primary" ELSE "alias"]
      BY <2>1 DEF Provisioned
    <3>. HIDE DEF box
    <3>. QED BY <3>1, <3>2 DEF AddressRow, Kind, Status
  <2>2. CASE ~\E m \in Boxes(man) : a \in AddressesOf(man, m)
    BY <2>2 DEF Provisioned
  <2>. QED BY <2>1, <2>2
<1>2. address' \in [Addresses -> AddressRow \cup {None}]
  BY <1>1 DEF Provisioned
<1>3. \A m \in Mailboxes, u \in Users : Membership(man, m, u) \in Role \cup {None}
  BY ManifestFields DEF Membership, Role
<1>4. role' \in [Mailboxes -> [Users -> Role \cup {None}]]
  BY <1>3
<1>5. \A i \in Identities : holder'[i] \in Users \cup {None}
  <2>. SUFFICES ASSUME NEW i \in Identities PROVE holder'[i] \in Users \cup {None}
    OBVIOUS
  <2>1. CASE \E u \in Named(man) : i \in man.users[u].identities
    BY <2>1 DEF Named
  <2>2. CASE ~\E u \in Named(man) : i \in man.users[u].identities
    BY <2>2
  <2>. QED BY <2>1, <2>2
<1>6. holder' \in [Identities -> Users \cup {None}]
  BY <1>5
<1>7. status' \in [Users -> Status \cup {None}] /\ mailbox' \in [Mailboxes -> Status \cup {None}]
  BY DEF Status
<1>8. admins' \subseteq Users /\ provisions' \in 0..MaxProvisions
  BY BoundsAssumption DEF Named
<1>. QED BY <1>2, <1>4, <1>6, <1>7, <1>8

LEMMA AdmitTyped ==
  ASSUME TypeOK, NEW i \in Identities, Admit(i)
  PROVE  TypeOK'
<1>1. [at |-> "admitted", actor |-> Administrator(i)] \in Request
  BY DEF Admit, Administrator, TypeOK, Request
<1>2. requests' \in 0..MaxRequests
  BY BoundsAssumption DEF Admit, TypeOK
<1>. QED BY <1>1, <1>2 DEF Admit, TypeOK, people, boxes

LEMMA CheckTyped ==
  ASSUME TypeOK, NEW i \in Identities, Check(i)
  PROVE  TypeOK'
<1>1. request[i].actor \in Users
  BY DEF Check, TypeOK, Request
<1>2. PICK op \in Operation : request' = [request EXCEPT ![i] =
             IF Denied(op, Reading(op), request[i].actor) THEN Idle
             ELSE [at |-> "checked", actor |-> request[i].actor, op |-> op, seen |-> Reading(op)]]
  BY DEF Check
<1>3. Idle \in Request /\ Idle.at # "checked"
  BY DEF Idle, Request
<1>4. [at |-> "checked", actor |-> request[i].actor, op |-> op, seen |-> Reading(op)] \in Request
  BY <1>1, ReadingTyped DEF Request
<1>5. op.kind = "updateUser" /\ ~Denied(op, Reading(op), request[i].actor)
        => Reading(op).status \in Status
  BY OperationFields DEF Denied, Reading, TypeOK
<1>6. op.kind = "updateMailbox" /\ ~Denied(op, Reading(op), request[i].actor)
        => Reading(op).status \in Status
  BY OperationFields DEF Denied, Reading, TypeOK
<1>7. request' \in [Identities -> Request]
  BY <1>2, <1>3, <1>4 DEF TypeOK
<1>8. ASSUME NEW j \in Identities, request'[j].at = "checked",
             request'[j].op.kind \in {"updateUser", "updateMailbox"}
      PROVE  request'[j].seen.status \in Status
  BY <1>2, <1>3, <1>5, <1>6, <1>8 DEF TypeOK
<1>. QED BY <1>7, <1>8 DEF Check, TypeOK, people, boxes

LEMMA PatchedTyped ==
  ASSUME TypeOK, NEW i \in Identities, request[i].at = "checked",
         request[i].op.kind \in {"updateUser", "updateMailbox"}
  PROVE  Patched(request[i].op, request[i].seen) \in Status
BY CheckedOperation, OperationFields DEF Patched

LEMMA AddressRowsTyped ==
  ASSUME TypeOK, NEW op \in Operation, NEW seen,
         op.kind \in {"addAddress", "updateAddress", "removeAddress"}
  PROVE  /\ Promoted(op, seen) \in [Addresses -> AddressRow \cup {None}]
         /\ Aliased(op) \in [Addresses -> AddressRow \cup {None}]
<1>1. op.mailbox \in Mailboxes /\ op.address \in Addresses
  BY OperationFields
<1>. DEFINE new == [mailbox |-> op.mailbox, kind |-> "primary", status |-> "active"]
            demoted == [a \in Addresses |->
                    IF a # op.address /\ a \in Primaries(op.mailbox)
                      THEN [address[a] EXCEPT !.kind = "alias"] ELSE address[a]]
<1>2. new \in AddressRow
  BY <1>1 DEF AddressRow, Kind, Status
<1>3. \A r \in AddressRow : /\ [r EXCEPT !.kind = "alias"] \in AddressRow
                            /\ [r EXCEPT !.status = "active"] \in AddressRow
  BY DEF AddressRow, Kind, Status
<1>4. demoted \in [Addresses -> AddressRow \cup {None}]
  BY <1>3 DEF Primaries, TypeOK
<1>5. Promoted(op, seen) \in {[demoted EXCEPT ![op.address] = new], address, demoted}
  BY DEF Promoted
<1>6. [demoted EXCEPT ![op.address] = new] \in [Addresses -> AddressRow \cup {None}]
  BY <1>1, <1>2, <1>4
<1>7. [mailbox |-> op.mailbox, kind |-> "alias", status |-> "active"] \in AddressRow
  BY <1>1 DEF AddressRow, Kind, Status
<1>8. Aliased(op) \in [Addresses -> AddressRow \cup {None}]
  BY <1>1, <1>3, <1>7 DEF Aliased, TypeOK
<1>. HIDE DEF demoted, new
<1>. QED BY <1>4, <1>5, <1>6, <1>8 DEF TypeOK

LEMMA AddAddressTyped ==
  ASSUME TypeOK, NEW i \in Identities, AddAddress(i)
  PROVE  address' \in [Addresses -> AddressRow \cup {None}]
<1>1. request[i].at = "checked" /\ request[i].op.kind = "addAddress"
  BY DEF AddAddress, Checked
<1>2. request[i].op \in Operation
  BY <1>1, CheckedOperation
<1>3. address' \in {address, Promoted(request[i].op, request[i].seen), Aliased(request[i].op)}
  BY DEF AddAddress
<1>4. /\ Promoted(request[i].op, request[i].seen) \in [Addresses -> AddressRow \cup {None}]
      /\ Aliased(request[i].op) \in [Addresses -> AddressRow \cup {None}]
  BY <1>1, <1>2, AddressRowsTyped
<1>. QED BY <1>3, <1>4 DEF TypeOK

\* An address that is added is of the request's mailbox; every other row keeps its own.
LEMMA AddedRows ==
  ASSUME TypeOK, NEW i \in Identities, AddAddress(i), NEW a \in Addresses, address'[a] # None
  PROVE  IF address[a] = None THEN address'[a].mailbox = request[i].op.mailbox
         ELSE address'[a].mailbox = address[a].mailbox
<1>. DEFINE op == request[i].op
            seen == request[i].seen
            new == [mailbox |-> op.mailbox, kind |-> "primary", status |-> "active"]
            demoted == [b \in Addresses |->
                    IF b # op.address /\ b \in Primaries(op.mailbox)
                      THEN [address[b] EXCEPT !.kind = "alias"] ELSE address[b]]
<1>1. op.address \in Addresses
  BY CheckedOperation, OperationFields DEF AddAddress, Checked
<1>2. \A b \in Addresses : address[b] # None => address[b] \in AddressRow
  BY DEF TypeOK
<1>3. \A r \in AddressRow : /\ [r EXCEPT !.kind = "alias"].mailbox = r.mailbox
                            /\ [r EXCEPT !.status = "active"].mailbox = r.mailbox
  BY DEF AddressRow
<1>4. address' \in {address, Promoted(op, seen), Aliased(op)}
  BY DEF AddAddress
<1>5. CASE address' = Aliased(op)
  <2>1. CASE address[op.address] = None
    BY <1>1, <1>5, <2>1 DEF Aliased, TypeOK
  <2>2. CASE address[op.address] # None
    <3>1. address' = [address EXCEPT ![op.address] = [address[op.address] EXCEPT !.status = "active"]]
      BY <1>5, <2>2 DEF Aliased
    <3>2. [address[op.address] EXCEPT !.status = "active"].mailbox = address[op.address].mailbox
      BY <1>1, <1>2, <1>3, <2>2
    <3>. HIDE DEF op
    <3>3. CASE a = op.address
      BY <1>1, <2>2, <3>1, <3>2, <3>3 DEF TypeOK
    <3>4. CASE a # op.address
      BY <1>1, <3>1, <3>4 DEF TypeOK
    <3>. QED BY <3>3, <3>4 DEF op
  <2>. QED BY <2>1, <2>2
<1>6. /\ demoted[a] # None => address[a] # None
      /\ address[a] # None => demoted[a].mailbox = address[a].mailbox
  <2>1. CASE a # op.address /\ a \in Primaries(op.mailbox)
    BY <1>2, <1>3, <2>1 DEF Primaries
  <2>2. CASE ~(a # op.address /\ a \in Primaries(op.mailbox))
    BY <2>2
  <2>. QED BY <2>1, <2>2
<1>7. CASE address' = Promoted(op, seen)
  <2>1. \/ address' \in {address, demoted}
        \/ /\ address' = [demoted EXCEPT ![op.address] = new]
           /\ address[op.address] # None => address[op.address].mailbox = op.mailbox
    <3>1. CASE seen.row = None
      BY <1>7, <3>1 DEF Promoted
    <3>2. CASE seen.row # None
      BY <1>7, <3>2 DEF Promoted
    <3>. QED BY <3>1, <3>2
  <2>2. CASE address' \in {address, demoted}
    <3>. HIDE DEF demoted
    <3>. QED BY <1>6, <2>2
  <2>3. CASE /\ address' = [demoted EXCEPT ![op.address] = new]
             /\ address[op.address] # None => address[op.address].mailbox = op.mailbox
    <3>1. address'[a] = IF a = op.address THEN new ELSE demoted[a]
      BY <1>1, <2>3
    <3>2. new.mailbox = op.mailbox
      OBVIOUS
    <3>. HIDE DEF demoted, new
    <3>. QED BY <1>6, <2>3, <3>1, <3>2
  <2>. QED BY <2>1, <2>2, <2>3
<1>. QED BY <1>4, <1>5, <1>7

LEMMA UserWritesTyped ==
  ASSUME TypeOK, NEW i \in Identities,
         \/ CreateUser(i) \/ GrantNew(i) \/ UpdateUser(i) \/ AddIdentity(i) \/ RemoveIdentity(i)
         \/ SetGrant(i)
  PROVE  TypeOK'
<1>. USE DEF TypeOK, people, boxes, Checked
<1>1. CASE CreateUser(i)
  <2>. DEFINE op == request[i].op
  <2>1. op.identity \in Identities
    BY <1>1, CheckedOperation, OperationFields DEF CreateUser
  <2>2. CASE holder[op.identity] # None
    BY <1>1, <2>2, AnswerTyped DEF CreateUser
  <2>3. CASE holder[op.identity] = None
    <3>1. PICK u \in Users :
             /\ status' = [status EXCEPT ![u] = "active"]
             /\ holder' = [holder EXCEPT ![op.identity] = u]
             /\ request' = [request EXCEPT ![i] =
                     IF op.admin THEN [at |-> "granting", user |-> u] ELSE Idle]
             /\ UNCHANGED admins
      BY <1>1, <2>3 DEF CreateUser
    <3>2. /\ [at |-> "granting", user |-> u] \in Request
          /\ Idle \in Request /\ Idle.at # "checked"
      BY DEF Request, Idle
    <3>3. /\ request' \in [Identities -> Request]
          /\ \A j \in Identities :
              (request'[j].at = "checked" /\ request'[j].op.kind \in {"updateUser", "updateMailbox"}) =>
                request'[j].seen.status \in Status
      BY <3>1, <3>2
    <3>4. status' \in [Users -> Status \cup {None}] /\ holder' \in [Identities -> Users \cup {None}]
      BY <2>1, <3>1 DEF Status
    <3>. QED BY <1>1, <3>1, <3>3, <3>4 DEF CreateUser
  <2>. QED BY <2>2, <2>3
<1>2. CASE GrantNew(i)
  BY <1>2, AnswerTyped, GrantingUser DEF GrantNew
<1>3. CASE UpdateUser(i)
  <2>1. request[i].op.user \in Users
    BY <1>3, CheckedOperation, OperationFields DEF UpdateUser
  <2>2. status' \in [Users -> Status \cup {None}]
    BY <1>3, <2>1, PatchedTyped DEF UpdateUser
  <2>. QED BY <1>3, <2>2, AnswerTyped DEF UpdateUser
<1>4. CASE AddIdentity(i)
  <2>1. request[i].op.user \in Users /\ request[i].op.identity \in Identities
    BY <1>4, CheckedOperation, OperationFields DEF AddIdentity
  <2>. QED BY <1>4, <2>1, AnswerTyped DEF AddIdentity
<1>5. CASE RemoveIdentity(i)
  BY <1>5, AnswerTyped DEF RemoveIdentity
<1>6. CASE SetGrant(i)
  <2>1. request[i].op.user \in Users
    BY <1>6, CheckedOperation, OperationFields DEF SetGrant
  <2>2. admins' \subseteq Users
    BY <1>6, <2>1 DEF SetGrant
  <2>. QED BY <1>6, <2>2, AnswerTyped DEF SetGrant
<1>. QED BY <1>1, <1>2, <1>3, <1>4, <1>5, <1>6

LEMMA MailboxWritesTyped ==
  ASSUME TypeOK, NEW i \in Identities,
         \/ CreateMailbox(i) \/ UpdateMailbox(i) \/ AddAddress(i)
         \/ UpdateAddress(i) \/ RemoveAddress(i) \/ SetMember(i) \/ RemoveMember(i)
  PROVE  TypeOK'
<1>. USE AnswerTyped DEF TypeOK, people, boxes, Checked
<1>. DEFINE op == request[i].op
<1>1. CASE CreateMailbox(i)
  <2>1. op.address \in Addresses /\ op.owner \in Users
    BY <1>1, CheckedOperation, OperationFields DEF CreateMailbox
  <2>2. CASE UNCHANGED boxes
    BY <1>1, <2>2 DEF CreateMailbox
  <2>3. CASE ~UNCHANGED boxes
    <3>1. PICK m \in Mailboxes :
                /\ mailbox' = [mailbox EXCEPT ![m] = "active"]
                /\ address' = [address EXCEPT ![op.address] =
                     [mailbox |-> m, kind |-> "primary", status |-> "active"]]
                /\ role' = [role EXCEPT ![m][op.owner] = "owner"]
      BY <1>1, <2>3 DEF CreateMailbox
    <3>2. [mailbox |-> m, kind |-> "primary", status |-> "active"] \in AddressRow
      BY DEF AddressRow, Kind, Status
    <3>3. /\ mailbox' \in [Mailboxes -> Status \cup {None}]
          /\ address' \in [Addresses -> AddressRow \cup {None}]
          /\ role' \in [Mailboxes -> [Users -> Role \cup {None}]]
      BY <2>1, <3>1, <3>2 DEF Status, Role
    <3>. QED BY <1>1, <3>3 DEF CreateMailbox
  <2>. QED BY <2>2, <2>3
<1>2. CASE UpdateMailbox(i)
  <2>1. op.mailbox \in Mailboxes
    BY <1>2, CheckedOperation, OperationFields DEF UpdateMailbox
  <2>2. mailbox' \in [Mailboxes -> Status \cup {None}]
    BY <1>2, <2>1, PatchedTyped DEF UpdateMailbox
  <2>. QED BY <1>2, <2>2 DEF UpdateMailbox
<1>3. CASE AddAddress(i)
  BY <1>3, AddAddressTyped DEF AddAddress
<1>4. CASE UpdateAddress(i)
  <2>1. op.address \in Addresses /\ op.status \in Status
    BY <1>4, CheckedOperation, OperationFields DEF UpdateAddress
  <2>2. \A r \in AddressRow : [r EXCEPT !.status = op.status] \in AddressRow
    BY <2>1 DEF AddressRow, Kind, Status
  <2>3. address' \in [Addresses -> AddressRow \cup {None}]
    BY <1>4, <2>1, <2>2 DEF UpdateAddress
  <2>. QED BY <1>4, <2>3 DEF UpdateAddress
<1>5. CASE RemoveAddress(i)
  <2>1. op.address \in Addresses
    BY <1>5, CheckedOperation, OperationFields DEF RemoveAddress
  <2>2. address' \in [Addresses -> AddressRow \cup {None}]
    BY <1>5, <2>1 DEF RemoveAddress
  <2>. QED BY <1>5, <2>2 DEF RemoveAddress
<1>6. CASE SetMember(i)
  <2>1. op.mailbox \in Mailboxes /\ op.user \in Users /\ op.role \in Role
    BY <1>6, CheckedOperation, OperationFields DEF SetMember
  <2>2. role' \in [Mailboxes -> [Users -> Role \cup {None}]]
    BY <1>6, <2>1 DEF SetMember
  <2>. QED BY <1>6, <2>2 DEF SetMember
<1>7. CASE RemoveMember(i)
  <2>1. op.mailbox \in Mailboxes /\ op.user \in Users
    BY <1>7, CheckedOperation, OperationFields DEF RemoveMember
  <2>2. role' \in [Mailboxes -> [Users -> Role \cup {None}]]
    BY <1>7, <2>1 DEF RemoveMember
  <2>. QED BY <1>7, <2>2 DEF RemoveMember
<1>. QED BY <1>1, <1>2, <1>3, <1>4, <1>5, <1>6, <1>7

LEMMA NextTyped ==
  ASSUME TypeOK, [Next]_vars PROVE TypeOK'
<1>1. ASSUME NEW i \in Identities, Dies(i) PROVE TypeOK'
  BY <1>1, AnswerTyped DEF Dies, TypeOK, people, boxes
<1>2. CASE UNCHANGED vars
  BY <1>2 DEF vars, people, boxes, TypeOK
<1>. QED BY <1>1, <1>2, ProvisionTyped, AdmitTyped, CheckTyped, UserWritesTyped, MailboxWritesTyped
         DEF Next, Write

-----------------------------------------------------------------------------
(* The invariant: what a request may still write was allowed by the rows   *)
(* it read, no row names a mailbox that is not there, and the index on     *)
(* active primary addresses holds.                                         *)

Allowed ==
  \A i \in Identities :
    request[i].at = "checked" =>
      /\ ~Denied(request[i].op, request[i].seen, request[i].actor)
      /\ request[i].op.kind = "addAddress" => mailbox[request[i].op.mailbox] # None

Referenced == \A a \in Addresses : address[a] # None => mailbox[address[a].mailbox] # None

IInv == TypeOK /\ Allowed /\ Referenced /\ Indexed(address)

LEMMA InitInvariant == Init => IInv
BY InitTyped DEF Init, IInv, Allowed, Referenced, Indexed, Idle

\* Only Check leaves a request about to write; mailboxes are never deleted.
LEMMA MailboxesStay ==
  ASSUME TypeOK, [Next]_vars
  PROVE  \A m \in Mailboxes : mailbox[m] # None => mailbox'[m] # None
<1>. USE DEF TypeOK, people, boxes
<1>1. ASSUME NEW i \in Identities, UpdateMailbox(i)
      PROVE  \A m \in Mailboxes : mailbox[m] # None => mailbox'[m] # None
  <2>1. Patched(request[i].op, request[i].seen) \in Status
    BY <1>1, PatchedTyped DEF UpdateMailbox, Checked
  <2>. QED BY <1>1, <2>1, NoneAssumption DEF UpdateMailbox
<1>2. ASSUME NEW i \in Identities, CreateMailbox(i)
      PROVE  \A m \in Mailboxes : mailbox[m] # None => mailbox'[m] # None
  BY <1>2 DEF CreateMailbox
<1>3. ASSUME NEW man \in Manifests, Provision(man)
      PROVE  \A m \in Mailboxes : mailbox[m] # None => mailbox'[m] # None
  BY <1>3, NoneAssumption DEF Provision, Status
<1>4. ASSUME NEW i \in Identities, Write(i), ~UpdateMailbox(i), ~CreateMailbox(i)
      PROVE  UNCHANGED mailbox
  BY <1>4 DEF Write, CreateUser, GrantNew, UpdateUser, AddIdentity, RemoveIdentity, SetGrant,
              AddAddress, UpdateAddress, RemoveAddress, SetMember, RemoveMember
<1>5. ASSUME NEW i \in Identities, Admit(i) \/ Check(i) \/ Dies(i)
      PROVE  UNCHANGED mailbox
  BY <1>5 DEF Admit, Check, Dies
<1>. QED BY <1>1, <1>2, <1>3, <1>4, <1>5 DEF Next, vars

LEMMA RequestsChange ==
  ASSUME TypeOK, [Next]_vars, NEW j \in Identities, request'[j].at = "checked"
  PROVE  \/ request'[j] = request[j]
         \/ Check(j) /\ request[j].at = "admitted"
<1>1. Idle.at = "idle"
  BY DEF Idle
<1>2. ASSUME NEW i \in Identities, Answer(i) PROVE request'[j] = request[j]
  BY <1>1, <1>2 DEF Answer, TypeOK
<1>3. ASSUME NEW i \in Identities, Write(i) PROVE request'[j] = request[j]
  <2>1. CASE CreateUser(i)
    <3>1. request'[i].at \in {"granting", "idle"} \/ Answer(i)
      BY <2>1, <1>1 DEF CreateUser, TypeOK
    <3>2. i # j => request'[j] = request[j]
      BY <2>1 DEF CreateUser, Answer, TypeOK
    <3>. QED BY <1>2, <3>1, <3>2
  <2>2. CASE ~CreateUser(i)
    <3>1. Answer(i)
      BY <1>3, <2>2 DEF Write, GrantNew, UpdateUser, AddIdentity, RemoveIdentity, SetGrant,
              CreateMailbox, UpdateMailbox, AddAddress, UpdateAddress, RemoveAddress, SetMember,
              RemoveMember
    <3>. QED BY <1>2, <3>1
  <2>. QED BY <2>1, <2>2
<1>4. ASSUME NEW i \in Identities, Admit(i) PROVE request'[j] = request[j]
  BY <1>4 DEF Admit, TypeOK
<1>5. ASSUME NEW i \in Identities, Check(i)
      PROVE  request'[j] = request[j] \/ (Check(j) /\ request[j].at = "admitted")
  BY <1>5 DEF Check, TypeOK
<1>. QED BY <1>2, <1>3, <1>4, <1>5 DEF Next, Dies, Provision, vars

LEMMA AllowedStays ==
  ASSUME IInv, [Next]_vars PROVE Allowed'
<1>. SUFFICES ASSUME NEW j \in Identities, request'[j].at = "checked"
     PROVE  /\ ~Denied(request'[j].op, request'[j].seen, request'[j].actor)
            /\ request'[j].op.kind = "addAddress" => mailbox'[request'[j].op.mailbox] # None
  BY DEF Allowed, Denied, Patched, Theirs, LastIdentity, LastOwner
<1>1. CASE request'[j] = request[j]
  <2>1. request[j].op \in Operation
    BY <1>1, CheckedOperation DEF IInv
  <2>2. request[j].op.kind = "addAddress" => request[j].op.mailbox \in Mailboxes
    BY <2>1, OperationFields
  <2>. QED BY <1>1, <2>2, MailboxesStay DEF IInv, Allowed
<1>2. CASE Check(j) /\ request[j].at = "admitted"
  <2>1. PICK op \in Operation : request' = [request EXCEPT ![j] =
             IF Denied(op, Reading(op), request[j].actor) THEN Idle
             ELSE [at |-> "checked", actor |-> request[j].actor, op |-> op, seen |-> Reading(op)]]
    BY <1>2 DEF Check
  <2>2. ~Denied(op, Reading(op), request[j].actor)
    BY <2>1 DEF Idle, IInv, TypeOK
  <2>3. request'[j] = [at |-> "checked", actor |-> request[j].actor, op |-> op, seen |-> Reading(op)]
    BY <2>1, <2>2 DEF IInv, TypeOK
  <2>4. op.kind = "addAddress" => mailbox[op.mailbox] # None
    BY <2>2 DEF Denied, Reading
  <2>5. UNCHANGED mailbox
    BY <1>2 DEF Check, boxes
  <2>. QED BY <2>2, <2>3, <2>4, <2>5
<1>. QED BY <1>1, <1>2, RequestsChange DEF IInv

\* A new row of a mailbox is of one that the administrator was shown, or is new itself.
LEMMA ReferencedStays ==
  ASSUME IInv, [Next]_vars PROVE Referenced' /\ Indexed(address')
<1>. USE DEF people, boxes
<1>1. \A m \in Mailboxes : mailbox[m] # None => mailbox'[m] # None
  BY MailboxesStay DEF IInv
<1>2. CASE UNCHANGED address
  BY <1>1, <1>2 DEF IInv, Referenced, TypeOK, AddressRow
<1>3. ASSUME NEW man \in Manifests, Provision(man) PROVE Referenced' /\ Indexed(address')
  <2>1. Indexed(address')
    BY <1>3 DEF Provision
  <2>2. ASSUME NEW a \in Addresses, address'[a] # None
        PROVE  mailbox'[address'[a].mailbox] # None
    <3>1. CASE \E m \in Boxes(man) : a \in AddressesOf(man, m)
      <4>. DEFINE box == CHOOSE n \in Boxes(man) : a \in AddressesOf(man, n)
      <4>1. box \in Boxes(man)
        BY <3>1
      <4>2. address'[a].mailbox = box
        BY <1>3, <3>1 DEF Provision, Provisioned
      <4>3. \A m \in Boxes(man) : mailbox'[m] = "active"
        BY <1>3 DEF Provision, Boxes
      <4>. HIDE DEF box
      <4>. QED BY <4>1, <4>2, <4>3, NoneAssumption DEF Status
    <3>2. CASE ~\E m \in Boxes(man) : a \in AddressesOf(man, m)
      <4>1. address'[a] = address[a]
        BY <1>3, <3>2 DEF Provision, Provisioned
      <4>. QED BY <1>1, <2>2, <4>1 DEF IInv, Referenced, TypeOK, AddressRow
    <3>. QED BY <3>1, <3>2
  <2>. QED BY <2>1, <2>2 DEF Referenced
<1>4. ASSUME NEW i \in Identities, CreateMailbox(i), ~UNCHANGED address
      PROVE  Referenced' /\ Indexed(address')
  <2>. DEFINE op == request[i].op
  <2>1. PICK m \in Mailboxes :
          /\ mailbox[m] = None
          /\ mailbox' = [mailbox EXCEPT ![m] = "active"]
          /\ address' = [address EXCEPT ![op.address] =
                  [mailbox |-> m, kind |-> "primary", status |-> "active"]]
    BY <1>4 DEF CreateMailbox
  <2>2. \A a \in Addresses : address[a] # None => address[a].mailbox # m
    BY <2>1 DEF IInv, Referenced
  <2>3. mailbox'[m] # None
    BY <2>1, NoneAssumption DEF Status, IInv, TypeOK
  <2>4. Referenced'
    BY <1>1, <2>1, <2>3 DEF IInv, Referenced, TypeOK, AddressRow
  <2>5. Indexed(address')
    BY <2>1, <2>2 DEF IInv, Indexed, TypeOK
  <2>. QED BY <2>4, <2>5
<1>5. ASSUME NEW i \in Identities, AddAddress(i), ~UNCHANGED address
      PROVE  Referenced' /\ Indexed(address')
  <2>. DEFINE op == request[i].op
  <2>1. op.mailbox \in Mailboxes /\ op.address \in Addresses /\ mailbox[op.mailbox] # None
    BY <1>5, CheckedOperation, OperationFields DEF AddAddress, Checked, IInv, Allowed
  <2>2. Indexed(address')
    BY <1>5 DEF AddAddress
  <2>3. ASSUME NEW a \in Addresses, address'[a] # None
        PROVE  \/ address'[a].mailbox = op.mailbox
               \/ /\ address[a] # None
                  /\ address'[a].mailbox = address[a].mailbox
    <3>1. TypeOK
      BY DEF IInv
    <3>2. AddAddress(i)
      BY <1>5
    <3>3. IF address[a] = None THEN address'[a].mailbox = request[i].op.mailbox
          ELSE address'[a].mailbox = address[a].mailbox
      BY <2>3, <3>1, <3>2, AddedRows
    <3>. QED BY <3>3
  <2>4. Referenced'
    BY <1>1, <2>1, <2>3 DEF IInv, Referenced, TypeOK, AddressRow
  <2>. QED BY <2>2, <2>4
<1>6. ASSUME NEW i \in Identities, UpdateAddress(i) \/ RemoveAddress(i), ~UNCHANGED address
      PROVE  Referenced' /\ Indexed(address')
  <2>1. \A a \in Addresses : address'[a] # None =>
          address[a] # None /\ address'[a].mailbox = address[a].mailbox
    BY <1>6 DEF UpdateAddress, RemoveAddress, IInv, TypeOK, AddressRow
  <2>2. Referenced'
    BY <1>1, <2>1 DEF IInv, Referenced, TypeOK, AddressRow
  <2>3. CASE UpdateAddress(i)
    BY <1>6, <2>2, <2>3 DEF UpdateAddress
  <2>4. CASE RemoveAddress(i)
    <3>1. \A a \in Addresses : address'[a] # None => address'[a] = address[a]
      BY <2>4 DEF RemoveAddress, IInv, TypeOK
    <3>2. Indexed(address')
      BY <3>1 DEF IInv, Indexed
    <3>. QED BY <2>2, <3>2
  <2>. QED BY <1>6, <2>3, <2>4
<1>7. ASSUME NEW i \in Identities, Write(i), ~CreateMailbox(i), ~AddAddress(i),
             ~UpdateAddress(i), ~RemoveAddress(i)
      PROVE  UNCHANGED address
  BY <1>7 DEF Write, CreateUser, GrantNew, UpdateUser, AddIdentity, RemoveIdentity, SetGrant,
              UpdateMailbox, SetMember, RemoveMember
<1>8. ASSUME NEW i \in Identities, Admit(i) \/ Check(i) \/ Dies(i)
      PROVE  UNCHANGED address
  BY <1>8 DEF Admit, Check, Dies
<1>. QED BY <1>2, <1>3, <1>4, <1>5, <1>6, <1>7, <1>8 DEF Next, Write, vars

THEOREM Invariant == Spec => []IInv
<1>1. Init => IInv
  BY InitInvariant
<1>2. IInv /\ [Next]_vars => IInv'
  BY NextTyped, AllowedStays, ReferencedStays DEF IInv, Indexed
<1>. QED BY <1>1, <1>2, PTL DEF Spec

\* The directory has the shape of its tables in every reachable state.
THEOREM DirectoryTypes == Spec => []TypeOK
<1>1. IInv => TypeOK
  BY DEF IInv
<1>. QED BY <1>1, Invariant, PTL

-----------------------------------------------------------------------------
(* The properties.                                                         *)

LEMMA MoreThanOne ==
  ASSUME NEW S, IsFiniteSet(S), NEW x, Cardinality(S) > 1
  PROVE  \E y \in S : y # x
<1>1. IsFiniteSet(S \ {x}) /\ Cardinality(S) \in Nat
      /\ Cardinality(S \ {x}) = IF x \in S THEN Cardinality(S) - 1 ELSE Cardinality(S)
  BY FS_RemoveElement, FS_CardinalityType
<1>2. Cardinality(S \ {x}) # 0
  BY <1>1
<1>3. S \ {x} # {}
  BY <1>2, FS_EmptySet
<1>. QED BY <1>3

\* One active primary row for each mailbox that a user is listed.
LEMMA AccessFromInvariant == IInv => AccessAgrees
<1>. SUFFICES ASSUME IInv, NEW i \in Identities
     PROVE  LET shown == {address[a].mailbox : a \in Listed(i)}
            IN  /\ Cardinality(shown) = Cardinality(Listed(i))
                /\ shown = {m \in Mailboxes : Authorized(i, m, "read") /\ HasPrimary(m)}
                /\ \A a \in Addresses :
                     Routed(a) # None /\ Authorized(i, Routed(a), "read") => Routed(a) \in shown
  BY DEF AccessAgrees
<1>. DEFINE shown == {address[a].mailbox : a \in Listed(i)}
<1>1. \A a \in Addresses : address[a] # None => address[a].mailbox \in Mailboxes
  BY DEF IInv, TypeOK, AddressRow
<1>2. Cardinality(shown) = Cardinality(Listed(i))
  <2>. DEFINE f == [a \in Listed(i) |-> address[a].mailbox]
  <2>1. ASSUME NEW a \in Listed(i), NEW b \in Listed(i), f[a] = f[b] PROVE a = b
    <3>1. /\ a \in Addresses /\ b \in Addresses
          /\ address[a] \in AddressRow /\ address[b] \in AddressRow
          /\ address[a].kind = "primary" /\ address[b].kind = "primary"
          /\ address[a].status = "active" /\ address[b].status = "active"
          /\ address[a].mailbox = address[b].mailbox
      BY <2>1 DEF Listed, Primaries, IInv, TypeOK
    <3>2. address[a] = address[b]
      BY <3>1 DEF AddressRow
    <3>. QED BY <3>1, <3>2, NoneAssumption DEF IInv, Indexed
  <2>2. f \in Bijection(Listed(i), shown)
    BY <2>1 DEF Bijection, Injection, Surjection, IsInjective
  <2>3. IsFiniteSet(Listed(i))
    BY FiniteAssumption, FS_Subset DEF Listed
  <2>. HIDE DEF f, shown
  <2>. QED BY <2>2, <2>3, FS_Bijection DEF ExistsBijection
<1>3. ASSUME NEW m \in Mailboxes, holder[i] # None
      PROVE  role[m][holder[i]] # None => "read" \in Grants(role[m][holder[i]])
  <2>1. role[m][holder[i]] \in Role \cup {None}
    BY <1>3 DEF IInv, TypeOK
  <2>. QED BY <2>1 DEF Grants, Capability, Role
<1>4. shown = {m \in Mailboxes : Authorized(i, m, "read") /\ HasPrimary(m)}
  <2>1. ASSUME NEW a \in Listed(i)
        PROVE  /\ address[a].mailbox \in Mailboxes
               /\ Authorized(i, address[a].mailbox, "read")
               /\ HasPrimary(address[a].mailbox)
    <3>1. PICK m \in Mailboxes : /\ role[m][holder[i]] # None
                                 /\ mailbox[m] = "active"
                                 /\ a \in Primaries(m) /\ address[a].status = "active"
      BY DEF Listed
    <3>2. address[a].mailbox = m
      BY <3>1 DEF Primaries
    <3>. QED BY <1>3, <3>1, <3>2 DEF Listed, Authorized, HasPrimary
  <2>2. ASSUME NEW m \in Mailboxes, Authorized(i, m, "read"), HasPrimary(m)
        PROVE  m \in shown
    <3>1. PICK a \in Primaries(m) : address[a].status = "active"
      BY <2>2 DEF HasPrimary
    <3>2. a \in Listed(i) /\ address[a].mailbox = m
      BY <2>2, <3>1 DEF Authorized, Listed, Primaries
    <3>. QED BY <3>2
  <2>. QED BY <2>1, <2>2
<1>5. ASSUME NEW a \in Addresses, Routed(a) # None, Authorized(i, Routed(a), "read")
      PROVE  Routed(a) \in shown
  <2>1. Routed(a) = address[a].mailbox /\ address[a] # None /\ HasPrimary(address[a].mailbox)
    BY <1>5 DEF Routed
  <2>. HIDE DEF shown
  <2>. QED BY <1>1, <1>4, <1>5, <2>1
<1>. QED BY <1>2, <1>4, <1>5

\* What a user is shown, may read and is sent agrees, whoever changes the directory.
THEOREM DirectoryAccess == Spec => []AccessAgrees
BY Invariant, AccessFromInvariant, PTL

LEMMA StepKeepsHolders ==
  ASSUME IInv, [Next]_vars
  PROVE  /\ \A a \in Addresses :
               address[a] # None /\ address'[a] # None => address'[a].mailbox = address[a].mailbox
         /\ \A i \in Identities :
               holder[i] # None /\ holder'[i] # None => holder'[i] = holder[i]
<1>. USE DEF people, boxes
<1>1. ASSUME NEW man \in Manifests, Provision(man), NEW a \in Addresses, address[a] # None
      PROVE  address'[a].mailbox = address[a].mailbox
  <2>1. CASE \E m \in Boxes(man) : a \in AddressesOf(man, m)
    <3>. DEFINE box == CHOOSE n \in Boxes(man) : a \in AddressesOf(man, n)
    <3>1. box \in Boxes(man) /\ a \in AddressesOf(man, box)
      BY <2>1
    <3>2. address'[a].mailbox = box
      BY <1>1, <2>1 DEF Provision, Provisioned
    <3>. HIDE DEF box
    <3>3. address[a].mailbox = box
      BY <1>1, <3>1 DEF Provision, Unowned
    <3>. QED BY <3>2, <3>3
  <2>2. CASE ~\E m \in Boxes(man) : a \in AddressesOf(man, m)
    BY <1>1, <2>2 DEF Provision, Provisioned
  <2>. QED BY <2>1, <2>2
<1>2. ASSUME NEW man \in Manifests, Provision(man), NEW i \in Identities, holder[i] # None
      PROVE  holder'[i] = holder[i]
  <2>1. CASE \E u \in Named(man) : i \in man.users[u].identities
    <3>. DEFINE user == CHOOSE u \in Named(man) : i \in man.users[u].identities
    <3>1. user \in Named(man) /\ i \in man.users[user].identities
      BY <2>1
    <3>2. holder'[i] = user
      BY <1>2, <2>1 DEF Provision
    <3>. HIDE DEF user
    <3>3. holder[i] = user
      BY <1>2, <3>1 DEF Provision, Unowned
    <3>. QED BY <3>2, <3>3
  <2>2. CASE ~\E u \in Named(man) : i \in man.users[u].identities
    BY <1>2, <2>2 DEF Provision
  <2>. QED BY <2>1, <2>2
<1>3. ASSUME NEW j \in Identities, Admit(j) \/ Check(j) \/ Write(j) \/ Dies(j),
             NEW a \in Addresses, address[a] # None, address'[a] # None
      PROVE  address'[a].mailbox = address[a].mailbox
  <2>1. address[a] \in AddressRow
    BY <1>3 DEF IInv, TypeOK
  <2>2. CASE AddAddress(j)
    <3>1. TypeOK
      BY DEF IInv
    <3>2. IF address[a] = None THEN address'[a].mailbox = request[j].op.mailbox
          ELSE address'[a].mailbox = address[a].mailbox
      BY <1>3, <2>2, <3>1, AddedRows
    <3>. QED BY <1>3, <3>2
  <2>3. CASE CreateMailbox(j)
    BY <1>3, <2>3 DEF CreateMailbox, IInv, TypeOK
  <2>4. CASE UpdateAddress(j) \/ RemoveAddress(j)
    BY <1>3, <2>1, <2>4 DEF UpdateAddress, RemoveAddress, IInv, TypeOK, AddressRow
  <2>5. CASE ~(AddAddress(j) \/ CreateMailbox(j) \/ UpdateAddress(j) \/ RemoveAddress(j))
    <3>1. UNCHANGED address
      BY <1>3, <2>5 DEF Write, CreateUser, GrantNew, UpdateUser, AddIdentity, RemoveIdentity,
              SetGrant, UpdateMailbox, SetMember, RemoveMember, Admit, Check, Dies
    <3>. QED BY <3>1
  <2>. QED BY <2>2, <2>3, <2>4, <2>5
<1>4. ASSUME NEW j \in Identities, Admit(j) \/ Check(j) \/ Write(j) \/ Dies(j),
             NEW i \in Identities, holder[i] # None, holder'[i] # None
      PROVE  holder'[i] = holder[i]
  <2>1. CASE CreateUser(j) \/ AddIdentity(j) \/ RemoveIdentity(j)
    BY <1>4, <2>1 DEF CreateUser, AddIdentity, RemoveIdentity, IInv, TypeOK
  <2>2. CASE ~(CreateUser(j) \/ AddIdentity(j) \/ RemoveIdentity(j))
    <3>1. UNCHANGED holder
      BY <1>4, <2>2 DEF Write, GrantNew, UpdateUser, SetGrant, CreateMailbox, UpdateMailbox,
              AddAddress, UpdateAddress, RemoveAddress, SetMember, RemoveMember, Admit, Check, Dies
    <3>. QED BY <3>1
  <2>. QED BY <2>1, <2>2
<1>. QED BY <1>1, <1>2, <1>3, <1>4 DEF Next, vars

\* No order of requests and provisioning moves an address or an identity to another holder.
THEOREM DirectoryHolders == Spec => HoldersStay
<1>1. IInv /\ [Next]_vars =>
        [/\ \A a \in Addresses :
               address[a] # None /\ address'[a] # None => address'[a].mailbox = address[a].mailbox
         /\ \A i \in Identities :
               holder[i] # None /\ holder'[i] # None => holder'[i] = holder[i]]_vars
  BY StepKeepsHolders
<1>. QED BY <1>1, Invariant, PTL DEF Spec, HoldersStay

\* A write that is not stale acts on the rows as they are, for an administrator.
LEMMA FreshWrite ==
  ASSUME IInv, NEW i \in Identities, request[i].at = "checked", request'[i].at # "checked", ~StaleWrite
  PROVE  /\ Administrator(i) = request[i].actor
         /\ request[i].actor \in Users
         /\ request[i].op \in Operation
         /\ Reading(request[i].op) = request[i].seen
         /\ ~Denied(request[i].op, Reading(request[i].op), request[i].actor)
<1>1. request'[i] # request[i]
  OBVIOUS
<1>2. Fresh(i)
  BY <1>1 DEF StaleWrite
<1>. QED BY <1>2, CheckedOperation DEF Fresh, IInv, Allowed

LEMMA Answered ==
  ASSUME IInv, NEW i \in Identities, Answer(i) PROVE request'[i].at # "checked"
BY DEF Answer, Idle, IInv, TypeOK

LEMMA StepGoverned ==
  ASSUME IInv, Next, Governed, ~StaleWrite PROVE Governed'
<1>. USE DEF people, Checked
<1>1. PICK j \in Identities : holder[j] # None /\ status[holder[j]] = "active" /\ holder[j] \in admins
  BY DEF Governed, Administrator
<1>. DEFINE u == holder[j]
<1>2. u \in Users /\ u # None
  BY <1>1 DEF IInv, TypeOK
<1>3. ASSUME NEW k \in Identities, holder'[k] # None, status'[holder'[k]] = "active",
             holder'[k] \in admins'
      PROVE  Governed'
  BY <1>3 DEF Governed, Administrator
<1>4. ASSUME UNCHANGED people PROVE Governed'
  BY <1>1, <1>3, <1>4
<1>5. ASSUME NEW man \in Manifests, Provision(man) PROVE Governed'
  <2>1. u \in admins' /\ status'[u] = "active"
    BY <1>1, <1>2, <1>5 DEF Provision, IInv, TypeOK
  <2>2. holder'[j] = u
    <3>1. CASE \E v \in Named(man) : j \in man.users[v].identities
      <4>. DEFINE v == CHOOSE v \in Named(man) : j \in man.users[v].identities
      <4>1. v \in Named(man) /\ j \in man.users[v].identities
        BY <3>1
      <4>2. holder'[j] = v
        BY <1>5, <3>1 DEF Provision
      <4>. HIDE DEF v
      <4>. QED BY <1>1, <1>5, <4>1, <4>2 DEF Provision, Unowned
    <3>2. CASE ~\E v \in Named(man) : j \in man.users[v].identities
      BY <1>5, <3>2 DEF Provision
    <3>. QED BY <3>1, <3>2
  <2>. QED BY <1>2, <1>3, <2>1, <2>2
<1>6. ASSUME NEW i \in Identities, CreateUser(i) PROVE Governed'
  <2>. DEFINE op == request[i].op
  <2>1. CASE holder[op.identity] # None
    BY <1>4, <1>6, <2>1 DEF CreateUser
  <2>2. CASE holder[op.identity] = None
    <3>1. PICK v \in Users : /\ status' = [status EXCEPT ![v] = "active"]
                             /\ holder' = [holder EXCEPT ![op.identity] = v]
                             /\ UNCHANGED admins
      BY <1>6, <2>2 DEF CreateUser
    <3>2. status'[u] = "active" /\ holder'[j] = u
      BY <1>1, <1>2, <2>2, <3>1 DEF IInv, TypeOK
    <3>. QED BY <1>1, <1>2, <1>3, <3>1, <3>2
  <2>. QED BY <2>1, <2>2
<1>7. ASSUME NEW i \in Identities, GrantNew(i) \/ AddIdentity(i) PROVE Governed'
  <2>1. holder'[j] = u /\ u \in admins' /\ UNCHANGED status
    BY <1>1, <1>7 DEF GrantNew, AddIdentity, IInv, TypeOK
  <2>. QED BY <1>1, <1>2, <1>3, <2>1
<1>8. ASSUME NEW i \in Identities, UpdateUser(i) PROVE Governed'
  <2>. DEFINE op == request[i].op
              seen == request[i].seen
  <2>1. op.kind = "updateUser" /\ UNCHANGED <<holder, admins>>
        /\ status' = [status EXCEPT ![op.user] = Patched(op, seen)]
    BY <1>8 DEF UpdateUser
  <2>2. Reading(op) = seen /\ ~Denied(op, seen, request[i].actor) /\ op \in Operation
    BY <1>8, FreshWrite, Answered DEF UpdateUser
  <2>3. Patched(op, seen) \in Status
    BY <1>8, PatchedTyped DEF UpdateUser, IInv
  <2>4. CASE op.user = u /\ Patched(op, seen) = "disabled"
    <3>1. ~seen.admin
      BY <2>1, <2>2, <2>4 DEF Denied
    <3>2. seen.admin = (u \in admins)
      BY <2>1, <2>2, <2>4 DEF Reading
    <3>. QED BY <1>1, <3>1, <3>2
  <2>5. CASE ~(op.user = u /\ Patched(op, seen) = "disabled")
    <3>1. status'[u] = "active"
      BY <1>1, <1>2, <2>1, <2>3, <2>5 DEF Status, IInv, TypeOK
    <3>. QED BY <1>1, <1>3, <2>1, <3>1
  <2>. QED BY <2>4, <2>5
<1>9. ASSUME NEW i \in Identities, RemoveIdentity(i) PROVE Governed'
  <2>. DEFINE op == request[i].op
              seen == request[i].seen
  <2>1. op.kind = "removeIdentity" /\ UNCHANGED <<status, admins>>
        /\ holder' = IF holder[op.identity] = op.user
                     THEN [holder EXCEPT ![op.identity] = None] ELSE holder
    BY <1>9 DEF RemoveIdentity
  <2>2. Reading(op) = seen /\ ~Denied(op, seen, request[i].actor) /\ op \in Operation
    BY <1>9, FreshWrite, Answered DEF RemoveIdentity
  <2>3. CASE holder'[j] = u
    BY <1>1, <1>3, <2>1, <2>3
  <2>4. CASE holder'[j] # u
    <3>1. op.identity = j /\ op.user = u /\ holder' = [holder EXCEPT ![j] = None]
      <4>1. CASE holder[op.identity] = op.user
        BY <2>1, <2>4, <4>1 DEF IInv, TypeOK
      <4>2. CASE holder[op.identity] # op.user
        BY <2>1, <2>4, <4>2
      <4>. QED BY <4>1, <4>2
    <3>2. ~LastIdentity(seen)
      BY <2>1, <2>2 DEF Denied
    <3>3. seen = [found |-> holder[j] = u, status |-> status[u], count |-> Cardinality(IdentitiesOf(u))]
      BY <2>1, <2>2, <3>1 DEF Reading
    <3>4. IsFiniteSet(IdentitiesOf(u))
      BY FiniteAssumption, FS_Subset DEF IdentitiesOf
    <3>5. Cardinality(IdentitiesOf(u)) \in Nat /\ ~(Cardinality(IdentitiesOf(u)) <= 1)
      BY <1>1, <3>2, <3>3, <3>4, FS_CardinalityType DEF LastIdentity
    <3>6. PICK k \in IdentitiesOf(u) : k # j
      BY <3>4, <3>5, MoreThanOne
    <3>7. k \in Identities /\ holder'[k] = u
      BY <3>1, <3>6 DEF IdentitiesOf, IInv, TypeOK
    <3>. QED BY <1>1, <1>2, <1>3, <2>1, <3>7
  <2>. QED BY <2>3, <2>4
<1>10. ASSUME NEW i \in Identities, SetGrant(i) PROVE Governed'
  <2>. DEFINE op == request[i].op
  <2>1. UNCHANGED <<status, holder>>
    BY <1>10 DEF SetGrant
  <2>2. CASE u \in admins'
    BY <1>1, <1>3, <2>1, <2>2
  <2>3. CASE u \notin admins'
    <3>1. Checked(i, "revoke") /\ admins' = admins \ {op.user}
      BY <1>1, <1>10, <2>3 DEF SetGrant
    <3>2. /\ Administrator(i) = request[i].actor
          /\ request[i].actor \in Users
          /\ ~Denied(op, Reading(op), request[i].actor)
      BY <1>10, <3>1, FreshWrite, Answered DEF SetGrant
    <3>3. request[i].actor # op.user
      BY <3>1, <3>2 DEF Denied
    <3>4. holder[i] = request[i].actor /\ status[holder[i]] = "active" /\ holder[i] \in admins
          /\ holder[i] # None
      BY <3>2, NoneAssumption DEF Administrator
    <3>. QED BY <1>3, <2>1, <3>1, <3>3, <3>4
  <2>. QED BY <2>2, <2>3
<1>11. ASSUME NEW i \in Identities,
              Admit(i) \/ Check(i) \/ Dies(i) \/ CreateMailbox(i) \/ UpdateMailbox(i) \/ AddAddress(i)
              \/ UpdateAddress(i) \/ RemoveAddress(i) \/ SetMember(i) \/ RemoveMember(i)
       PROVE  Governed'
  BY <1>4, <1>11 DEF Admit, Check, Dies, CreateMailbox, UpdateMailbox, AddAddress, UpdateAddress,
                     RemoveAddress, SetMember, RemoveMember
<1>. QED BY <1>5, <1>6, <1>7, <1>8, <1>9, <1>10, <1>11 DEF Next, Write

\* Administration is lost only to a write on rows that changed after they were read.
THEOREM DirectoryGoverned == Spec => GovernedUnlessStale
<1>1. IInv /\ [Next]_vars => [Governed => Governed' \/ StaleWrite]_vars
  BY StepGoverned
<1>. QED BY <1>1, Invariant, PTL DEF Spec, GovernedUnlessStale

LEMMA PrimaryStays ==
  ASSUME IInv, Next, ~StaleWrite, NEW m \in Mailboxes, HasPrimary(m)
  PROVE  HasPrimary(m)'
<1>. USE DEF boxes, Checked
<1>1. PICK a \in Addresses : /\ address[a] # None /\ address[a].mailbox = m
                             /\ address[a].kind = "primary" /\ address[a].status = "active"
  BY DEF HasPrimary, Primaries
<1>2. ASSUME NEW b \in Addresses, address'[b] # None, address'[b].mailbox = m,
             address'[b].kind = "primary", address'[b].status = "active"
      PROVE  HasPrimary(m)'
  BY <1>2 DEF HasPrimary, Primaries
<1>3. ASSUME address'[a] = address[a] PROVE HasPrimary(m)'
  BY <1>1, <1>2, <1>3
<1>4. ASSUME NEW man \in Manifests, Provision(man) PROVE HasPrimary(m)'
  <2>1. CASE \E n \in Boxes(man) : a \in AddressesOf(man, n)
    <3>. DEFINE box == CHOOSE n \in Boxes(man) : a \in AddressesOf(man, n)
    <3>1. box \in Boxes(man) /\ a \in AddressesOf(man, box)
      BY <2>1
    <3>2. address'[a] = [mailbox |-> box, status |-> "active",
                         kind |-> IF a = man.mailboxes[box].address THEN "primary" ELSE "alias"]
      BY <1>4, <2>1 DEF Provision, Provisioned
    <3>. HIDE DEF box
    <3>3. address[a].mailbox = box /\ address[a].kind = IF a = man.mailboxes[box].address THEN "primary" ELSE "alias"
      BY <1>1, <1>4, <3>1 DEF Provision, Unowned
    <3>4. /\ address'[a].mailbox = m /\ address'[a].kind = "primary" /\ address'[a].status = "active"
      BY <1>1, <3>2, <3>3
    <3>5. address'[a] # None
      <4>1. address'[a] \in AddressRow
        BY <3>2, <3>1 DEF AddressRow, Kind, Status, Boxes
      <4>. QED BY <4>1, NoneAssumption
    <3>. QED BY <1>2, <3>4, <3>5
  <2>2. CASE ~\E n \in Boxes(man) : a \in AddressesOf(man, n)
    BY <1>3, <1>4, <2>2 DEF Provision, Provisioned
  <2>. QED BY <2>1, <2>2
<1>5. ASSUME NEW i \in Identities, CreateMailbox(i) PROVE HasPrimary(m)'
  BY <1>1, <1>3, <1>5 DEF CreateMailbox, IInv, TypeOK
<1>6. ASSUME NEW i \in Identities, request[i].at = "checked", Answer(i),
             request[i].op.kind \in {"addAddress", "updateAddress", "removeAddress"}
      PROVE  /\ request[i].op.mailbox \in Mailboxes /\ request[i].op.address \in Addresses
             /\ request[i].seen.row = address[request[i].op.address]
             /\ ~Denied(request[i].op, request[i].seen, request[i].actor)
             /\ request[i].op.kind = "addAddress" => request[i].op.as \in Kind
  <2>1. /\ request[i].op \in Operation
        /\ Reading(request[i].op) = request[i].seen
        /\ ~Denied(request[i].op, request[i].seen, request[i].actor)
    BY <1>6, FreshWrite, Answered
  <2>2. Reading(request[i].op).row = address[request[i].op.address]
    BY <1>6 DEF Reading
  <2>. QED BY <1>6, <2>1, <2>2, OperationFields
<1>7. ASSUME NEW i \in Identities, AddAddress(i) PROVE HasPrimary(m)'
  <2>. DEFINE op == request[i].op
              seen == request[i].seen
              new == [mailbox |-> op.mailbox, kind |-> "primary", status |-> "active"]
  <2>1. /\ op.mailbox \in Mailboxes /\ op.address \in Addresses /\ op.as \in Kind
        /\ seen.row = address[op.address]
        /\ ~Denied(op, seen, request[i].actor)
        /\ op.kind = "addAddress"
    BY <1>6, <1>7 DEF AddAddress
  <2>2. CASE UNCHANGED address
    BY <1>3, <2>2
  <2>3. CASE op.as = "primary" /\ address' = Promoted(op, seen)
    <3>. DEFINE demoted == [b \in Addresses |->
                    IF b # op.address /\ b \in Primaries(op.mailbox)
                      THEN [address[b] EXCEPT !.kind = "alias"] ELSE address[b]]
    <3>1. \/ address[op.address] = None
          \/ address[op.address] # None /\ address[op.address].mailbox = op.mailbox
      BY <2>1 DEF Denied, Theirs
    <3>2. address' = [demoted EXCEPT ![op.address] = new]
      <4>1. CASE address[op.address] = None
        BY <2>1, <2>3, <4>1 DEF Promoted
      <4>2. CASE address[op.address] # None /\ address[op.address].mailbox = op.mailbox
        BY <2>1, <2>3, <4>2 DEF Promoted
      <4>. QED BY <3>1, <4>1, <4>2
    <3>3. address'[op.address] = new /\ (a # op.address => address'[a] = demoted[a])
      BY <2>1, <3>2
    <3>4. CASE op.mailbox = m
      <4>1. new \in AddressRow /\ new.mailbox = m /\ new.kind = "primary" /\ new.status = "active"
        BY <2>1, <3>4 DEF AddressRow, Kind, Status
      <4>. HIDE DEF new
      <4>. QED BY <1>2, <2>1, <3>3, <4>1, NoneAssumption
    <3>5. CASE op.mailbox # m
      <4>1. a # op.address
        BY <1>1, <3>1, <3>5
      <4>2. a \notin Primaries(op.mailbox)
        BY <1>1, <3>5 DEF Primaries
      <4>. QED BY <1>3, <3>3, <4>1, <4>2
    <3>. QED BY <3>4, <3>5
  <2>4. CASE op.as = "alias" /\ address' = Aliased(op)
    <3>1. CASE a # op.address
      BY <1>3, <2>1, <2>4, <3>1 DEF Aliased, IInv, TypeOK
    <3>2. CASE a = op.address
      BY <1>1, <2>1, <2>4, <3>2 DEF Denied, Theirs
    <3>. QED BY <3>1, <3>2
  <2>. QED BY <1>7, <2>1, <2>2, <2>3, <2>4 DEF AddAddress, Kind
<1>8. ASSUME NEW i \in Identities, UpdateAddress(i) PROVE HasPrimary(m)'
  <2>. DEFINE op == request[i].op
  <2>1. /\ op.address \in Addresses
        /\ request[i].seen.row = address[op.address]
        /\ ~Denied(op, request[i].seen, request[i].actor)
        /\ op.kind = "updateAddress"
    BY <1>6, <1>8 DEF UpdateAddress
  <2>2. CASE a # op.address
    <3>1. address'[a] = address[a]
      BY <1>8, <2>1, <2>2 DEF UpdateAddress, IInv, TypeOK
    <3>. QED BY <1>3, <3>1
  <2>3. CASE a = op.address
    <3>1. op.status # "disabled"
      BY <1>1, <2>1, <2>3 DEF Denied
    <3>2. op.status = "active"
      BY <1>8, <3>1, CheckedOperation, OperationFields DEF UpdateAddress, IInv, Status
    <3>3. address[a] \in AddressRow
      BY <1>1 DEF IInv, TypeOK
    <3>4. [address[a] EXCEPT !.status = "active"] = address[a]
      BY <1>1, <3>3 DEF AddressRow
    <3>5. address'[a] = address[a]
      BY <1>8, <2>1, <2>3, <3>2, <3>4 DEF UpdateAddress, IInv, TypeOK
    <3>. QED BY <1>3, <3>5
  <2>. QED BY <2>2, <2>3
<1>9. ASSUME NEW i \in Identities, RemoveAddress(i) PROVE HasPrimary(m)'
  <2>1. /\ request[i].seen.row = address[request[i].op.address]
        /\ ~Denied(request[i].op, request[i].seen, request[i].actor)
        /\ request[i].op.kind = "removeAddress"
    BY <1>6, <1>9 DEF RemoveAddress
  <2>2. a # request[i].op.address
    BY <1>1, <2>1 DEF Denied
  <2>3. address'[a] = address[a]
    BY <1>9, <2>2 DEF RemoveAddress, IInv, TypeOK
  <2>. QED BY <1>3, <2>3
<1>10. ASSUME UNCHANGED address PROVE HasPrimary(m)'
  BY <1>3, <1>10
<1>11. ASSUME NEW i \in Identities,
              \/ Admit(i) \/ Check(i) \/ Dies(i) \/ CreateUser(i) \/ GrantNew(i) \/ UpdateUser(i)
              \/ AddIdentity(i) \/ RemoveIdentity(i) \/ SetGrant(i) \/ UpdateMailbox(i)
              \/ SetMember(i) \/ RemoveMember(i)
       PROVE  UNCHANGED address
  BY <1>11 DEF Admit, Check, Dies, CreateUser, GrantNew, UpdateUser, AddIdentity, RemoveIdentity,
               SetGrant, UpdateMailbox, SetMember, RemoveMember
<1>. QED BY <1>4, <1>5, <1>7, <1>8, <1>9, <1>10, <1>11 DEF Next, Write

LEMMA OwnersStay ==
  ASSUME IInv, Next, ~StaleWrite, NEW m \in Mailboxes, Owners(m) # {}, ~Demotes(m)
  PROVE  Owners(m)' # {}
<1>. USE DEF boxes, Checked
<1>1. PICK u \in Users : role[m][u] = "owner"
  BY DEF Owners
<1>2. ASSUME NEW v \in Users, role'[m][v] = "owner" PROVE Owners(m)' # {}
  BY <1>2 DEF Owners
<1>3. ASSUME NEW man \in Manifests, Provision(man) PROVE Owners(m)' # {}
  <2>1. \A v \in Users : role'[m][v] = Membership(man, m, v)
    BY <1>3 DEF Provision
  <2>2. CASE m \in Boxes(man)
    <3>1. man.mailboxes[m].owner \in Users
      BY <1>3, <2>2, ManifestFields
    <3>2. Membership(man, m, man.mailboxes[m].owner) = "owner"
      BY <2>2 DEF Membership
    <3>. QED BY <1>2, <2>1, <3>1, <3>2
  <2>3. CASE m \notin Boxes(man)
    BY <1>1, <1>2, <2>1, <2>3 DEF Membership
  <2>. QED BY <2>2, <2>3
<1>4. ASSUME NEW i \in Identities, CreateMailbox(i) PROVE Owners(m)' # {}
  <2>1. role'[m][u] = "owner"
    <3>1. CASE UNCHANGED role
      BY <1>1, <3>1
    <3>2. CASE ~UNCHANGED role
      <4>1. PICK n \in Mailboxes : role' = [role EXCEPT ![n][request[i].op.owner] = "owner"]
        BY <1>4, <3>2 DEF CreateMailbox
      <4>. QED BY <1>1, <4>1 DEF IInv, TypeOK
    <3>. QED BY <3>1, <3>2
  <2>. QED BY <1>2, <2>1
<1>5. ASSUME NEW i \in Identities, SetMember(i) PROVE Owners(m)' # {}
  <2>1. request[i].op.mailbox = m => request[i].op.role = "owner"
    BY <1>5 DEF SetMember, Demotes
  <2>2. role'[m][u] = "owner"
    BY <1>1, <1>5, <2>1 DEF SetMember, IInv, TypeOK
  <2>. QED BY <1>2, <2>2
<1>6. ASSUME NEW i \in Identities, RemoveMember(i) PROVE Owners(m)' # {}
  <2>. DEFINE op == request[i].op
              seen == request[i].seen
  <2>1. /\ op.kind = "removeMember" /\ op \in Operation
        /\ Reading(op) = seen /\ ~Denied(op, seen, request[i].actor)
    BY <1>6, FreshWrite, Answered DEF RemoveMember
  <2>2. CASE op.mailbox = m /\ op.user = u
    <3>1. seen = [role |-> role[m][u], count |-> Cardinality(Owners(m))]
      BY <2>1, <2>2 DEF Reading
    <3>2. ~LastOwner(seen)
      BY <2>1 DEF Denied
    <3>3. IsFiniteSet(Owners(m))
      BY FiniteAssumption, FS_Subset DEF Owners
    <3>4. Cardinality(Owners(m)) \in Nat /\ ~(Cardinality(Owners(m)) <= 1)
      BY <1>1, <3>1, <3>2, <3>3, FS_CardinalityType DEF LastOwner
    <3>5. PICK v \in Owners(m) : v # u
      BY <3>3, <3>4, MoreThanOne
    <3>6. v \in Users /\ role'[m][v] = "owner"
      BY <1>6, <2>2, <3>5 DEF RemoveMember, Owners, IInv, TypeOK
    <3>. QED BY <1>2, <3>6
  <2>3. CASE ~(op.mailbox = m /\ op.user = u)
    <3>1. role'[m][u] = "owner"
      BY <1>1, <1>6, <2>3 DEF RemoveMember, IInv, TypeOK
    <3>. QED BY <1>2, <3>1
  <2>. QED BY <2>2, <2>3
<1>7. ASSUME UNCHANGED role PROVE Owners(m)' # {}
  BY <1>1, <1>2, <1>7
<1>8. ASSUME NEW i \in Identities,
              \/ Admit(i) \/ Check(i) \/ Dies(i) \/ CreateUser(i) \/ GrantNew(i) \/ UpdateUser(i)
              \/ AddIdentity(i) \/ RemoveIdentity(i) \/ SetGrant(i) \/ UpdateMailbox(i)
              \/ AddAddress(i) \/ UpdateAddress(i) \/ RemoveAddress(i)
      PROVE  UNCHANGED role
  BY <1>8 DEF Admit, Check, Dies, CreateUser, GrantNew, UpdateUser, AddIdentity, RemoveIdentity,
               SetGrant, UpdateMailbox, AddAddress, UpdateAddress, RemoveAddress
<1>. QED BY <1>3, <1>4, <1>5, <1>6, <1>7, <1>8 DEF Next, Write

\* A mailbox loses its primary address or its last owner only to such a write, or to a demotion.
THEOREM DirectoryMailboxes == Spec => MailboxKeptUnlessStale
<1>1. IInv /\ [Next]_vars =>
        [\A m \in Mailboxes :
           /\ HasPrimary(m) => HasPrimary(m)' \/ StaleWrite
           /\ Owners(m) # {} => Owners(m)' # {} \/ StaleWrite \/ Demotes(m)]_vars
  BY PrimaryStays, OwnersStay
<1>. QED BY <1>1, Invariant, PTL DEF Spec, MailboxKeptUnlessStale
=============================================================================
