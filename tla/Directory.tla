------------------------------ MODULE Directory ------------------------------
(***************************************************************************)
(* The directory: users, their Access identities and administrator grants, *)
(* mailboxes, their addresses and members.  The operator provisions it     *)
(* from a manifest; administrators change it through /api/admin/*.  A      *)
(* request first resolves its administrator, then reads the rows that its  *)
(* guard is about, then writes in another D1 call: requests of several     *)
(* administrators interleave between the three.                            *)
(***************************************************************************)
EXTENDS Naturals, FiniteSets

CONSTANTS Users, Identities, Mailboxes, Addresses,
          None,          \* no row
          Manifests,     \* what the operator may provision
          MaxOpen,       \* bound: requests open at once
          MaxRequests,   \* bound: requests
          MaxProvisions  \* bound: times that a manifest is applied

Role   == {"viewer", "operator", "owner"}
Kind   == {"primary", "alias"}
Status == {"active", "disabled"}

\* What a provisioning manifest says of each user and mailbox; None leaves it out.
ManifestUser    == [admin : BOOLEAN, identities : SUBSET Identities \ {{}}]
ManifestMailbox == [address : Addresses, aliases : SUBSET Addresses, owner : Users,
                    members : [Users -> Role \cup {None}]]

Named(man) == {u \in Users : man.users[u] # None}
Boxes(man) == {m \in Mailboxes : man.mailboxes[m] # None}
AddressesOf(man, m) == {man.mailboxes[m].address} \cup man.mailboxes[m].aliases

\* validateProvisionManifest
Valid(man) ==
  /\ man.users \in [Users -> ManifestUser \cup {None}]
  /\ man.mailboxes \in [Mailboxes -> ManifestMailbox \cup {None}]
  /\ \A u, v \in Named(man) : u # v => man.users[u].identities \cap man.users[v].identities = {}
  /\ \A m \in Boxes(man) :
       LET box == man.mailboxes[m]
           members == {u \in Users : box.members[u] # None}
       IN  /\ box.owner \in Named(man) \ members
           /\ members \subseteq Named(man)
           /\ box.address \notin box.aliases
           /\ \A n \in Boxes(man) \ {m} : AddressesOf(man, m) \cap AddressesOf(man, n) = {}

AddressRow == [mailbox : Mailboxes, kind : Kind, status : Status]

ASSUME NoneAssumption == None \notin Users \cup Role \cup Status \cup AddressRow
ASSUME ManifestAssumption == \A man \in Manifests : Valid(man)
ASSUME FiniteAssumption == IsFiniteSet(Users) /\ IsFiniteSet(Identities) /\ IsFiniteSet(Addresses)
ASSUME BoundsAssumption == MaxOpen \in Nat /\ MaxRequests \in Nat /\ MaxProvisions \in Nat

VARIABLES status,   \* users.status, or None
          admins,   \* system_administrators
          holder,   \* access_identities: the user of each identity, or None
          mailbox,  \* mailboxes.status, or None
          address,  \* mailbox_addresses: mailbox, kind and status, or None
          role,     \* mailbox_memberships
          request,  \* what the request of each identity knows and does next
          requests, provisions

people == <<status, admins, holder>>
boxes  == <<mailbox, address, role>>
vars   == <<people, boxes, request, requests, provisions>>

Idle       == [at |-> "idle"]

\* What an administrator may ask for.
Operation ==
  [kind : {"createUser"}, identity : Identities, admin : BOOLEAN]
  \cup [kind : {"updateUser"}, user : Users, status : Status \cup {None}]
  \cup [kind : {"addIdentity", "removeIdentity"}, user : Users, identity : Identities]
  \cup [kind : {"grant", "revoke"}, user : Users]
  \cup [kind : {"createMailbox"}, address : Addresses, owner : Users]
  \cup [kind : {"updateMailbox"}, mailbox : Mailboxes, status : Status \cup {None}]
  \cup [kind : {"addAddress"}, mailbox : Mailboxes, address : Addresses, as : Kind]
  \cup [kind : {"updateAddress"}, mailbox : Mailboxes, address : Addresses, status : Status]
  \cup [kind : {"removeAddress"}, mailbox : Mailboxes, address : Addresses]
  \cup [kind : {"setMember"}, mailbox : Mailboxes, user : Users, role : Role]
  \cup [kind : {"removeMember"}, mailbox : Mailboxes, user : Users]

Init ==
  /\ status = [u \in Users |-> None]
  /\ admins = {}
  /\ holder = [i \in Identities |-> None]
  /\ mailbox = [m \in Mailboxes |-> None]
  /\ address = [a \in Addresses |-> None]
  /\ role = [m \in Mailboxes |-> [u \in Users |-> None]]
  /\ request = [i \in Identities |-> Idle]
  /\ requests = 0
  /\ provisions = 0

\* getSystemAdministrator
Administrator(i) ==
  IF holder[i] # None /\ status[holder[i]] = "active" /\ holder[i] \in admins
    THEN holder[i] ELSE None

ActiveAdmins  == {u \in admins : status[u] = "active"}
IdentitiesOf(u) == {i \in Identities : holder[i] = u}
Owners(m)     == {u \in Users : role[m][u] = "owner"}
Primaries(m)  == {a \in Addresses : /\ address[a] # None
                                    /\ address[a].mailbox = m
                                    /\ address[a].kind = "primary"}
HasPrimary(m) == \E a \in Primaries(m) : address[a].status = "active"

\* ux_mailbox_addresses_active_primary
Indexed(rows) ==
  \A a, b \in Addresses :
    (/\ rows[a] # None /\ rows[b] # None
     /\ rows[a].kind = "primary" /\ rows[a].status = "active"
     /\ rows[b] = rows[a]) => a = b

-----------------------------------------------------------------------------
(* Provisioning.                                                           *)

\* renderOwnershipGuards: nothing the manifest names belongs to someone else.
Unowned(man) ==
  /\ \A u \in Named(man) : \A i \in man.users[u].identities : holder[i] \in {u, None}
  /\ \A m \in Boxes(man) : \A a \in AddressesOf(man, m) :
       address[a] # None =>
         /\ address[a].mailbox = m
         /\ address[a].kind = IF a = man.mailboxes[m].address THEN "primary" ELSE "alias"

\* addressSql for every address of the manifest.
Provisioned(man) ==
  [a \in Addresses |->
     IF \E m \in Boxes(man) : a \in AddressesOf(man, m)
       THEN LET m == CHOOSE n \in Boxes(man) : a \in AddressesOf(man, n)
            IN  [mailbox |-> m, status |-> "active",
                 kind |-> IF a = man.mailboxes[m].address THEN "primary" ELSE "alias"]
       ELSE address[a]]

\* membershipSql
Membership(man, m, u) ==
  IF m \in Boxes(man) /\ u = man.mailboxes[m].owner THEN "owner"
  ELSE IF m \in Boxes(man) /\ man.mailboxes[m].members[u] # None THEN man.mailboxes[m].members[u]
  ELSE role[m][u]

\* renderProvisionSql: the script runs as a whole, or fails and changes nothing.
Provision(man) ==
  /\ provisions < MaxProvisions
  /\ Unowned(man)
  /\ Indexed(Provisioned(man))
  /\ status' = [u \in Users |-> IF u \in Named(man) THEN "active" ELSE status[u]]
  /\ admins' = admins \cup {u \in Named(man) : man.users[u].admin}
  /\ holder' = [i \in Identities |->
                  IF \E u \in Named(man) : i \in man.users[u].identities
                    THEN CHOOSE u \in Named(man) : i \in man.users[u].identities
                    ELSE holder[i]]
  /\ mailbox' = [m \in Mailboxes |-> IF m \in Boxes(man) THEN "active" ELSE mailbox[m]]
  /\ address' = Provisioned(man)
  /\ role' = [m \in Mailboxes |-> [u \in Users |-> Membership(man, m, u)]]
  /\ provisions' = provisions + 1
  /\ UNCHANGED <<request, requests>>

-----------------------------------------------------------------------------
(* A request up to its first write.                                        *)

Open == {i \in Identities : request[i] # Idle}

\* routeAdminApi: the caller is an administrator.
Admit(i) ==
  /\ requests < MaxRequests
  /\ request[i] = Idle
  /\ Cardinality(Open) < MaxOpen
  /\ Administrator(i) # None
  /\ request' = [request EXCEPT ![i] = [at |-> "admitted", actor |-> Administrator(i)]]
  /\ requests' = requests + 1
  /\ UNCHANGED <<people, boxes, provisions>>

\* The rows that the guard of an operation reads.
Reading(op) ==
  CASE op.kind = "updateUser"     -> [status |-> status[op.user], admin |-> op.user \in admins]
    [] op.kind = "removeIdentity" -> [found |-> holder[op.identity] = op.user,
                                      status |-> status[op.user],
                                      count |-> Cardinality(IdentitiesOf(op.user))]
    [] op.kind = "addIdentity"    -> [status |-> status[op.user]]
    [] op.kind = "grant"          -> [status |-> status[op.user]]
    [] op.kind = "revoke"         -> [found |-> status[op.user] # None,
                                      count |-> Cardinality(ActiveAdmins)]
    [] op.kind = "updateMailbox"  -> [status |-> mailbox[op.mailbox]]
    [] op.kind \in {"addAddress", "updateAddress", "removeAddress"} ->
         [mailbox |-> mailbox[op.mailbox] # None, row |-> address[op.address]]
    [] op.kind = "setMember"      -> [mailbox |-> mailbox[op.mailbox] # None,
                                      user |-> status[op.user] # None]
    [] op.kind = "removeMember"   -> [role |-> role[op.mailbox][op.user],
                                      count |-> Cardinality(Owners(op.mailbox))]
    [] OTHER                      -> [found |-> TRUE]

\* The status that updateAdminUser writes; a patch without one writes back what it read.
Patched(op, seen) == IF op.status = None THEN seen.status ELSE op.status

Theirs(op, seen) == seen.row # None /\ seen.row.mailbox = op.mailbox

LastIdentity_OffByOne(seen) == seen.status = "active" /\ seen.count < 1

\* An active user keeps an identity, a mailbox keeps an owner and its primary address.
LastIdentity(seen) == seen.status = "active" /\ seen.count <= 1

LastOwner_Any(seen) == seen.role = "owner" /\ seen.count = 0

LastOwner(seen) == seen.role = "owner" /\ seen.count <= 1

\* The early returns of each operation.
Denied(op, seen, actor) ==
  CASE op.kind = "updateUser"     -> \/ seen.status = None
                                     \/ /\ Patched(op, seen) = "disabled"
                                        /\ op.user = actor \/ seen.admin
    [] op.kind = "addIdentity"    -> seen.status = None
    [] op.kind = "removeIdentity" -> \/ ~seen.found
                                     \/ LastIdentity(seen)
    [] op.kind = "grant"          -> seen.status # "active"
    [] op.kind = "revoke"         -> ~seen.found \/ op.user = actor \/ seen.count <= 1
    [] op.kind = "updateMailbox"  -> seen.status = None
    [] op.kind = "addAddress"     -> \/ ~seen.mailbox
                                     \/ seen.row # None /\ ~Theirs(op, seen)
                                     \/ /\ op.as = "alias"
                                        /\ seen.row # None /\ seen.row.kind = "primary"
    [] op.kind = "updateAddress"  -> \/ ~Theirs(op, seen)
                                     \/ seen.row.kind = "primary" /\ op.status = "disabled"
    [] op.kind = "removeAddress"  -> ~Theirs(op, seen) \/ seen.row.kind = "primary"
    [] op.kind = "setMember"      -> ~seen.mailbox \/ ~seen.user
    [] op.kind = "removeMember"   -> \/ seen.role = None
                                     \/ LastOwner(seen)
    [] OTHER                      -> FALSE

\* The operation reads and either answers with an error or goes on to write.
Check(i) ==
  /\ request[i].at = "admitted"
  /\ \E op \in Operation :
       LET seen == Reading(op)
       IN  request' = [request EXCEPT ![i] =
             IF Denied(op, seen, request[i].actor) THEN Idle
             ELSE [at |-> "checked", actor |-> request[i].actor, op |-> op, seen |-> seen]]
  /\ UNCHANGED <<people, boxes, requests, provisions>>

Checked(i, kind) == request[i].at = "checked" /\ request[i].op.kind = kind

\* The answer; also the 409 of a unique constraint that a write violates.
Answer(i) == request' = [request EXCEPT ![i] = Idle]

-----------------------------------------------------------------------------
(* The writes on users.                                                    *)

\* provisionUserWithIdentity, one batch with an id of its own.
CreateUser(i) ==
  /\ Checked(i, "createUser")
  /\ LET op == request[i].op
     IN  IF holder[op.identity] # None THEN Answer(i) /\ UNCHANGED people
         ELSE \E u \in Users :
                /\ status[u] = None
                /\ status' = [status EXCEPT ![u] = "active"]
                /\ holder' = [holder EXCEPT ![op.identity] = u]
                /\ request' = [request EXCEPT ![i] =
                     IF op.admin THEN [at |-> "granting", user |-> u] ELSE Idle]
                /\ UNCHANGED admins
  /\ UNCHANGED <<boxes, requests, provisions>>

\* adminUsersCollection: grantSystemAdministrator, a call of its own.
GrantNew(i) ==
  /\ request[i].at = "granting"
  /\ admins' = admins \cup {request[i].user}
  /\ Answer(i)
  /\ UNCHANGED <<status, holder, boxes, requests, provisions>>

UpdateUser(i) ==
  /\ Checked(i, "updateUser")
  /\ LET op == request[i].op
     IN  status' = [status EXCEPT ![op.user] = Patched(op, request[i].seen)]
  /\ Answer(i)
  /\ UNCHANGED <<admins, holder, boxes, requests, provisions>>

AddIdentity(i) ==
  /\ Checked(i, "addIdentity")
  /\ LET op == request[i].op
     IN  holder' = IF holder[op.identity] = None
                     THEN [holder EXCEPT ![op.identity] = op.user] ELSE holder
  /\ Answer(i)
  /\ UNCHANGED <<status, admins, boxes, requests, provisions>>

RemoveIdentity(i) ==
  /\ Checked(i, "removeIdentity")
  /\ LET op == request[i].op
     IN  holder' = IF holder[op.identity] = op.user
                     THEN [holder EXCEPT ![op.identity] = None] ELSE holder
  /\ Answer(i)
  /\ UNCHANGED <<status, admins, boxes, requests, provisions>>

\* setAdminGrant
SetGrant(i) ==
  /\ \/ Checked(i, "grant") /\ admins' = admins \cup {request[i].op.user}
     \/ Checked(i, "revoke") /\ admins' = admins \ {request[i].op.user}
  /\ Answer(i)
  /\ UNCHANGED <<status, holder, boxes, requests, provisions>>

-----------------------------------------------------------------------------
(* The writes on mailboxes.                                                *)

\* provisionMailboxWithOwner, one batch with an id of its own.
CreateMailbox(i) ==
  /\ Checked(i, "createMailbox")
  /\ LET op == request[i].op
     IN  IF address[op.address] # None \/ status[op.owner] = None THEN UNCHANGED boxes
         ELSE \E m \in Mailboxes :
                /\ mailbox[m] = None
                /\ mailbox' = [mailbox EXCEPT ![m] = "active"]
                /\ address' = [address EXCEPT ![op.address] =
                     [mailbox |-> m, kind |-> "primary", status |-> "active"]]
                /\ role' = [role EXCEPT ![m][op.owner] = "owner"]
  /\ Answer(i)
  /\ UNCHANGED <<people, requests, provisions>>

UpdateMailbox(i) ==
  /\ Checked(i, "updateMailbox")
  /\ LET op == request[i].op
     IN  mailbox' = [mailbox EXCEPT ![op.mailbox] = Patched(op, request[i].seen)]
  /\ Answer(i)
  /\ UNCHANGED <<people, address, role, requests, provisions>>

\* The batch of addAdminMailboxAddress: the other primary becomes an alias, then
\* the address is inserted, or promoted where it still is a row of the mailbox.
Promoted(op, seen) ==
  LET demoted == [a \in Addresses |->
                    IF a # op.address /\ a \in Primaries(op.mailbox)
                      THEN [address[a] EXCEPT !.kind = "alias"] ELSE address[a]]
      new == [mailbox |-> op.mailbox, kind |-> "primary", status |-> "active"]
  IN  CASE seen.row = None /\ address[op.address] = None -> [demoted EXCEPT ![op.address] = new]
        [] seen.row = None /\ address[op.address] # None -> address
        [] seen.row # None /\ address[op.address] # None /\ address[op.address].mailbox = op.mailbox ->
             [demoted EXCEPT ![op.address] = new]
        [] OTHER                                         -> demoted

Aliased_Takes(op) ==
  [address EXCEPT ![op.address] =
     [mailbox |-> op.mailbox, kind |-> "alias", status |-> "active"]]

\* Its upsert of an alias: on a conflict only the status is set.
Aliased(op) ==
  IF address[op.address] = None
    THEN [address EXCEPT ![op.address] =
            [mailbox |-> op.mailbox, kind |-> "alias", status |-> "active"]]
    ELSE [address EXCEPT ![op.address].status = "active"]

AddAddress(i) ==
  /\ Checked(i, "addAddress")
  /\ LET op == request[i].op
         rows == IF op.as = "primary" THEN Promoted(op, request[i].seen) ELSE Aliased(op)
     IN  address' = IF Indexed(rows) THEN rows ELSE address
  /\ Answer(i)
  /\ UNCHANGED <<people, mailbox, role, requests, provisions>>

UpdateAddress(i) ==
  /\ Checked(i, "updateAddress")
  /\ LET op == request[i].op
         rows == IF address[op.address] # None /\ address[op.address].mailbox = op.mailbox
                   THEN [address EXCEPT ![op.address].status = op.status] ELSE address
     IN  address' = IF Indexed(rows) THEN rows ELSE address
  /\ Answer(i)
  /\ UNCHANGED <<people, mailbox, role, requests, provisions>>

RemoveAddress(i) ==
  /\ Checked(i, "removeAddress")
  /\ LET op == request[i].op
     IN  address' = IF address[op.address] # None /\ address[op.address].mailbox = op.mailbox
                      THEN [address EXCEPT ![op.address] = None] ELSE address
  /\ Answer(i)
  /\ UNCHANGED <<people, mailbox, role, requests, provisions>>

SetMember(i) ==
  /\ Checked(i, "setMember")
  /\ LET op == request[i].op
     IN  role' = [role EXCEPT ![op.mailbox][op.user] = op.role]
  /\ Answer(i)
  /\ UNCHANGED <<people, mailbox, address, requests, provisions>>

RemoveMember(i) ==
  /\ Checked(i, "removeMember")
  /\ LET op == request[i].op
     IN  role' = [role EXCEPT ![op.mailbox][op.user] = None]
  /\ Answer(i)
  /\ UNCHANGED <<people, mailbox, address, requests, provisions>>

\* An invocation that ends between two D1 calls.
Dies(i) ==
  /\ request[i].at \in {"checked", "granting"}
  /\ Answer(i)
  /\ UNCHANGED <<people, boxes, requests, provisions>>

Write(i) ==
  \/ CreateUser(i) \/ GrantNew(i) \/ UpdateUser(i) \/ AddIdentity(i) \/ RemoveIdentity(i)
  \/ SetGrant(i) \/ CreateMailbox(i) \/ UpdateMailbox(i) \/ AddAddress(i)
  \/ UpdateAddress(i) \/ RemoveAddress(i) \/ SetMember(i) \/ RemoveMember(i)

Next ==
  \/ \E man \in Manifests : Provision(man)
  \/ \E i \in Identities : Admit(i) \/ Check(i) \/ Write(i) \/ Dies(i)

Spec == Init /\ [][Next]_vars

-----------------------------------------------------------------------------
(* What other parts ask of the directory.                                  *)

Capability == {"read", "operate", "manage"}

\* mailboxRoleGrants
Grants(r) == CASE r = "viewer"   -> {"read"}
               [] r = "operator" -> {"read", "operate"}
               [] r = "owner"    -> Capability

\* authorizeMailboxAccess
Authorized(i, m, capability) ==
  /\ holder[i] # None
  /\ status[holder[i]] = "active"
  /\ mailbox[m] = "active"
  /\ role[m][holder[i]] # None
  /\ capability \in Grants(role[m][holder[i]])

Listed_Disabled(i) ==
  {a \in Addresses :
     /\ holder[i] # None
     /\ status[holder[i]] = "active"
     /\ \E m \in Mailboxes : /\ role[m][holder[i]] # None
                             /\ a \in Primaries(m) /\ address[a].status = "active"}

\* listAuthorizedMailboxes: one row for each active primary address.
Listed(i) ==
  {a \in Addresses :
     /\ holder[i] # None
     /\ status[holder[i]] = "active"
     /\ \E m \in Mailboxes : /\ role[m][holder[i]] # None
                             /\ mailbox[m] = "active"
                             /\ a \in Primaries(m) /\ address[a].status = "active"}

\* resolveActiveMailboxAddress
Routed(a) ==
  IF /\ address[a] # None
     /\ address[a].status = "active"
     /\ mailbox[address[a].mailbox] = "active"
     /\ HasPrimary(address[a].mailbox)
    THEN address[a].mailbox ELSE None

-----------------------------------------------------------------------------
(* Properties.                                                             *)

\* What Reading returns.
Rows == [status : Status \cup {None}, admin : BOOLEAN]
        \cup [found : BOOLEAN, status : Status \cup {None}, count : Nat]
        \cup [status : Status \cup {None}]
        \cup [found : BOOLEAN, count : Nat]
        \cup [mailbox : BOOLEAN, row : AddressRow \cup {None}]
        \cup [mailbox : BOOLEAN, user : BOOLEAN]
        \cup [role : Role \cup {None}, count : Nat]
        \cup [found : {TRUE}]

Request == [at : {"idle"}]
           \cup [at : {"admitted"}, actor : Users]
           \cup [at : {"checked"}, actor : Users, op : Operation, seen : Rows]
           \cup [at : {"granting"}, user : Users]

TypeOK ==
  /\ status \in [Users -> Status \cup {None}]
  /\ admins \subseteq Users
  /\ holder \in [Identities -> Users \cup {None}]
  /\ mailbox \in [Mailboxes -> Status \cup {None}]
  /\ address \in [Addresses -> AddressRow \cup {None}]
  /\ role \in [Mailboxes -> [Users -> Role \cup {None}]]
  /\ request \in [Identities -> Request]
  /\ \A i \in Identities :
       (request[i].at = "checked" /\ request[i].op.kind \in {"updateUser", "updateMailbox"}) =>
         request[i].seen.status \in Status
  /\ requests \in 0..MaxRequests
  /\ provisions \in 0..MaxProvisions

\* The write of a request whose caller lost the grant, or whose rows changed,
\* since they were read.
Fresh(i)   == /\ Administrator(i) = request[i].actor
              /\ Reading(request[i].op) = request[i].seen
StaleWrite == \E i \in Identities : /\ request[i].at = "checked"
                                    /\ request'[i] # request[i]
                                    /\ ~Fresh(i)

Governed == \E i \in Identities : Administrator(i) # None

\* The guards of the user operations are enough together: whatever administrators
\* do, someone can still sign in and administer, unless a write followed a read
\* that had gone stale (updateAdminUser, removeAdminAccessIdentity, setAdminGrant).
GovernedUnlessStale == [][Governed => Governed' \/ StaleWrite]_vars

Demotes(m) ==
  \E i \in Identities : /\ request[i].at = "checked"
                        /\ request[i].op.kind = "setMember"
                        /\ request[i].op.mailbox = m
                        /\ request[i].op.role # "owner"

\* A mailbox keeps an active primary address and an owner through every request but
\* a stale write and a membership that demotes (addAdminMailboxAddress,
\* removeAdminMailboxAddress, removeAdminMailboxMembership), and through provisioning.
MailboxKeptUnlessStale ==
  [][\A m \in Mailboxes :
       /\ HasPrimary(m) => HasPrimary(m)' \/ StaleWrite
       /\ Owners(m) # {} => Owners(m)' # {} \/ StaleWrite \/ Demotes(m)]_vars

\* However requests and provisioning race, an address or an identity that is
\* somebody's passes to somebody else only after it was removed.
HoldersStay ==
  [][/\ \A a \in Addresses :
          address[a] # None /\ address'[a] # None => address'[a].mailbox = address[a].mailbox
     /\ \A i \in Identities :
          holder[i] # None /\ holder'[i] # None => holder'[i] = holder[i]]_vars

\* The three queries agree: what a user is shown is what the user may read, one
\* row each, and mail is routed only to mailboxes that their members are shown.
AccessAgrees ==
  \A i \in Identities :
    LET shown == {address[a].mailbox : a \in Listed(i)}
    IN  /\ Cardinality(shown) = Cardinality(Listed(i))
        /\ shown = {m \in Mailboxes : Authorized(i, m, "read") /\ HasPrimary(m)}
        /\ \A a \in Addresses :
             Routed(a) # None /\ Authorized(i, Routed(a), "read") => Routed(a) \in shown

=============================================================================
