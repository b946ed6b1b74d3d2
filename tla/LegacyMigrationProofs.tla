------------------------ MODULE LegacyMigrationProofs ------------------------
(***************************************************************************)
(* Theorems about LegacyMigration for every finite archive, every set of   *)
(* deltas, every chunk size and any number of edits and faults.            *)
(***************************************************************************)
EXTENDS LegacyMigration, FiniteSetTheorems, SequenceTheorems, TLAPS

(* The inductive invariant.                                                *)

\* What was read from the archived system is consistent, and is there.
Sources ==
  /\ WellFormed(legacy)
  /\ \A k \in Stage : Imported(k) => WellFormed(backup[k])
  /\ \A k \in Stage : snap[k] # "absent" => Imported(k)
  /\ \A k \in Stage : staged[k] # "absent" => Imported(k) /\ Imported(0)

\* A row becomes ready after the file was verified.
Snapshots ==
  /\ ReadyIsVerified
  /\ doing.at = "stored" => files[doing.stage][doing.msg] = "good"

Applying(k) == doing.at \in {"copied", "checked", "running", "executed"} /\ doing.stage = k

\* How far a stage has come, and what must have come before.
Progress(k) ==
  /\ Intact(k) => Removed(k) = {}
  /\ Applying(k) \/ saved[k] # Fresh => Intact(k)
  /\ saved[k].next <= Reached(k)
  /\ Reached(k) > 0 \/ k \in d1.header => saved[k].verified
  /\ saved[k].verified \/ (doing.at = "checked" /\ doing.stage = k) =>
       \A r \in Staged(k) : bucket[r] = "good"
  /\ saved[k].done => ~Applying(k) /\ saved[k].next = Len(Sql(k))
  /\ Ordered /\ k # 0 /\ (Applying(k) \/ saved[k] # Fresh) => saved[0].done

\* Where a provenance row may come from.
Provenance ==
  /\ \A k \in Stage, m \in Messages : <<k, m>> \in d1.batch => Intact(k) /\ m \in Mine(k)
  /\ \A x \in d1.owned : Intact(0) /\ backup[0][x] # Absent
  /\ \A k \in Deltas, x \in Key : <<k, x>> \in d1.change => k \in d1.header /\ x \in Changes(k)

\* What has been executed has left its trace.
Executed(k) == \A n \in 1..Reached(k) : Left(d1, k, Sql(k)[n])

IInv ==
  /\ TypeOK /\ Sources /\ Snapshots
  /\ \A k \in Stage : Progress(k) /\ Executed(k)
  /\ Provenance
  /\ RowsHaveObjects

\* Until a delta is begun, a row is the baseline's or is not there yet.
BaselineRows ==
  (\A j \in Deltas : j \notin d1.header) =>
    \A x \in Key : /\ d1.row[x] # Absent => Imported(0) /\ d1.row[x] = backup[0][x]
                   /\ Owned(d1, x) => d1.row[x] = backup[0][x]

\* While one delta alone is applied, a row is as the delta wants it once its change
\* is recorded, and the baseline's before; a label takes its assignments with it.
DeltaRows ==
  \A k \in Deltas : k \in d1.header /\ Alone(k) =>
    \A x \in Key :
      IF <<k, x>> \in d1.change THEN d1.row[x] = backup[k][x]
      ELSE d1.row[x] = backup[0][x] \/ (d1.row[x] = Absent /\ backup[k][x] = Absent)

OrderedInv == IInv /\ BaselineRows /\ DeltaRows /\ NamesDiffer(d1.row)

-------------------------------------------------------------------------------
(* Lists of statements: what they hold, and what comes before what.        *)

SqlStatements == [do : {"header"} \cup Mutations, key : Key \cup {Absent}, val : Versions \cup {Absent}]

\* The statements that put each changed row of S from its old state to its new one.
Put(from, to, S, how) == {Statement(from, to, x) : x \in Changed(from, to, S, how)}

LEMMA ListOfSet ==
  ASSUME NEW S, IsFiniteSet(S)
  PROVE  /\ SetToSeq(S) \in [1..Cardinality(S) -> S]
         /\ Cardinality(S) \in Nat
         /\ \A x \in S : \E i \in 1..Cardinality(S) : SetToSeq(S)[i] = x
<1>. DEFINE n == Cardinality(S)
<1>1. n \in Nat /\ ExistsBijection(1..n, S)
  BY FS_CardinalityType
<1>2. PICK f : f \in Bijection(1..n, S)
  BY <1>1 DEF ExistsBijection
<1>3. f \in [1..n -> S] /\ IsInjective(f)
  BY <1>2 DEF Bijection, Injection
<1>4. SetToSeq(S) \in [1..n -> S] /\ IsInjective(SetToSeq(S))
  BY <1>3 DEF SetToSeq
<1>5. SetToSeq(S) \in Injection(1..n, S)
  BY <1>4 DEF Injection
<1>6. Cardinality(1..n) = n
  BY <1>1, FS_Interval
<1>7. SetToSeq(S) \in Surjection(1..n, S)
  BY <1>1, <1>5, <1>6, FS_Injection
<1>. QED BY <1>1, <1>4, <1>7 DEF Surjection

LEMMA EachLists ==
  ASSUME NEW from \in Content, NEW to \in Content, NEW S, S \subseteq Key,
         NEW how, how \subseteq Mutations
  PROVE  /\ Each(from, to, S, how) \in Seq(SqlStatements)
         /\ ToSet(Each(from, to, S, how)) = Put(from, to, S, how)
<1>. DEFINE C == Changed(from, to, S, how)
            list == SetToSeq(C)
            each == Each(from, to, S, how)
<1>1. IsFiniteSet(C)
  BY KeyAssumption, FS_Subset DEF Changed
<1>2. /\ list \in [1..Cardinality(C) -> C] /\ Cardinality(C) \in Nat
      /\ \A x \in C : \E i \in 1..Cardinality(C) : list[i] = x
  BY <1>1, ListOfSet
<1>3. each = [i \in 1..Cardinality(C) |-> Statement(from, to, list[i])]
  BY <1>2 DEF Each
<1>4. \A x \in C : Statement(from, to, x) \in SqlStatements
  BY DEF Changed, Statement, SqlStatements, Content
<1>. HIDE DEF C, list
<1>5. each \in Seq(SqlStatements)
  BY <1>2, <1>3, <1>4
<1>6. ToSet(each) = {Statement(from, to, x) : x \in C}
  BY <1>2, <1>3 DEF ToSet
<1>. QED BY <1>5, <1>6 DEF C, Put

LEMMA ConcatLists ==
  ASSUME NEW T, NEW s \in Seq(T), NEW t \in Seq(T)
  PROVE  s \o t \in Seq(T) /\ ToSet(s \o t) = ToSet(s) \cup ToSet(t)
<1>1. /\ s \o t \in Seq(T) /\ Len(s \o t) = Len(s) + Len(t)
      /\ \A i \in 1 .. Len(s) + Len(t) : (s \o t)[i] = IF i <= Len(s) THEN s[i] ELSE t[i - Len(s)]
  BY ConcatProperties
<1>2. DOMAIN s = 1..Len(s) /\ DOMAIN t = 1..Len(t) /\ DOMAIN (s \o t) = 1 .. Len(s) + Len(t)
  BY <1>1
<1>3. ASSUME NEW e \in ToSet(s \o t) PROVE e \in ToSet(s) \cup ToSet(t)
  <2>1. PICK i \in 1 .. Len(s) + Len(t) : (s \o t)[i] = e
    BY <1>2, <1>3 DEF ToSet
  <2>2. CASE i <= Len(s)
    BY <1>1, <1>2, <2>1, <2>2 DEF ToSet
  <2>3. CASE i > Len(s)
    <3>1. i - Len(s) \in 1..Len(t) /\ t[i - Len(s)] = e
      BY <1>1, <2>1, <2>3
    <3>. QED BY <1>2, <3>1 DEF ToSet
  <2>. QED BY <2>2, <2>3
<1>4. ASSUME NEW e \in ToSet(s) PROVE e \in ToSet(s \o t)
  <2>1. PICK i \in 1 .. Len(s) : s[i] = e
    BY <1>2, <1>4 DEF ToSet
  <2>2. i \in 1 .. Len(s) + Len(t) /\ (s \o t)[i] = e
    BY <1>1, <2>1
  <2>. QED BY <1>2, <2>2 DEF ToSet
<1>5. ASSUME NEW e \in ToSet(t) PROVE e \in ToSet(s \o t)
  <2>1. PICK i \in 1 .. Len(t) : t[i] = e
    BY <1>2, <1>5 DEF ToSet
  <2>2. i + Len(s) \in 1 .. Len(s) + Len(t) /\ (s \o t)[i + Len(s)] = e
    BY <1>1, <2>1
  <2>. QED BY <1>2, <2>2 DEF ToSet
<1>. QED BY <1>1, <1>3, <1>4, <1>5

\* Whatever in s is not of P comes after all of P.
Leads(P, s) == \A n \in DOMAIN s : s[n] \in P \/ \A e \in P : \E j \in 1..n - 1 : s[j] = e

LEMMA LeadsSelf == ASSUME NEW s PROVE Leads(ToSet(s), s)
BY DEF Leads, ToSet

LEMMA LeadsOn ==
  ASSUME NEW T, NEW s \in Seq(T), NEW t \in Seq(T), NEW P \in SUBSET ToSet(s), Leads(P, s)
  PROVE  Leads(P, s \o t) /\ P \subseteq ToSet(s \o t)
<1>1. /\ s \o t \in Seq(T) /\ Len(s \o t) = Len(s) + Len(t)
      /\ \A i \in 1 .. Len(s) + Len(t) : (s \o t)[i] = IF i <= Len(s) THEN s[i] ELSE t[i - Len(s)]
  BY ConcatProperties
<1>2. DOMAIN s = 1..Len(s) /\ DOMAIN (s \o t) = 1 .. Len(s) + Len(t) /\ Len(s) \in Nat /\ Len(t) \in Nat
  BY <1>1
<1>3. ASSUME NEW n \in 1 .. Len(s) + Len(t), n <= Len(s), (s \o t)[n] \notin P, NEW e \in P
      PROVE  \E j \in 1..n - 1 : (s \o t)[j] = e
  <2>1. n \in DOMAIN s /\ s[n] \notin P
    BY <1>1, <1>2, <1>3
  <2>2. PICK j \in 1..n - 1 : s[j] = e
    BY <2>1, <1>3 DEF Leads
  <2>. QED BY <1>1, <1>2, <1>3, <2>2
<1>4. ASSUME NEW n \in 1 .. Len(s) + Len(t), n > Len(s), NEW e \in P
      PROVE  \E j \in 1..n - 1 : (s \o t)[j] = e
  <2>1. PICK j \in 1..Len(s) : s[j] = e
    BY <1>2 DEF ToSet
  <2>. QED BY <1>1, <1>2, <1>4, <2>1
<1>5. P \subseteq ToSet(s \o t)
  BY ConcatLists
<1>. QED BY <1>2, <1>3, <1>4, <1>5 DEF Leads

LEMMA NoRowsTyped == NoRows \in Content
BY DEF NoRows, Content

\* t goes on after s with the statements of P.
Appends(s, P, t) == /\ ToSet(t) = ToSet(s) \cup P
                    /\ \A Q \in SUBSET ToSet(s) : Leads(Q, s) => Leads(Q, t)

LEMMA Appended ==
  ASSUME NEW from \in Content, NEW to \in Content, NEW S, S \subseteq Key, NEW how, how \subseteq Mutations,
         NEW s \in Seq(SqlStatements)
  PROVE  /\ s \o Each(from, to, S, how) \in Seq(SqlStatements)
         /\ Appends(s, Put(from, to, S, how), s \o Each(from, to, S, how))
<1>. DEFINE t == Each(from, to, S, how)
<1>1. /\ t \in Seq(SqlStatements)
      /\ ToSet(t) = Put(from, to, S, how)
  BY EachLists
<1>. HIDE DEF t
<1>2. s \o t \in Seq(SqlStatements) /\ ToSet(s \o t) = ToSet(s) \cup ToSet(t)
  BY <1>1, ConcatLists
<1>3. ASSUME NEW P \in SUBSET ToSet(s), Leads(P, s) PROVE Leads(P, s \o t)
  BY <1>1, <1>3, LeadsOn
<1>. QED BY <1>1, <1>2, <1>3 DEF t, Appends

LEMMA HeaderList ==
  /\ <<Header>> \in Seq(SqlStatements) /\ ToSet(<<Header>>) = {Header}
BY DEF Header, SqlStatements, ToSet

LEMMA BaselineLists ==
  ASSUME NEW c \in Content
  PROVE  LET put(S) == Put(NoRows, c, S, Mutations)
             placed == {Header} \cup put(Labels) \cup put(Rules) \cup put(Preferences) \cup put(Messages)
         IN  /\ BaselineSql(c) \in Seq(SqlStatements)
             /\ ToSet(BaselineSql(c)) = placed \cup put(Assigned)
             /\ Leads({Header}, BaselineSql(c))
             /\ Leads(placed, BaselineSql(c))
<1>. DEFINE e(S) == Each(NoRows, c, S, Mutations)
            s0 == <<Header>>
            s1 == s0 \o e(Labels)
            s2 == s1 \o e(Rules)
            s3 == s2 \o e(Preferences)
            s4 == s3 \o e(Messages)
            s5 == s4 \o e(Assigned)
<1>0. /\ Labels \subseteq Key /\ Rules \subseteq Key /\ Preferences \subseteq Key
      /\ Messages \subseteq Key /\ Assigned \subseteq Key /\ Mutations \subseteq Mutations
  BY DEF Key, Entry
<1>1. s0 \in Seq(SqlStatements) /\ ToSet(s0) = {Header} /\ Leads({Header}, s0)
  BY HeaderList, LeadsSelf
<1>. HIDE DEF s0, s1, s2, s3, s4, s5
<1>2. /\ s1 \in Seq(SqlStatements) /\ Appends(s0, Put(NoRows, c, Labels, Mutations), s1)
  BY <1>0, <1>1, Appended, NoRowsTyped DEF s1
<1>3. /\ s2 \in Seq(SqlStatements) /\ Appends(s1, Put(NoRows, c, Rules, Mutations), s2)
  BY <1>0, <1>2, Appended, NoRowsTyped DEF s2
<1>4. /\ s3 \in Seq(SqlStatements) /\ Appends(s2, Put(NoRows, c, Preferences, Mutations), s3)
  BY <1>0, <1>3, Appended, NoRowsTyped DEF s3
<1>5. /\ s4 \in Seq(SqlStatements) /\ Appends(s3, Put(NoRows, c, Messages, Mutations), s4)
  BY <1>0, <1>4, Appended, NoRowsTyped DEF s4
<1>6. /\ s5 \in Seq(SqlStatements) /\ Appends(s4, Put(NoRows, c, Assigned, Mutations), s5)
  BY <1>0, <1>5, Appended, NoRowsTyped DEF s5
<1>7. BaselineSql(c) = s5
  BY DEF BaselineSql, s0, s1, s2, s3, s4, s5
<1>8. Leads(ToSet(s4), s4)
  BY LeadsSelf
<1>9. Leads(ToSet(s4), s5)
  BY <1>6, <1>8 DEF Appends
<1>10. Leads({Header}, s5)
  BY <1>1, <1>2, <1>3, <1>4, <1>5, <1>6 DEF Appends
<1>11. ToSet(s4) = {Header} \cup Put(NoRows, c, Labels, Mutations) \cup Put(NoRows, c, Rules, Mutations)
                   \cup Put(NoRows, c, Preferences, Mutations) \cup Put(NoRows, c, Messages, Mutations)
  BY <1>1, <1>2, <1>3, <1>4, <1>5 DEF Appends
<1>12. ToSet(s5) = ToSet(s4) \cup Put(NoRows, c, Assigned, Mutations)
  BY <1>6 DEF Appends
<1>. QED BY <1>6, <1>7, <1>9, <1>10, <1>11, <1>12

LEMMA DeltaLists ==
  ASSUME NEW from \in Content, NEW to \in Content
  PROVE  LET put(S, how) == Put(from, to, S, how)
             named  == {Header} \cup put(Messages, {"insert"}) \cup put(Messages, {"update"})
                                \cup put(Labels, {"insert", "update"})
             ruled  == named \cup put(Rules, Mutations)
         IN  /\ DeltaSql(from, to) \in Seq(SqlStatements)
             /\ ToSet(DeltaSql(from, to)) = ruled \cup put(Preferences, Mutations)
                                                  \cup put(Assigned, Mutations) \cup put(Labels, {"delete"})
             /\ Leads({Header}, DeltaSql(from, to))
             /\ Leads(named, DeltaSql(from, to))
             /\ Leads(ruled, DeltaSql(from, to))
<1>. DEFINE e(S, how) == Each(from, to, S, how)
            s0 == <<Header>>
            s1 == s0 \o e(Messages, {"insert"})
            s2 == s1 \o e(Messages, {"update"})
            s3 == s2 \o e(Labels, {"insert", "update"})
            s8 == s3 \o e(Rules, {"insert", "update"})
            s4 == s8 \o e(Rules, {"delete"})
            s5 == s4 \o e(Preferences, Mutations)
            s6 == s5 \o e(Assigned, Mutations)
            s7 == s6 \o e(Labels, {"delete"})
<1>0. /\ Labels \subseteq Key /\ Rules \subseteq Key /\ Preferences \subseteq Key
      /\ Messages \subseteq Key /\ Assigned \subseteq Key /\ Mutations \subseteq Mutations
      /\ {"insert"} \subseteq Mutations /\ {"update"} \subseteq Mutations
      /\ {"insert", "update"} \subseteq Mutations /\ {"delete"} \subseteq Mutations
  BY DEF Key, Entry, Mutations
<1>1. s0 \in Seq(SqlStatements) /\ ToSet(s0) = {Header} /\ Leads({Header}, s0)
  BY HeaderList, LeadsSelf
<1>. HIDE DEF s0, s1, s2, s3, s4, s5, s6, s7, s8
<1>2. /\ s1 \in Seq(SqlStatements) /\ Appends(s0, Put(from, to, Messages, {"insert"}), s1)
  BY <1>0, <1>1, Appended DEF s1
<1>3. /\ s2 \in Seq(SqlStatements) /\ Appends(s1, Put(from, to, Messages, {"update"}), s2)
  BY <1>0, <1>2, Appended DEF s2
<1>4. /\ s3 \in Seq(SqlStatements) /\ Appends(s2, Put(from, to, Labels, {"insert", "update"}), s3)
  BY <1>0, <1>3, Appended DEF s3
<1>5. /\ s8 \in Seq(SqlStatements) /\ Appends(s3, Put(from, to, Rules, {"insert", "update"}), s8)
  BY <1>0, <1>4, Appended DEF s8
<1>17. /\ s4 \in Seq(SqlStatements) /\ Appends(s8, Put(from, to, Rules, {"delete"}), s4)
  BY <1>0, <1>5, Appended DEF s4
<1>6. /\ s5 \in Seq(SqlStatements) /\ Appends(s4, Put(from, to, Preferences, Mutations), s5)
  BY <1>0, <1>17, Appended DEF s5
<1>7. /\ s6 \in Seq(SqlStatements) /\ Appends(s5, Put(from, to, Assigned, Mutations), s6)
  BY <1>0, <1>6, Appended DEF s6
<1>8. /\ s7 \in Seq(SqlStatements) /\ Appends(s6, Put(from, to, Labels, {"delete"}), s7)
  BY <1>0, <1>7, Appended DEF s7
<1>9. DeltaSql(from, to) = s7
  BY DEF DeltaSql, s0, s1, s2, s3, s4, s5, s6, s7, s8
<1>10. Leads(ToSet(s3), s3) /\ Leads(ToSet(s4), s4)
  BY LeadsSelf DEF Appends
<1>11. Leads(ToSet(s4), s7)
  BY <1>6, <1>7, <1>8, <1>10 DEF Appends
<1>12. Leads(ToSet(s3), s7)
  BY <1>5, <1>6, <1>7, <1>8, <1>10, <1>17 DEF Appends
<1>13. Leads({Header}, s7)
  BY <1>1, <1>2, <1>3, <1>4, <1>5, <1>6, <1>7, <1>8, <1>17 DEF Appends
<1>14. ToSet(s3) = {Header} \cup Put(from, to, Messages, {"insert"}) \cup Put(from, to, Messages, {"update"})
                   \cup Put(from, to, Labels, {"insert", "update"})
  BY <1>1, <1>2, <1>3, <1>4 DEF Appends
<1>15. ToSet(s7) = ToSet(s4) \cup Put(from, to, Preferences, Mutations)
                   \cup Put(from, to, Assigned, Mutations) \cup Put(from, to, Labels, {"delete"})
  BY <1>6, <1>7, <1>8 DEF Appends
<1>16. ToSet(s4) = ToSet(s3) \cup Put(from, to, Rules, Mutations)
  <2>1. ToSet(s4) = ToSet(s3) \cup Put(from, to, Rules, {"insert", "update"}) \cup Put(from, to, Rules, {"delete"})
    BY <1>5, <1>17 DEF Appends
  <2>. QED BY <2>1 DEF Put, Changed, Mutations
<1>. QED BY <1>8, <1>9, <1>11, <1>12, <1>13, <1>14, <1>15, <1>16

-------------------------------------------------------------------------------
(* The SQL of a stage that was prepared.                                   *)

Stmt(k, x) == Statement(Before(k), backup[k], x)

\* A stage that can be prepared: both backups, and no message was removed.
Prepared(k) == Imported(0) /\ Imported(k) /\ (k # 0 => Removed(k) = {})

LEMMA ChangeIs ==
  ASSUME NEW from, NEW to, NEW x
  PROVE  /\ Change(from, to, x) = "none" <=> from[x] = to[x]
         /\ Change(from, to, x) = "insert" <=> from[x] = Absent /\ to[x] # Absent
         /\ Change(from, to, x) = "delete" <=> from[x] # Absent /\ to[x] = Absent
         /\ Change(from, to, x) \in Mutations <=> from[x] # to[x]
         /\ Change(from, to, x) # "header"
BY DEF Change, Mutations

LEMMA PreparedTypes ==
  ASSUME TypeOK, NEW k \in Stage, Prepared(k)
  PROVE  backup[0] \in Content /\ backup[k] \in Content /\ Before(k) \in Content
BY NoRowsTyped DEF TypeOK, Prepared, Imported, Stage, Before

LEMMA ChangesAre ==
  ASSUME NEW k \in Stage
  PROVE  /\ Changes(k) = {x \in Key : Before(k)[x] # backup[k][x]}
         /\ \A x \in Changes(k) : /\ Stmt(k, x) # Header
                                  /\ Stmt(k, x).key = x /\ Stmt(k, x).val = backup[k][x]
                                  /\ Stmt(k, x).do = Change(Before(k), backup[k], x)
BY ChangeIs DEF Changes, Changed, Stmt, Statement, Header

LEMMA MessagesStay ==
  ASSUME NEW k \in Stage, Prepared(k), NEW m \in Messages
  PROVE  Change(Before(k), backup[k], m) # "delete"
BY ChangeIs DEF Prepared, Before, Removed, Mine, Present, NoRows, Key

LEMMA SqlLists ==
  ASSUME TypeOK, NEW k \in Stage, Prepared(k)
  PROVE  /\ Sql(k) \in Seq(SqlStatements)
         /\ ToSet(Sql(k)) = {Header} \cup {Stmt(k, x) : x \in Changes(k)}
         /\ Leads({Header}, Sql(k))
<1>. DEFINE put(S, how) == Put(Before(k), backup[k], S, how)
<1>0. backup[0] \in Content /\ backup[k] \in Content
  BY PreparedTypes
<1>1. CASE k = 0
  <2>1. /\ Sql(0) \in Seq(SqlStatements) /\ Leads({Header}, Sql(0))
        /\ ToSet(Sql(0)) = {Header} \cup put(Labels, Mutations) \cup put(Rules, Mutations)
             \cup put(Preferences, Mutations) \cup put(Messages, Mutations) \cup put(Assigned, Mutations)
    BY <1>0, <1>1, BaselineLists DEF Sql, Before
  <2>2. {Stmt(k, x) : x \in Changes(k)} =
          put(Labels, Mutations) \cup put(Rules, Mutations) \cup put(Preferences, Mutations)
            \cup put(Messages, Mutations) \cup put(Assigned, Mutations)
    BY DEF Put, Changes, Changed, Stmt, Key, Entry
  <2>. QED BY <1>1, <2>1, <2>2
<1>2. CASE k # 0
  <2>1. /\ Sql(k) \in Seq(SqlStatements) /\ Leads({Header}, Sql(k))
        /\ ToSet(Sql(k)) = {Header} \cup put(Messages, {"insert"}) \cup put(Messages, {"update"})
             \cup put(Labels, {"insert", "update"}) \cup put(Rules, Mutations)
             \cup put(Preferences, Mutations) \cup put(Assigned, Mutations) \cup put(Labels, {"delete"})
    BY <1>0, <1>2, DeltaLists DEF Sql, Before
  <2>2. {Stmt(k, x) : x \in Changes(k)} =
          put(Messages, {"insert"}) \cup put(Messages, {"update"})
             \cup put(Labels, {"insert", "update"}) \cup put(Rules, Mutations)
             \cup put(Preferences, Mutations) \cup put(Assigned, Mutations) \cup put(Labels, {"delete"})
    BY MessagesStay DEF Put, Changes, Changed, Stmt, Key, Entry, Mutations
  <2>. QED BY <2>1, <2>2
<1>. QED BY <1>1, <1>2

\* What a reader of the list needs: the header first, then a statement for each change.
LEMMA SqlFacts ==
  ASSUME TypeOK, NEW k \in Stage, Prepared(k)
  PROVE  /\ Len(Sql(k)) \in Nat \ {0} /\ Sql(k)[1] = Header
         /\ \A n \in 1..Len(Sql(k)) : Sql(k)[n] = Header \/ \E x \in Changes(k) : Sql(k)[n] = Stmt(k, x)
         /\ \A x \in Changes(k) : \E n \in 1..Len(Sql(k)) : Sql(k)[n] = Stmt(k, x)
<1>1. /\ Sql(k) \in Seq(SqlStatements) /\ Leads({Header}, Sql(k))
      /\ ToSet(Sql(k)) = {Header} \cup {Stmt(k, x) : x \in Changes(k)}
  BY SqlLists
<1>2. DOMAIN Sql(k) = 1..Len(Sql(k)) /\ Len(Sql(k)) \in Nat
  BY <1>1
<1>3. PICK h \in DOMAIN Sql(k) : Sql(k)[h] = Header
  BY <1>1 DEF ToSet
<1>4. 1 \in DOMAIN Sql(k)
  BY <1>2, <1>3
<1>5. Sql(k)[1] = Header
  BY <1>1, <1>4 DEF Leads
<1>6. \A n \in 1..Len(Sql(k)) : Sql(k)[n] = Header \/ \E x \in Changes(k) : Sql(k)[n] = Stmt(k, x)
  BY <1>1, <1>2 DEF ToSet
<1>7. \A x \in Changes(k) : \E n \in 1..Len(Sql(k)) : Sql(k)[n] = Stmt(k, x)
  BY <1>1, <1>2 DEF ToSet
<1>. QED BY <1>2, <1>4, <1>5, <1>6, <1>7

\* The changes that a guard or a foreign key asks for before the change of x.
Precedes(k, y, x) ==
  \/ x \in Assigned /\ (y \in Messages \/ (y \in Labels /\ backup[k][y] # Absent))
  \/ k # 0 /\ x \in Rules /\ y \in Labels /\ backup[k][y] # Absent
  \/ k # 0 /\ x \in Labels /\ backup[k][x] = Absent /\ y \in Rules

LEMMA Precedence ==
  ASSUME TypeOK, NEW k \in Stage, Prepared(k),
         NEW n \in 1..Len(Sql(k)), NEW x \in Changes(k), Sql(k)[n] = Stmt(k, x),
         NEW y \in Changes(k), Precedes(k, y, x)
  PROVE  \E j \in 1..n - 1 : Sql(k)[j] = Stmt(k, y)
<1>. DEFINE put(S, how) == Put(Before(k), backup[k], S, how)
<1>0. backup[0] \in Content /\ backup[k] \in Content
  BY PreparedTypes
<1>1. n \in DOMAIN Sql(k)
  BY SqlLists
<1>2. ASSUME NEW P, Leads(P, Sql(k)), Stmt(k, y) \in P, Stmt(k, x) \notin P
      PROVE  \E j \in 1..n - 1 : Sql(k)[j] = Stmt(k, y)
  BY <1>1, <1>2 DEF Leads
<1>3. Stmt(k, x).key = x /\ Stmt(k, x).do # "header" /\ Stmt(k, x).do = Change(Before(k), backup[k], x)
  BY ChangeIs, ChangesAre
<1>4. \A S, how : Stmt(k, x) \in put(S, how) => x \in S /\ Stmt(k, x).do \in how
  BY <1>3 DEF Put, Changed, Statement
<1>5. \A S, how : y \in S /\ Change(Before(k), backup[k], y) \in how => Stmt(k, y) \in put(S, how)
  BY DEF Put, Changed, Stmt
<1>6. Change(Before(k), backup[k], y) \in Mutations
  BY DEF Changes, Changed
<1>7. backup[k][y] # Absent => Change(Before(k), backup[k], y) \in {"insert", "update"}
  BY <1>6, ChangeIs DEF Mutations
<1>8. Stmt(k, x) # Header
  BY <1>3 DEF Header
<1>. HIDE DEF put
<1>9. CASE k = 0
  <2>. DEFINE placed == {Header} \cup put(Labels, Mutations) \cup put(Rules, Mutations)
                          \cup put(Preferences, Mutations) \cup put(Messages, Mutations)
  <2>1. Leads(placed, Sql(k))
    BY <1>0, <1>9, BaselineLists DEF Sql, Before, put
  <2>2. x \in Assigned /\ y \in Messages \cup Labels
    BY <1>9 DEF Precedes
  <2>3. Stmt(k, x) \notin placed
    BY <1>4, <1>8, <2>2, KeyAssumption DEF Entry
  <2>4. Stmt(k, y) \in placed
    BY <1>5, <1>6, <2>2
  <2>. QED BY <1>2, <2>1, <2>3, <2>4
<1>10. CASE k # 0
  <2>. DEFINE named == {Header} \cup put(Messages, {"insert"}) \cup put(Messages, {"update"})
                                \cup put(Labels, {"insert", "update"})
              ruled == named \cup put(Rules, Mutations)
  <2>1. Leads(named, Sql(k)) /\ Leads(ruled, Sql(k))
    BY <1>0, <1>10, DeltaLists DEF Sql, Before, put
  <2>2. CASE x \in Assigned /\ (y \in Messages \/ (y \in Labels /\ backup[k][y] # Absent))
    <3>1. Stmt(k, x) \notin named
      BY <1>4, <1>8, <2>2, KeyAssumption DEF Entry
    <3>2. y \in Messages => Change(Before(k), backup[k], y) \in {"insert"} \cup {"update"}
      BY <1>6, MessagesStay DEF Mutations
    <3>3. Stmt(k, y) \in named
      BY <1>5, <1>7, <2>2, <3>2
    <3>. QED BY <1>2, <2>1, <3>1, <3>3
  <2>3. CASE x \in Rules /\ y \in Labels /\ backup[k][y] # Absent
    <3>1. Stmt(k, x) \notin named
      BY <1>4, <1>8, <2>3, KeyAssumption DEF Entry
    <3>2. Stmt(k, y) \in named
      BY <1>5, <1>7, <2>3
    <3>. QED BY <1>2, <2>1, <3>1, <3>2
  <2>4. CASE x \in Labels /\ backup[k][x] = Absent /\ y \in Rules
    <3>1. Stmt(k, x).do = "delete"
      BY <1>3, <2>4, ChangeIs DEF Changes, Changed, Mutations
    <3>2. Stmt(k, x) \notin ruled
      BY <1>4, <1>8, <2>4, <3>1, KeyAssumption DEF Entry
    <3>3. Stmt(k, y) \in ruled
      BY <1>5, <1>6, <2>4
    <3>. QED BY <1>2, <2>1, <3>2, <3>3
  <2>. QED BY <1>10, <2>2, <2>3, <2>4 DEF Precedes
<1>. QED BY <1>9, <1>10

-------------------------------------------------------------------------------
(* What a step leaves alone.                                               *)

LEMMA StageFacts == 0 \in Stage /\ Stage \subseteq Nat /\ \A k \in Stage : k # 0 => k \in Deltas
BY StageAssumption DEF Stage

LEMMA IntactIsPrepared ==
  ASSUME IInv, NEW k \in Stage, Intact(k)
  PROVE  Prepared(k) /\ WellFormed(backup[k]) /\ WellFormed(backup[0])
BY StageFacts DEF IInv, Sources, Progress, Intact, Prepared

\* The SQL of a stage is made from two backups that do not change.
LEMMA StageKept ==
  ASSUME NEW k \in Stage, backup'[0] = backup[0], backup'[k] = backup[k]
  PROVE  /\ Sql(k)' = Sql(k) /\ Changes(k)' = Changes(k) /\ Staged(k)' = Staged(k)
         /\ Removed(k)' = Removed(k) /\ Mine(k)' = Mine(k) /\ Prepared(k)' = Prepared(k)
         /\ Before(k)' = Before(k)
<1>1. Mine(0)' = Mine(0) /\ Mine(k)' = Mine(k) /\ Before(k)' = Before(k)
  BY DEF Mine, Before
<1>2. Changes(k)' = Changes(k)
  BY <1>1 DEF Changes
<1>3. Sql(k)' = Sql(k)
  BY DEF Sql
<1>4. Staged(k)' = Staged(k) /\ Removed(k)' = Removed(k)
  BY <1>1 DEF Staged, Removed
<1>5. Prepared(k)' = Prepared(k)
  BY <1>4 DEF Prepared, Imported
<1>. QED BY <1>1, <1>2, <1>3, <1>4, <1>5

\* How far each stage is known to be, when no command runs and none is recorded.
LEMMA ReachedTyped ==
  ASSUME TypeOK, NEW k \in Stage
  PROVE  Reached(k) \in Nat /\ saved[k].next \in Nat
BY DEF TypeOK, Doing, Idle, Reached, Executing

-------------------------------------------------------------------------------
(* One statement.                                                          *)

\* The change of a row of a prepared stage is carried out on a typed database.
LEMMA WrittenTyped ==
  ASSUME NEW d \in D1, NEW k, NEW s, s.key \in Key, s.val \in Versions \cup {Absent}
  PROVE  Written(d, k, s) \in Content
<1>1. d.row \in Content
  BY DEF D1
<1>2. Inserted(d, k, s) \in Content /\ Updated(d, s) \in Content
  BY <1>1 DEF Inserted, Updated, Content
<1>3. Deleted(d, s) \in Content
  BY <1>1 DEF Deleted, Without, Content
<1>. QED BY <1>2, <1>3 DEF Written

LEMMA StatementTyped ==
  ASSUME TypeOK, NEW k \in Stage, Prepared(k), NEW x \in Changes(k)
  PROVE  /\ x \in Key /\ Stmt(k, x).key = x /\ Stmt(k, x).val = backup[k][x]
         /\ backup[k][x] \in Versions \cup {Absent}
         /\ Stmt(k, x).do # "header" /\ Stmt(k, x).do = Change(Before(k), backup[k], x)
         /\ k = 0 => Stmt(k, x).do = "insert" /\ backup[0][x] # Absent
<1>1. backup[k] \in Content
  BY PreparedTypes
<1>2. x \in Key /\ Before(k)[x] # backup[k][x]
  BY ChangesAre
<1>3. k = 0 => backup[0][x] # Absent /\ Change(Before(k), backup[k], x) = "insert"
  BY <1>2, ChangeIs DEF Before, NoRows
<1>. QED BY <1>1, <1>2, <1>3, ChangesAre, ChangeIs DEF Content

LEMMA HeaderExecuted ==
  ASSUME NEW d \in D1, NEW k \in Stage
  PROVE  /\ Execute(d, k, Header) \in D1
         /\ Execute(d, k, Header) = [d EXCEPT !.header = d.header \cup {k}]
         /\ Left(Execute(d, k, Header), k, Header)
BY DEF Execute, Header, D1, Left

LEMMA ChangeExecuted ==
  ASSUME TypeOK, NEW k \in Stage, Prepared(k), NEW x \in Changes(k)
  PROVE  LET d == Execute(d1, k, Stmt(k, x))
         IN  /\ d \in D1 /\ Left(d, k, Stmt(k, x))
             /\ d.row = Written(d1, k, Stmt(k, x)) /\ d.header = d1.header
             /\ d.batch = IF Stmt(k, x).do = "insert" /\ x \in Messages
                          THEN d1.batch \cup {<<k, x>>} ELSE d1.batch
             /\ d.owned = IF k = 0 /\ x \notin Messages THEN d1.owned \cup {x} ELSE d1.owned
             /\ d.change = IF k # 0 THEN d1.change \cup {<<k, x>>} ELSE d1.change
<1>. DEFINE s == Stmt(k, x)
            d == Execute(d1, k, s)
<1>1. /\ x \in Key /\ s.key = x /\ s.val \in Versions \cup {Absent} /\ s.do # "header"
      /\ k = 0 => s.do = "insert"
  BY StatementTyped
<1>2. d1 \in D1 /\ Written(d1, k, s) \in Content
  BY <1>1, WrittenTyped DEF TypeOK
<1>. HIDE DEF s
<1>3. d = [d1 EXCEPT !.row    = Written(d1, k, s),
                     !.batch  = IF s.do = "insert" /\ x \in Messages THEN d1.batch \cup {<<k, x>>} ELSE d1.batch,
                     !.owned  = IF k = 0 /\ x \notin Messages THEN d1.owned \cup {x} ELSE d1.owned,
                     !.change = IF k # 0 THEN d1.change \cup {<<k, x>>} ELSE d1.change]
  BY <1>1 DEF Execute
<1>4. /\ d.row = Written(d1, k, s) /\ d.header = d1.header
      /\ d.batch = IF s.do = "insert" /\ x \in Messages THEN d1.batch \cup {<<k, x>>} ELSE d1.batch
      /\ d.owned = IF k = 0 /\ x \notin Messages THEN d1.owned \cup {x} ELSE d1.owned
      /\ d.change = IF k # 0 THEN d1.change \cup {<<k, x>>} ELSE d1.change
  BY <1>2, <1>3 DEF D1
<1>5. d \in D1
  <2>1. d = [row |-> d.row, batch |-> d.batch, owned |-> d.owned, header |-> d.header, change |-> d.change]
    BY <1>2, <1>3 DEF D1
  <2>2. d.batch \in SUBSET (Stage \X Messages) /\ d.header \in SUBSET Stage
    BY <1>2, <1>4 DEF D1
  <2>3. d.owned \in SUBSET (Entry \cup Assigned)
    BY <1>1, <1>2, <1>4 DEF D1, Key
  <2>4. d.change \in SUBSET (Deltas \X Key)
    BY <1>1, <1>2, <1>4, StageFacts DEF D1
  <2>5. d.row \in Content
    BY <1>2, <1>4
  <2>. HIDE DEF d
  <2>. QED BY <2>1, <2>2, <2>3, <2>4, <2>5 DEF D1
<1>. HIDE DEF d
<1>6. Left(d, k, s)
  BY <1>1, <1>4 DEF Left, Owned
<1>. QED BY <1>4, <1>5, <1>6 DEF d, s

\* What the step of an import does: the next statement of a stage that was checked.
LEMMA Runs ==
  ASSUME IInv, NEW k \in Stage, RunStatement(k)
  PROVE  LET n == Reached(k) + 1
         IN  /\ Intact(k) /\ Prepared(k) /\ saved[k].verified /\ ~saved[k].done
             /\ Ordered /\ k # 0 => saved[0].done
             /\ doing = Idle \/ (doing.at = "running" /\ doing.stage = k)
             /\ n \in 1..Len(Sql(k)) /\ n \in Nat \ {0}
             /\ \E at \in {"running", "executed"} : doing' = [at |-> at, stage |-> k, pos |-> n]
             /\ d1' = Execute(d1, k, Sql(k)[n]) /\ Allowed(d1, k, Sql(k)[n])
             /\ \/ Sql(k)[n] = Header
                \/ \E x \in Changes(k) : Sql(k)[n] = Stmt(k, x) /\ k \in d1.header
<1>. DEFINE n == Reached(k) + 1
<1>1. Progress(k) /\ Executed(k) /\ TypeOK
  BY DEF IInv
<1>2. Writing(k) /\ NextStatement(k) = Sql(k)[n]
  BY DEF RunStatement, NextStatement
<1>3. Reached(k) \in Nat
  BY <1>1, ReachedTyped
<1>4. doing = Idle \/ (doing.at = "running" /\ doing.stage = k)
  BY <1>2 DEF Writing, Ready
<1>5. Intact(k) /\ ~saved[k].done /\ (Ordered /\ k # 0 => saved[0].done)
  BY <1>1, <1>2 DEF Writing, Ready, Progress, Applying
<1>6. Prepared(k)
  BY <1>5, IntactIsPrepared
<1>7. saved[k].verified
  <2>1. CASE Ready(k) /\ saved[k].verified
    BY <2>1
  <2>2. CASE doing.at = "running" /\ doing.stage = k
    <3>1. doing.pos > 0 /\ Reached(k) = doing.pos
      BY <1>1, <2>2 DEF TypeOK, Doing, Idle, Reached, Executing
    <3>. QED BY <1>1, <3>1 DEF Progress
  <2>. QED BY <1>2, <2>1, <2>2 DEF Writing
<1>8. Len(Sql(k)) \in Nat /\ n \in 1..Len(Sql(k)) /\ n \in Nat \ {0}
  BY <1>1, <1>2, <1>3, <1>6, SqlFacts DEF Writing
<1>9. \/ Sql(k)[n] = Header
      \/ \E x \in Changes(k) : Sql(k)[n] = Stmt(k, x) /\ k \in d1.header
  <2>1. CASE Sql(k)[n] = Header
    BY <2>1
  <2>2. CASE Sql(k)[n] # Header
    <3>1. Sql(k)[1] = Header /\ n > 1
      BY <1>1, <1>6, <1>8, <2>2, SqlFacts
    <3>2. Left(d1, k, Header)
      BY <1>1, <1>3, <3>1 DEF Executed
    <3>3. k \in d1.header
      BY <3>2 DEF Left, Header
    <3>. QED BY <1>1, <1>6, <1>8, <2>2, <3>3, SqlFacts
  <2>. QED BY <2>1, <2>2
<1>10. \E at \in {"running", "executed"} : doing' = [at |-> at, stage |-> k, pos |-> n]
  BY DEF RunStatement
<1>11. d1' = Execute(d1, k, Sql(k)[n]) /\ Allowed(d1, k, Sql(k)[n])
  BY <1>2 DEF RunStatement
<1>. QED BY <1>4, <1>5, <1>6, <1>7, <1>8, <1>9, <1>10, <1>11

\* The provenance only grows, and the statement leaves its trace.
LEMMA RunsOn ==
  ASSUME IInv, NEW k \in Stage, RunStatement(k)
  PROVE  /\ d1' \in D1 /\ Left(d1', k, Sql(k)[Reached(k) + 1])
         /\ d1.batch \subseteq d1'.batch /\ d1.owned \subseteq d1'.owned
         /\ d1.header \subseteq d1'.header /\ d1'.header \subseteq d1.header \cup {k}
         /\ d1.change \subseteq d1'.change
<1>. DEFINE n == Reached(k) + 1
<1>1. /\ d1' = Execute(d1, k, Sql(k)[n]) /\ Prepared(k) /\ TypeOK /\ d1 \in D1
      /\ \/ Sql(k)[n] = Header
         \/ \E x \in Changes(k) : Sql(k)[n] = Stmt(k, x) /\ k \in d1.header
  BY Runs DEF IInv, TypeOK
<1>2. CASE Sql(k)[n] = Header
  BY <1>1, <1>2, HeaderExecuted DEF D1
<1>3. ASSUME NEW x \in Changes(k), Sql(k)[n] = Stmt(k, x)
      PROVE  /\ d1' \in D1 /\ Left(d1', k, Sql(k)[n])
             /\ d1.batch \subseteq d1'.batch /\ d1.owned \subseteq d1'.owned
             /\ d1.header \subseteq d1'.header /\ d1'.header \subseteq d1.header \cup {k}
             /\ d1.change \subseteq d1'.change
  <2>. DEFINE d == Execute(d1, k, Stmt(k, x))
  <2>0. TypeOK /\ Prepared(k)
    BY <1>1
  <2>1. d1' = d
    BY <1>1, <1>3
  <2>2. /\ d \in D1 /\ Left(d, k, Stmt(k, x)) /\ d.header = d1.header
        /\ d.batch = IF Stmt(k, x).do = "insert" /\ x \in Messages
                     THEN d1.batch \cup {<<k, x>>} ELSE d1.batch
        /\ d.owned = IF k = 0 /\ x \notin Messages THEN d1.owned \cup {x} ELSE d1.owned
        /\ d.change = IF k # 0 THEN d1.change \cup {<<k, x>>} ELSE d1.change
    BY <2>0, ChangeExecuted
  <2>. HIDE DEF d
  <2>. QED BY <1>3, <2>1, <2>2
<1>. QED BY <1>1, <1>2, <1>3

LEMMA LeftKept ==
  ASSUME NEW k, NEW s, d1.batch \subseteq d1'.batch, d1.owned \subseteq d1'.owned,
         d1.header \subseteq d1'.header, d1.change \subseteq d1'.change, Left(d1, k, s)
  PROVE  Left(d1', k, s)
BY DEF Left, Owned

-------------------------------------------------------------------------------
(* The types.                                                              *)

LEMMA EditedTyped ==
  ASSUME legacy \in Content, NEW x \in Key, NEW v \in Versions \cup {Absent}
  PROVE  Edited(x, v) \in Content
BY DEF Edited, Content

LEMMA Types ==
  ASSUME IInv, [Next]_vars
  PROVE  TypeOK'
<1>. USE StageFacts
<1>0. TypeOK
  BY DEF IInv
<1>1. CASE Edit
  <2>1. legacy' \in Content
    BY <1>0, <1>1, EditedTyped DEF Edit, TypeOK
  <2>2. edits' \in 0..MaxEdits
    BY <1>0, <1>1, BoundAssumption DEF Edit, TypeOK
  <2>. QED BY <1>0, <1>1, <2>1, <2>2 DEF Edit, TypeOK, local
<1>2. ASSUME NEW k \in Stage, Import(k) PROVE TypeOK'
  BY <1>0, <1>2 DEF Import, TypeOK, local
<1>3. ASSUME NEW k \in Stage, OpenSnapshot(k) PROVE TypeOK'
  <2>1. faults' \in 0..MaxFaults
    BY <1>0, <1>3, BoundAssumption DEF OpenSnapshot, TypeOK
  <2>2. snap' \in [Stage -> {"absent", "torn", "ready"}]
    BY <1>0, <1>3 DEF OpenSnapshot, TypeOK
  <2>3. rows' \in [Stage -> [Messages -> {"none", "pending", "ready", "missing", "invalid"}]]
    BY <1>0, <1>3 DEF OpenSnapshot, TypeOK
  <2>. QED BY <1>0, <1>3, <2>1, <2>2, <2>3 DEF OpenSnapshot, TypeOK, source
<1>4. ASSUME NEW k \in Stage, RemoveTorn(k) PROVE TypeOK'
  BY <1>0, <1>4 DEF RemoveTorn, TypeOK, source
<1>5. ASSUME NEW k \in Stage, NEW m \in Messages, NEW bytes \in Bytes, Store(k, m, bytes) PROVE TypeOK'
  <2>1. files' \in [Stage -> [Messages -> Bytes]]
    BY <1>0, <1>5 DEF Store, TypeOK
  <2>2. doing' \in Doing
    BY <1>5 DEF Store, Doing
  <2>. QED BY <1>0, <1>5, <2>1, <2>2 DEF Store, TypeOK, source
<1>6. ASSUME NEW k \in Stage, NEW m \in Messages, Fetch(k, m) PROVE TypeOK'
  BY <1>5, <1>6 DEF Fetch, Bytes
<1>7. ASSUME NEW k \in Stage, NEW m \in Messages, Seed(k, m) PROVE TypeOK'
  BY <1>0, <1>5, <1>7 DEF Seed, TypeOK
<1>8. ASSUME NEW k \in Stage, NEW m \in Messages, FetchBad(k, m) PROVE TypeOK'
  <2>1. PICK bytes \in {"bad", "none"} :
          /\ rows' = [rows EXCEPT ![k][m] = IF bytes = "none" THEN "missing" ELSE "invalid"]
          /\ faults' = faults + 1
          /\ UNCHANGED <<source, snap, files, staged, bucket, d1, saved, doing>>
    BY <1>8 DEF FetchBad, Verified
  <2>2. faults' \in 0..MaxFaults
    BY <1>0, <1>8, <2>1, BoundAssumption DEF FetchBad, TypeOK
  <2>3. rows' \in [Stage -> [Messages -> {"none", "pending", "ready", "missing", "invalid"}]]
    BY <1>0, <2>1 DEF TypeOK
  <2>. QED BY <1>0, <2>1, <2>2, <2>3 DEF TypeOK, source
<1>9. CASE MarkReady
  <2>1. rows' \in [Stage -> [Messages -> {"none", "pending", "ready", "missing", "invalid"}]]
    BY <1>0, <1>9 DEF MarkReady, TypeOK
  <2>. QED BY <1>0, <1>9, <2>1 DEF MarkReady, TypeOK, source, Doing
<1>10. CASE PrepareBaseline
  <2>1. faults' \in 0..MaxFaults
    BY <1>0, <1>10, BoundAssumption DEF PrepareBaseline, TypeOK
  <2>2. staged' \in [Stage -> {"absent", "partial", "incomplete", "complete"}]
    BY <1>0, <1>10 DEF PrepareBaseline, TypeOK
  <2>. QED BY <1>0, <1>10, <2>1, <2>2 DEF PrepareBaseline, TypeOK, source
<1>11. ASSUME NEW k \in Stage, PrepareDelta(k) PROVE TypeOK'
  <2>1. faults' \in 0..MaxFaults
    BY <1>0, <1>11, BoundAssumption DEF PrepareDelta, TypeOK
  <2>2. staged' \in [Stage -> {"absent", "partial", "incomplete", "complete"}]
    BY <1>0, <1>11 DEF PrepareDelta, TypeOK
  <2>. QED BY <1>0, <1>11, <2>1, <2>2 DEF PrepareDelta, TypeOK, source
<1>12. ASSUME NEW k \in Stage, RemovePartial(k) PROVE TypeOK'
  BY <1>0, <1>12 DEF RemovePartial, TypeOK, source
<1>13. ASSUME NEW k \in Stage, Copy(k) PROVE TypeOK'
  <2>1. bucket' \in [Raws -> Bytes]
    BY <1>0, <1>13 DEF Copy, TypeOK, Bytes
  <2>2. doing' \in Doing
    BY <1>13 DEF Copy, Doing
  <2>. QED BY <1>0, <1>13, <2>1, <2>2 DEF Copy, TypeOK, source, local
<1>14. ASSUME NEW k \in Stage, CopyBad(k) PROVE TypeOK'
  <2>1. bucket' \in [Raws -> Bytes]
    BY <1>0, <1>14 DEF CopyBad, TypeOK, Bytes
  <2>2. doing' \in Doing
    BY <1>0, <1>14 DEF CopyBad, Doing, TypeOK
  <2>3. faults' \in 0..MaxFaults
    BY <1>0, <1>14, BoundAssumption DEF CopyBad, TypeOK
  <2>. QED BY <1>0, <1>14, <2>1, <2>2, <2>3 DEF CopyBad, TypeOK, source, local
<1>15. ASSUME NEW k \in Stage, Check(k) PROVE TypeOK'
  <2>1. doing' \in Doing
    BY <1>15 DEF Check, Doing
  <2>. QED BY <1>0, <1>15, <2>1 DEF Check, TypeOK, source, local
<1>16. ASSUME NEW k \in Stage, RunStatement(k) PROVE TypeOK'
  <2>1. d1' \in D1
    BY <1>16, RunsOn
  <2>2. doing' \in Doing
    <3>1. PICK at \in {"running", "executed"}, n \in Nat \ {0} : doing' = [at |-> at, stage |-> k, pos |-> n]
      BY <1>16, Runs
    <3>. QED BY <3>1 DEF Doing
  <2>. QED BY <1>0, <1>16, <2>1, <2>2 DEF RunStatement, TypeOK, source, local
<1>17. ASSUME NEW k \in Stage, Finish(k) PROVE TypeOK'
  BY <1>0, <1>17 DEF Finish, TypeOK, source, local
<1>18. CASE Save
  <2>1. /\ doing.stage \in Stage
        /\ doing.at = "executed" => doing.pos \in Nat
    BY <1>0, <1>18 DEF Save, TypeOK, Doing, Idle
  <2>2. saved' \in [Stage -> [copied : BOOLEAN, verified : BOOLEAN, next : Nat, done : BOOLEAN]]
    <3>. DEFINE flags == [copied : BOOLEAN, verified : BOOLEAN, next : Nat, done : BOOLEAN]
    <3>1. saved[doing.stage] \in flags
      BY <1>0, <2>1 DEF TypeOK
    <3>2. PICK f \in flags : saved' = [saved EXCEPT ![doing.stage] = f]
      BY <1>18, <2>1, <3>1 DEF Save
    <3>. QED BY <1>0, <3>2 DEF TypeOK
  <2>. QED BY <1>0, <1>18, <2>2 DEF Save, TypeOK, source, local, Doing
<1>19. CASE ImportFails
  <2>1. faults' \in 0..MaxFaults
    BY <1>0, <1>19, BoundAssumption DEF ImportFails, TypeOK
  <2>. QED BY <1>0, <1>19, <2>1 DEF ImportFails, TypeOK, source, local, Doing
<1>20. CASE Crash
  <2>1. faults' \in 0..MaxFaults
    BY <1>0, <1>20, BoundAssumption DEF Crash, TypeOK
  <2>. QED BY <1>0, <1>20, <2>1 DEF Crash, TypeOK, source, local, Doing
<1>21. ASSUME NEW r \in Raws, Repair(r) PROVE TypeOK'
  BY <1>0, <1>21 DEF Repair, TypeOK, source, local, Bytes
<1>22. CASE UNCHANGED vars
  BY <1>0, <1>22 DEF TypeOK, vars, source, local
<1>23. CASE Prepare
  BY <1>10, <1>11, <1>12, <1>23 DEF Prepare
<1>24. ASSUME NEW k \in Stage, Snapshot(k) PROVE TypeOK'
  BY <1>3, <1>4, <1>6, <1>7, <1>8, <1>24 DEF Snapshot
<1>25. ASSUME NEW k \in Stage, Apply(k) PROVE TypeOK'
  BY <1>13, <1>14, <1>15, <1>16, <1>17, <1>25 DEF Apply
<1>. QED BY <1>1, <1>2, <1>9, <1>18, <1>19, <1>20, <1>21, <1>22, <1>23, <1>24, <1>25 DEF Next

-------------------------------------------------------------------------------
(* What no step takes back.                                                *)

\* A backup stays, so does a complete stage; good objects, provenance rows and
\* what the state file says stay.
Kept ==
  /\ \A k \in Stage : Imported(k) => backup'[k] = backup[k]
  /\ \A k \in Stage : Intact(k) => Intact(k)'
  /\ \A r \in Raws : bucket[r] = "good" => bucket'[r] = "good"
  /\ d1.batch \subseteq d1'.batch /\ d1.owned \subseteq d1'.owned
  /\ d1.header \subseteq d1'.header /\ d1.change \subseteq d1'.change
  /\ \A k \in Stage : /\ saved[k].done => saved'[k].done
                      /\ saved[k].verified => saved'[k].verified

LEMMA StepsKeep ==
  ASSUME IInv, [Next]_vars
  PROVE  Kept
<1>0. TypeOK /\ 0 \in Stage
  BY StageFacts DEF IInv
<1>1. CASE Edit
  BY <1>1 DEF Edit, Kept, local, Intact
<1>2. ASSUME NEW k \in Stage, Import(k) PROVE Kept
  BY <1>0, <1>2 DEF Import, Kept, local, Intact, Imported, TypeOK
<1>3. ASSUME NEW k \in Stage, OpenSnapshot(k) PROVE Kept
  BY <1>3 DEF OpenSnapshot, Kept, source, Intact
<1>4. ASSUME NEW k \in Stage, RemoveTorn(k) PROVE Kept
  BY <1>4 DEF RemoveTorn, Kept, source, Intact
<1>5. ASSUME NEW k \in Stage, NEW m \in Messages, Fetch(k, m) \/ Seed(k, m) PROVE Kept
  BY <1>5 DEF Fetch, Seed, Store, Kept, source, Intact
<1>6. ASSUME NEW k \in Stage, NEW m \in Messages, FetchBad(k, m) PROVE Kept
  BY <1>6 DEF FetchBad, Verified, Kept, source, Intact
<1>7. CASE MarkReady
  BY <1>7 DEF MarkReady, Kept, source, Intact
<1>8. CASE PrepareBaseline
  BY <1>0, <1>8 DEF PrepareBaseline, Kept, source, Intact, TypeOK
<1>9. ASSUME NEW k \in Stage, PrepareDelta(k) PROVE Kept
  BY <1>0, <1>9 DEF PrepareDelta, Kept, source, Intact, TypeOK
<1>10. ASSUME NEW k \in Stage, RemovePartial(k) PROVE Kept
  BY <1>0, <1>10 DEF RemovePartial, Kept, source, Intact, TypeOK
<1>11. ASSUME NEW k \in Stage, Copy(k) PROVE Kept
  BY <1>0, <1>11 DEF Copy, Kept, source, local, Intact, TypeOK
<1>12. ASSUME NEW k \in Stage, CopyBad(k) PROVE Kept
  BY <1>0, <1>12 DEF CopyBad, Kept, source, local, Intact, TypeOK
<1>13. ASSUME NEW k \in Stage, Check(k) PROVE Kept
  BY <1>13 DEF Check, Kept, source, local, Intact
<1>14. ASSUME NEW k \in Stage, RunStatement(k) PROVE Kept
  <2>1. /\ d1.batch \subseteq d1'.batch /\ d1.owned \subseteq d1'.owned
        /\ d1.header \subseteq d1'.header /\ d1.change \subseteq d1'.change
    BY <1>14, RunsOn
  <2>. QED BY <1>14, <2>1 DEF RunStatement, Kept, source, local, Intact
<1>15. ASSUME NEW k \in Stage, Finish(k) PROVE Kept
  BY <1>0, <1>15 DEF Finish, Kept, source, local, Intact, TypeOK
<1>16. CASE Save
  <2>1. doing.stage \in Stage /\ doing.at \in {"copied", "checked", "executed"}
    BY <1>0, <1>16 DEF Save, TypeOK, Doing, Idle
  <2>2. \A k \in Stage : (saved[k].done => saved'[k].done) /\ (saved[k].verified => saved'[k].verified)
    BY <1>0, <1>16, <2>1 DEF Save, TypeOK
  <2>. QED BY <1>16, <2>2 DEF Save, Kept, source, local, Intact
<1>17. CASE ImportFails
  BY <1>17 DEF ImportFails, Kept, source, local, Intact
<1>18. CASE Crash
  BY <1>18 DEF Crash, Kept, source, local, Intact
<1>19. ASSUME NEW r \in Raws, Repair(r) PROVE Kept
  BY <1>0, <1>19 DEF Repair, Kept, source, local, Intact, TypeOK
<1>20. CASE UNCHANGED vars
  BY <1>20 DEF Kept, vars, source, local, Intact
<1>21. CASE Prepare
  BY <1>8, <1>9, <1>10, <1>21 DEF Prepare
<1>22. ASSUME NEW k \in Stage, Snapshot(k) PROVE Kept
  BY <1>3, <1>4, <1>5, <1>6, <1>22 DEF Snapshot
<1>23. ASSUME NEW k \in Stage, Apply(k) PROVE Kept
  BY <1>11, <1>12, <1>13, <1>14, <1>15, <1>23 DEF Apply
<1>. QED BY <1>1, <1>2, <1>7, <1>16, <1>17, <1>18, <1>19, <1>20, <1>21, <1>22, <1>23 DEF Next

-------------------------------------------------------------------------------
(* The archived system and the snapshots.                                  *)

LEMMA SourcesKept ==
  ASSUME IInv, [Next]_vars
  PROVE  Sources'
<1>0. TypeOK /\ Sources /\ 0 \in Stage
  BY StageFacts DEF IInv
<1>1. CASE Edit
  <2>1. WellFormed(legacy')
    BY <1>1 DEF Edit
  <2>. QED BY <1>0, <1>1, <2>1 DEF Edit, Sources, local, Imported, WellFormed
<1>2. ASSUME NEW k \in Stage, Import(k) PROVE Sources'
  <2>1. backup' = [backup EXCEPT ![k] = legacy] /\ UNCHANGED <<legacy, snap, staged>>
    BY <1>2 DEF Import, local
  <2>2. legacy # NoBackup /\ WellFormed(legacy)
    BY <1>0, ContentAssumption DEF TypeOK, Sources
  <2>3. \A j \in Stage : backup'[j] = IF j = k THEN legacy ELSE backup[j]
    BY <1>0, <2>1 DEF TypeOK
  <2>4. \A j \in Stage : (Imported(j) => Imported(j)') /\ (Imported(j)' => WellFormed(backup'[j]))
    BY <1>0, <2>2, <2>3 DEF Imported, Sources
  <2>5. WellFormed(legacy)'
    BY <2>1, <2>2 DEF WellFormed
  <2>6. \A j \in Stage : WellFormed(backup'[j]) <=> WellFormed(backup[j])'
    BY DEF WellFormed
  <2>. QED BY <1>0, <2>1, <2>4, <2>5, <2>6 DEF Sources
<1>3. ASSUME UNCHANGED source,
             \A k \in Stage : /\ snap'[k] = snap[k] \/ snap'[k] = "absent" \/ Imported(k)
                              /\ staged'[k] = staged[k] \/ staged'[k] = "absent" \/ (Imported(k) /\ Imported(0))
      PROVE  Sources'
  BY <1>0, <1>3 DEF source, Sources, Imported, WellFormed
<1>4. ASSUME NEW k \in Stage, OpenSnapshot(k) PROVE Sources'
  BY <1>0, <1>3, <1>4 DEF OpenSnapshot, TypeOK
<1>5. ASSUME NEW k \in Stage, RemoveTorn(k) PROVE Sources'
  BY <1>0, <1>3, <1>5 DEF RemoveTorn, TypeOK
<1>6. CASE PrepareBaseline
  BY <1>0, <1>3, <1>6 DEF PrepareBaseline, TypeOK, Complete, Sources
<1>7. ASSUME NEW k \in Stage, PrepareDelta(k) PROVE Sources'
  <2>1. Imported(k) /\ Imported(0)
    BY <1>0, <1>7 DEF PrepareDelta, Complete, Sources
  <2>. QED BY <1>0, <1>3, <1>7, <2>1 DEF PrepareDelta, TypeOK
<1>8. ASSUME NEW k \in Stage, RemovePartial(k) PROVE Sources'
  BY <1>0, <1>3, <1>8 DEF RemovePartial, TypeOK
<1>9. ASSUME UNCHANGED <<source, snap, staged>> PROVE Sources'
  BY <1>3, <1>9
<1>10. ASSUME NEW k \in Stage, Snapshot(k) PROVE Sources'
  BY <1>4, <1>5, <1>9, <1>10 DEF Snapshot, Fetch, Seed, Store, FetchBad, Verified
<1>11. ASSUME NEW k \in Stage, Apply(k) PROVE Sources'
  BY <1>9, <1>11 DEF Apply, Copy, CopyBad, Check, RunStatement, Finish, local
<1>12. CASE Prepare
  BY <1>6, <1>7, <1>8, <1>12 DEF Prepare
<1>13. CASE MarkReady \/ Save \/ ImportFails \/ Crash \/ UNCHANGED vars
  BY <1>9, <1>13 DEF MarkReady, Save, ImportFails, Crash, vars, local
<1>14. ASSUME NEW r \in Raws, Repair(r) PROVE Sources'
  BY <1>9, <1>14 DEF Repair, local
<1>. QED BY <1>1, <1>2, <1>10, <1>11, <1>12, <1>13, <1>14 DEF Next

LEMMA SnapshotsKept ==
  ASSUME IInv, [Next]_vars
  PROVE  Snapshots'
<1>0. TypeOK /\ Snapshots
  BY DEF IInv
<1>1. ASSUME NEW k \in Stage, NEW m \in Messages, Unfinished(k, m), Store(k, m, "good") PROVE Snapshots'
  BY <1>0, <1>1 DEF Unfinished, Store, Snapshots, ReadyIsVerified, TypeOK
<1>2. ASSUME NEW k \in Stage, NEW m \in Messages, Fetch(k, m) \/ Seed(k, m) PROVE Snapshots'
  BY <1>1, <1>2 DEF Fetch, Seed, Verified
<1>3. ASSUME NEW k \in Stage, NEW m \in Messages, FetchBad(k, m) PROVE Snapshots'
  <2>1. PICK to \in {"missing", "invalid"} :
          rows' = [rows EXCEPT ![k][m] = to] /\ UNCHANGED <<files, doing>>
    BY <1>3 DEF FetchBad, Verified
  <2>2. \A j \in Stage, n \in Messages : rows'[j][n] = "ready" => rows[j][n] = "ready"
    BY <1>0, <2>1 DEF TypeOK
  <2>. QED BY <1>0, <2>1, <2>2 DEF Snapshots, ReadyIsVerified
<1>4. CASE MarkReady
  <2>1. doing.stage \in Stage /\ doing.msg \in Messages
    BY <1>0, <1>4 DEF MarkReady, TypeOK, Doing, Idle
  <2>. QED BY <1>0, <1>4, <2>1 DEF MarkReady, Idle, Snapshots, ReadyIsVerified, TypeOK
<1>5. ASSUME NEW k \in Stage, OpenSnapshot(k) PROVE Snapshots'
  <2>1. \A j \in Stage, n \in Messages : rows'[j][n] = "ready" => rows[j][n] = "ready"
    <3>1. CASE UNCHANGED rows
      BY <3>1
    <3>2. CASE rows' = [rows EXCEPT ![k] = [m \in Messages |-> IF m \in Mine(k) THEN "pending" ELSE "none"]]
      <4>1. \A j \in Stage : rows'[j] = IF j = k THEN [m \in Messages |-> IF m \in Mine(k) THEN "pending" ELSE "none"]
                                                 ELSE rows[j]
        BY <1>0, <3>2 DEF TypeOK
      <4>. QED BY <4>1
    <3>. QED BY <1>5, <3>1, <3>2 DEF OpenSnapshot
  <2>. QED BY <1>0, <1>5, <2>1 DEF OpenSnapshot, Snapshots, ReadyIsVerified
<1>6. ASSUME UNCHANGED <<rows, files>>, doing' = doing \/ doing'.at # "stored" PROVE Snapshots'
  BY <1>0, <1>6 DEF Snapshots, ReadyIsVerified
<1>7. ASSUME NEW k \in Stage, Snapshot(k) PROVE Snapshots'
  BY <1>2, <1>3, <1>5, <1>6, <1>7 DEF Snapshot, RemoveTorn
<1>8. ASSUME NEW k \in Stage, Copy(k) \/ CopyBad(k) \/ Check(k) PROVE Snapshots'
  BY <1>6, <1>8 DEF Copy, CopyBad, Check, local
<1>9. ASSUME NEW k \in Stage, RunStatement(k) PROVE Snapshots'
  BY <1>6, <1>9 DEF RunStatement, local
<1>10. ASSUME NEW k \in Stage, Finish(k) \/ Import(k) PROVE Snapshots'
  BY <1>6, <1>10 DEF Finish, Import, local
<1>11. CASE Save \/ ImportFails \/ Crash
  BY <1>6, <1>11 DEF Save, ImportFails, Crash, local, Idle
<1>12. CASE Edit \/ UNCHANGED vars
  BY <1>6, <1>12 DEF Edit, vars, local
<1>13. CASE Prepare
  BY <1>6, <1>13 DEF Prepare, PrepareBaseline, PrepareDelta, RemovePartial
<1>14. ASSUME NEW r \in Raws, Repair(r) PROVE Snapshots'
  BY <1>6, <1>14 DEF Repair, local
<1>. QED BY <1>4, <1>7, <1>8, <1>9, <1>10, <1>11, <1>12, <1>13, <1>14 DEF Next, Apply

-------------------------------------------------------------------------------
(* How far a stage has come.                                               *)

\* What was true of a complete stage stays true.
LEMMA IntactKept ==
  ASSUME IInv, Kept, NEW k \in Stage, Intact(k)
  PROVE  /\ Intact(k)' /\ Removed(k)' = {} /\ Sql(k)' = Sql(k) /\ Staged(k)' = Staged(k)
         /\ Changes(k)' = Changes(k) /\ Mine(k)' = Mine(k)
         /\ backup'[0] = backup[0] /\ backup'[k] = backup[k]
         /\ (\A r \in Staged(k) : bucket[r] = "good") => \A r \in Staged(k)' : bucket'[r] = "good"
         /\ \A n \in 1..Reached(k) : Left(d1, k, Sql(k)[n]) => Left(d1', k, Sql(k)'[n])
<1>1. Prepared(k) /\ Progress(k) /\ 0 \in Stage
  BY IntactIsPrepared, StageFacts DEF IInv
<1>2. backup'[0] = backup[0] /\ backup'[k] = backup[k]
  BY <1>1 DEF Prepared, Kept
<1>3. /\ Sql(k)' = Sql(k) /\ Changes(k)' = Changes(k) /\ Staged(k)' = Staged(k)
      /\ Removed(k)' = Removed(k) /\ Mine(k)' = Mine(k)
  BY <1>2, StageKept
<1>4. Staged(k) \subseteq Raws
  BY DEF Staged, Raws, Mine, Present
<1>5. \A s : Left(d1, k, s) => Left(d1', k, s)
  BY LeftKept DEF Kept
<1>. QED BY <1>1, <1>2, <1>3, <1>4, <1>5 DEF Kept, Progress

\* A step that neither records nor does anything for stage k.
LEMMA ProgressKept ==
  ASSUME IInv, Kept, TypeOK', NEW k \in Stage,
         saved'[k] = saved[k],
         doing' = doing \/ doing'.at \in {"idle", "stored"} \/ doing'.stage # k,
         k \in d1'.header => k \in d1.header,
         Intact(k)' => Intact(k) \/ Removed(k)' = {}
  PROVE  Progress(k)' /\ Executed(k)'
<1>1. TypeOK /\ Progress(k) /\ Executed(k)
  BY DEF IInv
<1>2. Reached(k) \in Nat /\ saved[k].next \in Nat
  BY <1>1, ReachedTyped
<1>3. Reached(k)' \in {Reached(k), saved[k].next} /\ (Applying(k)' => Applying(k) /\ doing' = doing)
  BY DEF Reached, Executing, Applying
<1>4. (doing.at = "checked" /\ doing.stage = k)' => doing.at = "checked" /\ doing.stage = k
  OBVIOUS
<1>5. saved[0].done => saved'[0].done
  BY StageFacts DEF Kept
<1>6. Reached(k)' <= Reached(k) /\ saved[k].next <= Reached(k)' /\ Reached(k)' \in Nat
  BY <1>1, <1>2, <1>3 DEF Progress
<1>7. CASE Intact(k)
  <2>1. /\ Intact(k)' /\ Removed(k)' = {} /\ Sql(k)' = Sql(k)
        /\ (\A r \in Staged(k) : bucket[r] = "good") => \A r \in Staged(k)' : bucket'[r] = "good"
        /\ \A n \in 1..Reached(k) : Left(d1, k, Sql(k)[n]) => Left(d1', k, Sql(k)'[n])
    BY <1>7, IntactKept
  <2>2. Progress(k)'
    BY <1>1, <1>2, <1>3, <1>4, <1>5, <1>6, <2>1 DEF Progress
  <2>3. Executed(k)'
    BY <1>1, <1>2, <1>6, <2>1 DEF Executed
  <2>. QED BY <2>2, <2>3
<1>8. CASE ~Intact(k)
  <2>1. ~Applying(k) /\ saved[k] = Fresh
    BY <1>1, <1>8 DEF Progress
  <2>2. Reached(k) = 0 /\ saved[k].next = 0 /\ ~saved[k].verified /\ ~saved[k].done
    BY <2>1 DEF Reached, Executing, Applying, Fresh
  <2>3. Progress(k)'
    BY <1>1, <1>3, <1>4, <1>6, <1>8, <2>1, <2>2 DEF Progress, Applying
  <2>4. Executed(k)'
    BY <1>6, <2>2 DEF Executed
  <2>. QED BY <2>3, <2>4
<1>. QED BY <1>7, <1>8

LEMMA ProgressSteps ==
  ASSUME IInv, [Next]_vars, NEW k \in Stage
  PROVE  Progress(k)' /\ Executed(k)'
<1>0. /\ TypeOK /\ TypeOK' /\ Kept /\ Progress(k) /\ Executed(k) /\ 0 \in Stage
      /\ Reached(k) \in Nat /\ saved[k].next \in Nat
  BY Types, StepsKeep, StageFacts, ReachedTyped DEF IInv
<1>. DEFINE Goal == Progress(k)' /\ Executed(k)'
<1>1. ASSUME UNCHANGED <<saved, d1>>,
             doing' = doing \/ doing'.at \in {"idle", "stored"} \/ doing'.stage # k,
             Intact(k)' => Intact(k) \/ Removed(k)' = {}
      PROVE  Goal
  BY <1>0, <1>1, ProgressKept
<1>2. CASE Edit
  BY <1>1, <1>2 DEF Edit, local, Intact
<1>3. ASSUME NEW j \in Stage, Import(j) PROVE Goal
  BY <1>1, <1>3 DEF Import, local, Intact
<1>4. ASSUME NEW j \in Stage, Snapshot(j) PROVE Goal
  <2>1. UNCHANGED <<saved, d1, staged>> /\ (doing' = doing \/ doing'.at \in {"idle", "stored"})
    BY <1>4 DEF Snapshot, OpenSnapshot, RemoveTorn, Fetch, Seed, Store, FetchBad, Verified
  <2>. QED BY <1>1, <2>1 DEF Intact
<1>5. CASE MarkReady
  BY <1>1, <1>5 DEF MarkReady, Intact, Idle
<1>6. CASE PrepareBaseline
  <2>1. k = 0 => Removed(k)' = {}
    BY DEF Removed
  <2>. QED BY <1>0, <1>1, <1>6, <2>1 DEF PrepareBaseline, Intact, TypeOK
<1>7. ASSUME NEW j \in Stage, PrepareDelta(j) PROVE Goal
  <2>1. Removed(k)' = Removed(k)
    BY <1>7 DEF PrepareDelta, source, Removed, Mine
  <2>2. Intact(k)' => Intact(k) \/ (k = j /\ Removed(k) = {})
    BY <1>0, <1>7 DEF PrepareDelta, Intact, TypeOK, Acceptable
  <2>. QED BY <1>1, <1>7, <2>1, <2>2 DEF PrepareDelta
<1>8. ASSUME NEW j \in Stage, RemovePartial(j) PROVE Goal
  <2>1. Intact(k)' => Intact(k)
    BY <1>0, <1>8 DEF RemovePartial, Intact, TypeOK
  <2>. QED BY <1>1, <1>8, <2>1 DEF RemovePartial
<1>9. ASSUME NEW j \in Stage, j # k, Copy(j) \/ CopyBad(j) \/ Check(j) PROVE Goal
  <2>1. UNCHANGED <<saved, d1, staged>> /\ (doing' = doing \/ doing'.stage = j)
    BY <1>9 DEF Copy, CopyBad, Check, local
  <2>. QED BY <1>1, <1>9, <2>1 DEF Intact
<1>10. ASSUME Ready(k), UNCHANGED <<saved, d1>>, doing' = [at |-> "copied", stage |-> k]
       PROVE  Goal
  <2>1. Intact(k) /\ ~saved[k].done /\ (Ordered /\ k # 0 => saved[0].done) /\ doing.at = "idle"
    BY <1>10 DEF Ready, Idle
  <2>2. /\ Intact(k)' /\ Removed(k)' = {} /\ Sql(k)' = Sql(k)
        /\ (\A r \in Staged(k) : bucket[r] = "good") => \A r \in Staged(k)' : bucket'[r] = "good"
        /\ \A n \in 1..Reached(k) : Left(d1, k, Sql(k)[n]) => Left(d1', k, Sql(k)'[n])
    BY <1>0, <2>1, IntactKept
  <2>3. Reached(k)' = Reached(k)
    BY <1>10, <2>1 DEF Reached, Executing
  <2>. QED BY <1>0, <1>10, <2>1, <2>2, <2>3 DEF Progress, Executed, Applying
<1>11. CASE Copy(k)
  BY <1>10, <1>11 DEF Copy
<1>12. CASE CopyBad(k)
  <2>1. UNCHANGED <<saved, d1, staged>> /\ (doing' = doing \/ doing' = [at |-> "copied", stage |-> k]) /\ Ready(k)
    BY <1>12 DEF CopyBad, local
  <2>. QED BY <1>1, <1>10, <2>1 DEF Intact
<1>13. CASE Check(k)
  <2>1. Intact(k) /\ ~saved[k].done /\ (Ordered /\ k # 0 => saved[0].done) /\ doing.at = "idle"
    BY <1>13 DEF Check, Ready, Idle
  <2>2. UNCHANGED <<saved, d1>> /\ doing' = [at |-> "checked", stage |-> k]
    BY <1>13 DEF Check
  <2>3. \A r \in Staged(k) : bucket[r] = "good"
    BY <1>13 DEF Check, CheckPasses
  <2>4. /\ Intact(k)' /\ Removed(k)' = {} /\ Sql(k)' = Sql(k)
        /\ \A r \in Staged(k)' : bucket'[r] = "good"
        /\ \A n \in 1..Reached(k) : Left(d1, k, Sql(k)[n]) => Left(d1', k, Sql(k)'[n])
    BY <1>0, <2>1, <2>3, IntactKept
  <2>5. Reached(k)' = Reached(k)
    BY <2>1, <2>2 DEF Reached, Executing
  <2>. QED BY <1>0, <2>1, <2>2, <2>4, <2>5 DEF Progress, Executed, Applying
<1>14. ASSUME NEW j \in Stage, j # k, RunStatement(j) PROVE Goal
  <2>1. UNCHANGED <<saved, staged>> /\ doing'.stage # k
    BY <1>14 DEF RunStatement, local
  <2>2. k \in d1'.header => k \in d1.header
    BY <1>14, RunsOn
  <2>. QED BY <1>0, <2>1, <2>2, ProgressKept DEF Intact
<1>15. CASE RunStatement(k)
  <2>. DEFINE n == Reached(k) + 1
  <2>1. /\ Intact(k) /\ saved[k].verified /\ ~saved[k].done /\ (Ordered /\ k # 0 => saved[0].done)
        /\ n \in 1..Len(Sql(k)) /\ Left(d1', k, Sql(k)[n])
    BY <1>15, Runs, RunsOn
  <2>2. PICK at \in {"running", "executed"} : doing' = [at |-> at, stage |-> k, pos |-> n]
    BY <1>15, Runs
  <2>3. UNCHANGED saved
    BY <1>15 DEF RunStatement
  <2>4. /\ Intact(k)' /\ Removed(k)' = {} /\ Sql(k)' = Sql(k)
        /\ (\A r \in Staged(k) : bucket[r] = "good") => \A r \in Staged(k)' : bucket'[r] = "good"
        /\ \A i \in 1..Reached(k) : Left(d1, k, Sql(k)[i]) => Left(d1', k, Sql(k)'[i])
    BY <1>0, <2>1, IntactKept
  <2>5. Reached(k)' = n
    BY <2>2 DEF Reached, Executing
  <2>6. Progress(k)'
    BY <1>0, <2>1, <2>2, <2>3, <2>4, <2>5 DEF Progress, Applying
  <2>7. Executed(k)'
    BY <1>0, <2>1, <2>4, <2>5 DEF Executed
  <2>. QED BY <2>6, <2>7
<1>16. ASSUME NEW j \in Stage, j # k, Finish(j) PROVE Goal
  <2>1. saved'[k] = saved[k] /\ UNCHANGED <<d1, doing, staged>>
    BY <1>0, <1>16 DEF Finish, local, TypeOK
  <2>. QED BY <1>0, <2>1, ProgressKept DEF Intact
<1>17. CASE Finish(k)
  <2>1. /\ Intact(k) /\ (Ordered /\ k # 0 => saved[0].done) /\ doing.at = "idle"
        /\ saved[k].verified /\ saved[k].next = Len(Sql(k)) /\ UNCHANGED <<d1, doing>>
    BY <1>17 DEF Finish, Ready, Idle
  <2>2. saved'[k] = [saved[k] EXCEPT !.done = TRUE]
    BY <1>0, <1>17 DEF Finish, TypeOK
  <2>3. saved'[k].next = saved[k].next /\ saved'[k].verified
    BY <1>0, <2>1, <2>2 DEF TypeOK
  <2>4. /\ Intact(k)' /\ Removed(k)' = {} /\ Sql(k)' = Sql(k)
        /\ (\A r \in Staged(k) : bucket[r] = "good") => \A r \in Staged(k)' : bucket'[r] = "good"
        /\ \A n \in 1..Reached(k) : Left(d1, k, Sql(k)[n]) => Left(d1', k, Sql(k)'[n])
    BY <1>0, <2>1, IntactKept
  <2>5. Reached(k)' = Reached(k) /\ Reached(k) = saved[k].next /\ ~Applying(k)'
    BY <2>1, <2>3 DEF Reached, Executing, Applying
  <2>6. saved[0].done => saved'[0].done
    BY <1>0 DEF Kept
  <2>. QED BY <1>0, <2>1, <2>3, <2>4, <2>5, <2>6 DEF Progress, Executed
<1>18. CASE Save
  <2>1. doing.stage \in Stage /\ doing' = Idle /\ UNCHANGED <<d1, staged>>
    BY <1>0, <1>18 DEF Save, TypeOK, Doing, Idle, local
  <2>2. CASE doing.stage # k
    <3>1. saved'[k] = saved[k]
      BY <1>0, <1>18, <2>2 DEF Save, TypeOK
    <3>. QED BY <1>0, <2>1, <3>1, ProgressKept DEF Intact, Idle
  <2>3. CASE doing.stage = k
    <3>1. Applying(k) /\ Intact(k) /\ ~saved[k].done /\ (Ordered /\ k # 0 => saved[0].done)
      BY <1>0, <1>18, <2>3 DEF Save, Applying, Progress
    <3>2. /\ Intact(k)' /\ Removed(k)' = {} /\ Sql(k)' = Sql(k)
          /\ (\A r \in Staged(k) : bucket[r] = "good") => \A r \in Staged(k)' : bucket'[r] = "good"
          /\ \A n \in 1..Reached(k) : Left(d1, k, Sql(k)[n]) => Left(d1', k, Sql(k)'[n])
      BY <1>0, <3>1, IntactKept
    <3>3. ~Applying(k)' /\ ~Executing(k)' /\ Reached(k)' = saved'[k].next
      BY <2>1 DEF Applying, Executing, Reached, Idle
    <3>4. saved'[k] = CASE doing.at = "copied"  -> [saved[k] EXCEPT !.copied = TRUE]
                        [] doing.at = "checked" -> [saved[k] EXCEPT !.verified = TRUE]
                        [] OTHER                -> [saved[k] EXCEPT !.next = doing.pos]
      BY <1>0, <1>18, <2>1, <2>3 DEF Save, TypeOK
    <3>5. /\ saved'[k].done = saved[k].done
          /\ saved'[k].verified <=> saved[k].verified \/ doing.at = "checked"
          /\ saved'[k].next = Reached(k)
      <4>1. saved[k] \in [copied : BOOLEAN, verified : BOOLEAN, next : Nat, done : BOOLEAN]
        BY <1>0 DEF TypeOK
      <4>2. CASE doing.at \in {"copied", "checked"}
        BY <3>4, <4>1, <4>2 DEF Reached, Executing
      <4>3. CASE doing.at = "executed"
        BY <2>3, <3>4, <4>1, <4>3 DEF Reached, Executing
      <4>. QED BY <1>18, <4>2, <4>3 DEF Save
    <3>6. saved[0].done => saved'[0].done
      BY <1>0 DEF Kept
    <3>7. Progress(k)'
      BY <1>0, <2>1, <2>3, <3>1, <3>2, <3>3, <3>5, <3>6 DEF Progress, Idle
    <3>8. Executed(k)'
      BY <1>0, <3>2, <3>3, <3>5 DEF Executed
    <3>. QED BY <3>7, <3>8
  <2>. QED BY <2>2, <2>3
<1>19. CASE ImportFails \/ Crash
  BY <1>1, <1>19 DEF ImportFails, Crash, local, Intact, Idle
<1>20. CASE UNCHANGED vars
  BY <1>1, <1>20 DEF vars, local, Intact
<1>21. ASSUME NEW r \in Raws, Repair(r) PROVE Goal
  BY <1>1, <1>21 DEF Repair, local, Intact
<1>22. CASE Prepare
  BY <1>6, <1>7, <1>8, <1>22 DEF Prepare
<1>23. ASSUME NEW j \in Stage, Apply(j) PROVE Goal
  BY <1>9, <1>11, <1>12, <1>13, <1>14, <1>15, <1>16, <1>17, <1>23 DEF Apply
<1>. QED BY <1>2, <1>3, <1>4, <1>5, <1>18, <1>19, <1>20, <1>21, <1>22, <1>23 DEF Next

-------------------------------------------------------------------------------
(* Provenance and rows.                                                    *)

\* A stage with a header was verified, so it is complete.
LEMMA HeaderIsIntact ==
  ASSUME IInv, NEW k \in Stage, k \in d1.header
  PROVE  Intact(k) /\ saved[k].verified
BY DEF IInv, Progress, Fresh

\* Only the import of a stage changes the target database.
LEMMA OthersLeaveD1 ==
  ASSUME [Next]_vars
  PROVE  UNCHANGED d1 \/ \E k \in Stage : RunStatement(k)
BY DEF Next, Edit, MarkReady, Prepare, PrepareBaseline, PrepareDelta, RemovePartial, Save, ImportFails,
       Crash, Import, Snapshot, OpenSnapshot, RemoveTorn, Fetch, Seed, Store, FetchBad, Verified,
       Apply, Copy, CopyBad, Check, Finish, Repair, vars

LEMMA ProvenanceKept ==
  ASSUME IInv, [Next]_vars
  PROVE  Provenance'
<1>0. TypeOK /\ Provenance /\ Kept /\ 0 \in Stage
  BY StepsKeep, StageFacts DEF IInv
<1>1. \A k \in Stage : Intact(k) =>
        Intact(k)' /\ Mine(k)' = Mine(k) /\ Changes(k)' = Changes(k) /\ backup'[0] = backup[0]
  BY <1>0, IntactKept
<1>2. \A k \in Deltas : k \in Stage /\ (k \in d1.header => Intact(k))
  BY HeaderIsIntact DEF Stage
<1>3. CASE UNCHANGED d1
  BY <1>0, <1>1, <1>2, <1>3 DEF Provenance
<1>4. ASSUME NEW k \in Stage, RunStatement(k) PROVE Provenance'
  <2>. DEFINE n == Reached(k) + 1
  <2>1. /\ d1' = Execute(d1, k, Sql(k)[n]) /\ Intact(k) /\ Prepared(k) /\ d1 \in D1
        /\ \/ Sql(k)[n] = Header
           \/ \E x \in Changes(k) : Sql(k)[n] = Stmt(k, x) /\ k \in d1.header
    BY <1>0, <1>4, Runs DEF TypeOK
  <2>2. CASE Sql(k)[n] = Header
    <3>1. d1' = [d1 EXCEPT !.header = d1.header \cup {k}]
      BY <2>1, <2>2, HeaderExecuted
    <3>2. d1'.batch = d1.batch /\ d1'.owned = d1.owned /\ d1'.change = d1.change /\ d1.header \subseteq d1'.header
      BY <2>1, <3>1 DEF D1
    <3>. QED BY <1>0, <1>1, <1>2, <3>2 DEF Provenance
  <2>3. ASSUME NEW x \in Changes(k), Sql(k)[n] = Stmt(k, x), k \in d1.header PROVE Provenance'
    <3>. DEFINE d == Execute(d1, k, Stmt(k, x))
    <3>1. /\ d.header = d1.header
          /\ d.batch = IF Stmt(k, x).do = "insert" /\ x \in Messages THEN d1.batch \cup {<<k, x>>} ELSE d1.batch
          /\ d.owned = IF k = 0 /\ x \notin Messages THEN d1.owned \cup {x} ELSE d1.owned
          /\ d.change = IF k # 0 THEN d1.change \cup {<<k, x>>} ELSE d1.change
      BY <1>0, <2>1, ChangeExecuted
    <3>2. d1' = d
      BY <2>1, <2>3
    <3>3. /\ x \in Key /\ Stmt(k, x).do = Change(Before(k), backup[k], x)
          /\ k = 0 => backup[0][x] # Absent
      BY <1>0, <2>1, StatementTyped
    <3>4. Stmt(k, x).do = "insert" /\ x \in Messages => x \in Mine(k)
      <4>1. Change(Before(k), backup[k], x) = "insert" => backup[k][x] # Absent
        BY ChangeIs
      <4>. QED BY <3>3, <4>1 DEF Mine, Present
    <3>. HIDE DEF d
    <3>5. \A j \in Stage, m \in Messages : <<j, m>> \in d1'.batch => Intact(j) /\ m \in Mine(j)
      BY <1>0, <2>1, <3>1, <3>2, <3>4 DEF Provenance
    <3>6. \A y \in d1'.owned : Intact(0) /\ backup[0][y] # Absent
      BY <1>0, <2>1, <3>1, <3>2, <3>3 DEF Provenance
    <3>7. \A j \in Deltas, y \in Key : <<j, y>> \in d1'.change => j \in d1'.header /\ y \in Changes(j) /\ Intact(j)
      BY <1>0, <1>2, <2>1, <2>3, <3>1, <3>2 DEF Provenance
    <3>. QED BY <1>0, <1>1, <1>2, <3>5, <3>6, <3>7 DEF Provenance
  <2>. QED BY <2>1, <2>2, <2>3
<1>. QED BY <1>3, <1>4, OthersLeaveD1

\* A statement changes its own row; the deletion of a label also takes its assignments.
LEMMA RowsWritten ==
  ASSUME NEW d \in D1, NEW k, NEW s, s.key \in Key, NEW y \in Key, Written(d, k, s)[y] # d.row[y]
  PROVE  \/ y = s.key /\ s.do \in {"insert", "update"} /\ Written(d, k, s)[y] = s.val
            /\ (s.do = "update" => d.row[y] # Absent /\ Owned(d, y))
         \/ /\ Written(d, k, s)[y] = Absent /\ s.do \notin {"insert", "update"} /\ Owned(d, s.key)
            /\ y = s.key \/ (y \in Assigned /\ s.key \in {y.msg, y.label})
BY DEF Written, Inserted, Updated, Deleted, Without, D1, Content

LEMMA RowsKeepObjects ==
  ASSUME IInv, [Next]_vars
  PROVE  RowsHaveObjects'
<1>0. TypeOK /\ RowsHaveObjects /\ Kept /\ \A m \in Messages : RawOf[m] \in Raws
  BY StepsKeep DEF IInv, Raws
<1>1. \A m \in Messages : d1.row[m] # Absent => bucket'[RawOf[m]] = "good"
  BY <1>0 DEF RowsHaveObjects, Kept
<1>2. CASE UNCHANGED d1
  BY <1>1, <1>2 DEF RowsHaveObjects
<1>3. ASSUME NEW k \in Stage, RunStatement(k) PROVE RowsHaveObjects'
  <2>. DEFINE n == Reached(k) + 1
  <2>1. /\ d1' = Execute(d1, k, Sql(k)[n]) /\ Intact(k) /\ Prepared(k) /\ d1 \in D1 /\ saved[k].verified
        /\ \/ Sql(k)[n] = Header
           \/ \E x \in Changes(k) : Sql(k)[n] = Stmt(k, x) /\ k \in d1.header
    BY <1>0, <1>3, Runs DEF TypeOK
  <2>2. CASE Sql(k)[n] = Header
    <3>1. d1'.row = d1.row
      BY <2>1, <2>2, HeaderExecuted DEF D1
    <3>. QED BY <1>1, <3>1 DEF RowsHaveObjects
  <2>3. ASSUME NEW x \in Changes(k), Sql(k)[n] = Stmt(k, x) PROVE RowsHaveObjects'
    <3>. DEFINE s == Stmt(k, x)
                d == Execute(d1, k, s)
    <3>0. d1' = d
      BY <2>1, <2>3
    <3>1. d.row = Written(d1, k, s)
      BY <1>0, <2>1, ChangeExecuted
    <3>2. x \in Key /\ s.key = x /\ s.val = backup[k][x] /\ s.do = Change(Before(k), backup[k], x)
      BY <1>0, <2>1, StatementTyped
    <3>3. SUFFICES ASSUME NEW m \in Messages, d1'.row[m] # Absent, d1.row[m] = Absent
                   PROVE  bucket'[RawOf[m]] = "good"
      BY <1>1 DEF RowsHaveObjects
    <3>4. m \in Key
      BY DEF Key
    <3>. HIDE DEF s, d
    <3>5. m = x /\ s.do = "insert"
      <4>1. d1 \in D1 /\ s.key \in Key /\ Written(d1, k, s)[m] # Absent /\ d1.row[m] = Absent
        BY <2>1, <3>0, <3>1, <3>2, <3>3
      <4>. QED BY <3>2, <3>4, <4>1, RowsWritten
    <3>6. Before(k)[m] = Absent /\ backup[k][m] # Absent
      <4>1. Change(Before(k), backup[k], x) = "insert" => Before(k)[x] = Absent /\ backup[k][x] # Absent
        BY ChangeIs
      <4>. QED BY <3>2, <3>5, <4>1
    <3>7. RawOf[m] \in Staged(k)
      BY <3>3, <3>4, <3>6 DEF Staged, Mine, Present, Before
    <3>8. bucket[RawOf[m]] = "good"
      BY <2>1, <3>7 DEF IInv, Progress
    <3>. QED BY <1>0, <3>8 DEF Kept
  <2>. QED BY <2>1, <2>2, <2>3
<1>. QED BY <1>2, <1>3, OthersLeaveD1

-------------------------------------------------------------------------------
(* Theorems, in whatever order the stages are applied.                     *)

LEMMA Initially == Init => IInv
<1>. SUFFICES ASSUME Init PROVE IInv
  OBVIOUS
<1>1. NoRows \in Content /\ \A c \in Initial : c \in Content /\ WellFormed(c)
  BY NoRowsTyped, InitialAssumption
<1>2. TypeOK
  <2>1. d1 \in D1
    BY <1>1 DEF Init, EmptyD1, D1
  <2>. QED BY <1>1, <2>1, BoundAssumption DEF Init, TypeOK, Fresh, Idle, Doing, Bytes
<1>3. Sources /\ Snapshots
  BY <1>1, StageFacts DEF Init, Sources, Imported, Snapshots, ReadyIsVerified, Idle
<1>4. Provenance
  BY DEF Init, EmptyD1, Provenance
<1>5. RowsHaveObjects
  BY DEF Init, EmptyD1, RowsHaveObjects, NoRows, Key
<1>6. ASSUME NEW k \in Stage PROVE Progress(k) /\ Executed(k)
  <2>1. saved[k] = Fresh /\ ~Applying(k) /\ ~Executing(k) /\ ~Intact(k) /\ k \notin d1.header /\ doing.at = "idle"
    BY DEF Init, Idle, Applying, Executing, Intact, EmptyD1
  <2>2. Reached(k) = 0 /\ saved[k].next = 0 /\ ~saved[k].verified /\ ~saved[k].done
    BY <2>1 DEF Reached, Fresh
  <2>. QED BY <2>1, <2>2 DEF Progress, Executed
<1>. QED BY <1>2, <1>3, <1>4, <1>5, <1>6 DEF IInv

\* The inductive invariant: what the commands have recorded about a stage is true of
\* the snapshot, of R2 and of D1, whatever died in between.
THEOREM Invariance == Spec => []IInv
<1>1. IInv /\ [Next]_vars => IInv'
  BY Types, SourcesKept, SnapshotsKept, ProgressSteps, ProvenanceKept, RowsKeepObjects DEF IInv
<1>. QED BY <1>1, Initially, PTL DEF Spec

\* The variables keep their types (src/tools/lib/legacy-bulk-apply.mjs).
THEOREM TypeCorrectness == Spec => []TypeOK
<1>1. IInv => TypeOK
  BY DEF IInv
<1>. QED BY <1>1, Invariance, PTL

\* A row of the snapshot that is ready stands for a file with the archived MIME
\* (fetchOne renames a verified file before it marks the row).
THEOREM ReadyRowsAreVerified == Spec => []ReadyIsVerified
<1>1. IInv => ReadyIsVerified
  BY DEF IInv, Snapshots
<1>. QED BY <1>1, Invariance, PTL

\* No message row without its object, in whatever order the stages are applied and
\* whichever of their imports and copies stop (applyLegacyStageBulk).
THEOREM NoRowWithoutObject == Spec => []RowsHaveObjects
<1>1. IInv => RowsHaveObjects
  BY DEF IInv
<1>. QED BY <1>1, Invariance, PTL

\* Resuming skips nothing: what the state file calls executed has left its provenance
\* (writeState after an SQL file, readState at the next start).
THEOREM ResumingSkipsNothing == Spec => []SavedIsExecuted
<1>1. ASSUME IInv, NEW k \in Stage PROVE \A n \in 1..saved[k].next : Left(d1, k, Sql(k)[n])
  <2>1. Reached(k) \in Nat /\ saved[k].next \in Nat /\ saved[k].next <= Reached(k) /\ Executed(k)
    BY <1>1, ReachedTyped DEF IInv, Progress
  <2>. QED BY <2>1 DEF Executed
<1>2. IInv => SavedIsExecuted
  BY <1>1 DEF SavedIsExecuted
<1>. QED BY <1>2, Invariance, PTL

\* What a step may never take back: an imported backup, a complete stage, a good object,
\* a provenance row, a stage's check and its end (importLegacySafeSql, rclone copy
\* --immutable, ON CONFLICT DO NOTHING, writeState).
THEOREM NothingTakenBack == Spec => [][Kept]_vars
<1>1. IInv /\ [Next]_vars => [Kept]_vars
  BY StepsKeep
<1>. QED BY <1>1, Invariance, PTL DEF Spec

-------------------------------------------------------------------------------
(* The documented order: what the rows are.                                *)

LEMMA LeftMeans ==
  ASSUME TypeOK, NEW k \in Stage, Prepared(k), NEW x \in Changes(k), NEW d
  PROVE  Left(d, k, Stmt(k, x)) <=> IF k # 0 THEN <<k, x>> \in d.change ELSE Owned(d, x)
BY StatementTyped DEF Left

\* A stage whose statements are all executed has left the trace of each change.
LEMMA AllExecuted ==
  ASSUME IInv, NEW k \in Stage, Intact(k), Reached(k) >= Len(Sql(k))
  PROVE  /\ Prepared(k) /\ k \in d1.header
         /\ \A x \in Changes(k) : IF k # 0 THEN <<k, x>> \in d1.change ELSE Owned(d1, x)
<1>1. TypeOK /\ Executed(k) /\ Prepared(k) /\ Reached(k) \in Nat
  BY IntactIsPrepared, ReachedTyped DEF IInv
<1>2. /\ Len(Sql(k)) \in Nat \ {0} /\ Sql(k)[1] = Header
      /\ \A x \in Changes(k) : \E n \in 1..Len(Sql(k)) : Sql(k)[n] = Stmt(k, x)
  BY <1>1, SqlFacts
<1>3. \A n \in 1..Len(Sql(k)) : Left(d1, k, Sql(k)[n])
  BY <1>1, <1>2 DEF Executed
<1>4. k \in d1.header
  <2>1. Left(d1, k, Header)
    BY <1>2, <1>3
  <2>. QED BY <2>1 DEF Left, Header
<1>5. \A x \in Changes(k) : Left(d1, k, Stmt(k, x))
  BY <1>2, <1>3
<1>. QED BY <1>1, <1>4, <1>5, LeftMeans

LEMMA DoneIsExecuted ==
  ASSUME IInv, NEW k \in Stage, saved[k].done
  PROVE  Intact(k) /\ Reached(k) >= Len(Sql(k))
<1>1. Progress(k) /\ TypeOK /\ Reached(k) \in Nat
  BY ReachedTyped DEF IInv
<1>2. saved[k] # Fresh /\ ~Executing(k) /\ saved[k].next = Len(Sql(k))
  BY <1>1 DEF Progress, Fresh, Applying, Executing
<1>. QED BY <1>1, <1>2 DEF Progress, Reached

\* Before a delta is begun, a completely imported baseline is what D1 holds.
LEMMA BaselineIsThere ==
  ASSUME IInv, BaselineRows, \A j \in Deltas : j \notin d1.header,
         Intact(0), Reached(0) >= Len(Sql(0))
  PROVE  \A x \in Key : d1.row[x] = backup[0][x]
<1>1. 0 \in Stage /\ \A x \in Changes(0) : Owned(d1, x)
  BY AllExecuted, StageFacts
<1>2. \A x \in Key : x \notin Changes(0) => backup[0][x] = Absent
  BY <1>1, ChangesAre DEF Before, NoRows
<1>. QED BY <1>1, <1>2 DEF BaselineRows

LEMMA BaselineRowsKept ==
  ASSUME IInv, BaselineRows, [Next]_vars
  PROVE  BaselineRows'
<1>0. TypeOK /\ Kept /\ Provenance /\ 0 \in Stage /\ Deltas \subseteq Stage
  BY StepsKeep, StageFacts DEF IInv, Stage
<1>1. SUFFICES ASSUME \A j \in Deltas : j \notin d1'.header, NEW x \in Key
               PROVE  /\ d1'.row[x] # Absent => Imported(0)' /\ d1'.row[x] = backup'[0][x]
                      /\ Owned(d1', x) => d1'.row[x] = backup'[0][x]
  BY DEF BaselineRows
<1>2. /\ d1.row[x] # Absent => Imported(0) /\ d1.row[x] = backup[0][x]
      /\ Owned(d1, x) => d1.row[x] = backup[0][x]
  BY <1>0, <1>1 DEF BaselineRows, Kept
<1>3. Imported(0) => Imported(0)' /\ backup'[0] = backup[0]
  BY <1>0 DEF Kept, Imported
<1>4. Owned(d1, x) => Imported(0)
  <2>1. Owned(d1, x) => Intact(0)
    BY <1>0, <1>1 DEF Owned, Provenance
  <2>. QED BY <1>0, <2>1, IntactIsPrepared DEF Prepared
<1>5. CASE UNCHANGED d1
  BY <1>2, <1>3, <1>4, <1>5
<1>6. ASSUME NEW k \in Stage, RunStatement(k)
      PROVE  /\ d1'.row[x] # Absent => Imported(0)' /\ d1'.row[x] = backup'[0][x]
             /\ Owned(d1', x) => d1'.row[x] = backup'[0][x]
  <2>. DEFINE n == Reached(k) + 1
  <2>1. /\ d1' = Execute(d1, k, Sql(k)[n]) /\ Allowed(d1, k, Sql(k)[n]) /\ Prepared(k) /\ d1 \in D1
        /\ \/ Sql(k)[n] = Header
           \/ \E y \in Changes(k) : Sql(k)[n] = Stmt(k, y) /\ k \in d1.header
    BY <1>0, <1>6, Runs DEF TypeOK
  <2>2. CASE Sql(k)[n] = Header
    <3>1. d1' = [d1 EXCEPT !.header = d1.header \cup {k}]
      BY <2>1, <2>2, HeaderExecuted
    <3>2. d1'.row = d1.row /\ (Owned(d1', x) => Owned(d1, x))
      BY <2>1, <3>1 DEF D1, Owned
    <3>. QED BY <1>2, <1>3, <1>4, <3>2
  <2>3. ASSUME NEW y \in Changes(k), Sql(k)[n] = Stmt(k, y), k \in d1.header
        PROVE  /\ d1'.row[x] # Absent => Imported(0)' /\ d1'.row[x] = backup'[0][x]
               /\ Owned(d1', x) => d1'.row[x] = backup'[0][x]
    <3>. DEFINE s == Stmt(k, y)
                d == Execute(d1, k, s)
    <3>1. k = 0
      BY <1>0, <1>1, <2>3, StageFacts DEF Kept
    <3>2. d1' = d /\ Allowed(d1, 0, s)
      BY <2>1, <2>3, <3>1
    <3>3. /\ d.row = Written(d1, 0, s)
          /\ d.batch = IF s.do = "insert" /\ y \in Messages THEN d1.batch \cup {<<0, y>>} ELSE d1.batch
          /\ d.owned = IF 0 = 0 /\ y \notin Messages THEN d1.owned \cup {y} ELSE d1.owned
      BY <1>0, <2>1, <3>1, ChangeExecuted
    <3>4. y \in Key /\ s.key = y /\ s.val = backup[0][y] /\ s.do = "insert" /\ backup[0][y] # Absent
      BY <1>0, <2>1, <3>1, StatementTyped
    <3>. HIDE DEF s, d
    <3>5. Written(d1, 0, s) = Inserted(d1, 0, s) /\ Expected(0, s, Inserted(d1, 0, s))
      BY <3>2, <3>4 DEF Written, Allowed
    <3>6. d1'.row = Inserted(d1, 0, s)
      BY <3>2, <3>3, <3>5
    <3>7. CASE x = y
      <4>1. d1'.row[y] # Absent
        BY <3>4, <3>5, <3>6 DEF Expected
      <4>2. d1'.row[y] = backup[0][y]
        BY <1>2, <2>1, <3>4, <3>6, <3>7, <4>1 DEF Inserted, D1, Content
      <4>. QED BY <1>3, <2>1, <3>7, <4>2 DEF Prepared
    <3>8. CASE x # y
      <4>1. d1'.row[x] = d1.row[x]
        BY <2>1, <3>4, <3>6, <3>8 DEF Inserted, D1, Content
      <4>2. Owned(d1', x) => Owned(d1, x)
        BY <3>2, <3>3, <3>8 DEF Owned
      <4>. QED BY <1>2, <1>3, <1>4, <4>1, <4>2
    <3>. QED BY <3>7, <3>8
  <2>. QED BY <2>1, <2>2, <2>3
<1>. QED BY <1>5, <1>6, OthersLeaveD1

\* Under the documented order a delta finds the complete baseline.
LEMMA DeltaNeedsBaseline ==
  ASSUME IInv, Ordered, NEW k \in Deltas, k \in d1.header
  PROVE  saved[0].done /\ k \in Stage /\ Intact(k) /\ Prepared(k)
<1>1. k \in Stage /\ k # 0
  BY StageAssumption DEF Stage
<1>2. Intact(k) /\ saved[k].verified /\ Progress(k)
  BY <1>1, HeaderIsIntact DEF IInv
<1>. QED BY <1>1, <1>2, IntactIsPrepared DEF Progress, Fresh

\* The one row that a delta's statement changes becomes what the new backup holds.
LEMMA DeltaStatement ==
  ASSUME IInv, NEW k \in Deltas, k \in d1.header, Intact(k), Prepared(k),
         NEW x \in Changes(k), Allowed(d1, k, Stmt(k, x)),
         \A y \in Key : IF <<k, y>> \in d1.change THEN d1.row[y] = backup[k][y]
                        ELSE d1.row[y] = backup[0][y] \/ (d1.row[y] = Absent /\ backup[k][y] = Absent),
         NEW row, row = Written(d1, k, Stmt(k, x)),
         NEW y \in Key
  PROVE  IF <<k, y>> \in d1.change \cup {<<k, x>>} THEN row[y] = backup[k][y]
         ELSE row[y] = backup[0][y] \/ (row[y] = Absent /\ backup[k][y] = Absent)
<1>. DEFINE s == Stmt(k, x)
<1>0. /\ TypeOK /\ d1 \in D1 /\ k \in Stage /\ k # 0 /\ backup[k] \in Content /\ backup[0] \in Content
      /\ WellFormed(backup[k])
  BY StageFacts, PreparedTypes, IntactIsPrepared, StageAssumption DEF IInv, Stage, TypeOK
<1>1. /\ x \in Key /\ s.key = x /\ s.val = backup[k][x] /\ s.do # "header"
      /\ s.do = Change(Before(k), backup[k], x)
  BY <1>0, StatementTyped
<1>2. Before(k) = backup[0] /\ Before(k)[x] # backup[k][x]
  BY <1>0, ChangesAre DEF Before
<1>3. /\ s.do = "insert" => backup[0][x] = Absent /\ backup[k][x] # Absent
      /\ s.do \notin {"insert", "update"} => s.do = "delete" /\ backup[0][x] # Absent /\ backup[k][x] = Absent
  BY <1>1, <1>2 DEF Change
<1>4. x \in Messages => s.do # "delete"
  BY <1>0, <1>1, MessagesStay
<1>. HIDE DEF s
<1>5. row = Written(d1, k, s) /\ Expected(k, s, row)
  BY <1>1 DEF s, Allowed
<1>6. CASE y = x
  <2>1. CASE s.do = "insert" /\ x \in Messages
    <3>1. row[x] # Absent
      BY <1>1, <1>5, <2>1 DEF Expected
    <3>2. row = Inserted(d1, k, s)
      BY <1>5, <2>1 DEF Written
    <3>3. row[x] = s.val \/ row[x] = d1.row[x]
      BY <1>0, <1>1, <3>2 DEF Inserted, D1, Content
    <3>4. d1.row[x] # Absent => d1.row[x] = backup[k][x]
      BY <1>1, <1>3, <2>1
    <3>. QED BY <1>1, <1>6, <3>1, <3>3, <3>4
  <2>2. CASE ~(s.do = "insert" /\ x \in Messages)
    <3>1. row[x] = backup[k][x]
      BY <1>0, <1>1, <1>5, <2>2 DEF Expected
    <3>. QED BY <1>6, <3>1
  <2>. QED BY <2>1, <2>2
<1>7. CASE y # x /\ row[y] = d1.row[y]
  BY <1>7
<1>8. CASE y # x /\ row[y] # d1.row[y]
  <2>1. /\ row[y] = Absent /\ s.do \notin {"insert", "update"}
        /\ y \in Assigned /\ x \in {y.msg, y.label}
    BY <1>0, <1>1, <1>5, <1>8, RowsWritten
  <2>2. backup[k][x] = Absent
    BY <1>3, <2>1
  <2>3. backup[k][y] = Absent
    BY <1>0, <2>1, <2>2 DEF WellFormed
  <2>. QED BY <1>8, <2>1, <2>3
<1>. QED BY <1>6, <1>7, <1>8

LEMMA DeltaRowsKept ==
  ASSUME Ordered, OrderedInv, [Next]_vars
  PROVE  DeltaRows'
<1>0. IInv /\ TypeOK /\ Kept /\ Provenance /\ 0 \in Stage /\ Deltas \subseteq Stage /\ 0 \notin Deltas
  BY StepsKeep, StageFacts, StageAssumption DEF OrderedInv, IInv, Stage
<1>. DEFINE Row(k, x) == IF <<k, x>> \in d1.change THEN d1.row[x] = backup[k][x]
                         ELSE d1.row[x] = backup[0][x] \/ (d1.row[x] = Absent /\ backup[k][x] = Absent)
<1>1. SUFFICES ASSUME NEW k \in Deltas, k \in d1'.header, Alone(k)', NEW x \in Key PROVE Row(k, x)'
  BY DEF DeltaRows
<1>2. Alone(k)
  BY <1>0, <1>1 DEF Alone, Kept
<1>3. k \in d1.header => \A y \in Key : Row(k, y)
  BY <1>2 DEF OrderedInv, DeltaRows
<1>4. k \in d1.header => backup'[k] = backup[k] /\ backup'[0] = backup[0]
  BY <1>0, DeltaNeedsBaseline DEF Kept, Prepared
<1>5. CASE UNCHANGED d1
  BY <1>1, <1>3, <1>4, <1>5
<1>6. ASSUME NEW j \in Stage, RunStatement(j) PROVE Row(k, x)'
  <2>. DEFINE n == Reached(j) + 1
  <2>1. /\ d1' = Execute(d1, j, Sql(j)[n]) /\ Allowed(d1, j, Sql(j)[n]) /\ Intact(j) /\ Prepared(j)
        /\ d1 \in D1 /\ ~saved[j].done /\ (j # 0 => saved[0].done)
        /\ \/ Sql(j)[n] = Header
           \/ \E y \in Changes(j) : Sql(j)[n] = Stmt(j, y) /\ j \in d1.header
    BY <1>0, <1>6, Runs DEF TypeOK
  <2>2. backup'[j] = backup[j] /\ backup'[0] = backup[0]
    BY <1>0, <2>1 DEF Kept, Prepared
  <2>3. CASE Sql(j)[n] = Header
    <3>1. d1' = [d1 EXCEPT !.header = d1.header \cup {j}]
      BY <2>1, <2>3, HeaderExecuted
    <3>2. d1'.row = d1.row /\ d1'.change = d1.change /\ d1'.header = d1.header \cup {j}
      BY <2>1, <3>1 DEF D1
    <3>3. CASE k \in d1.header
      BY <1>3, <1>4, <3>2, <3>3
    <3>4. CASE k \notin d1.header
      <4>1. j = k /\ \A i \in Deltas : i \notin d1.header
        BY <1>1, <1>2, <3>2, <3>4 DEF Alone
      <4>2. Intact(0) /\ Reached(0) >= Len(Sql(0))
        BY <1>0, <2>1, <4>1, DoneIsExecuted
      <4>3. d1.row[x] = backup[0][x]
        BY <1>0, <4>1, <4>2, BaselineIsThere DEF OrderedInv
      <4>4. <<k, x>> \notin d1.change
        BY <1>0, <3>4 DEF Provenance
      <4>. QED BY <2>2, <3>2, <4>3, <4>4
    <3>. QED BY <3>3, <3>4
  <2>4. ASSUME NEW y \in Changes(j), Sql(j)[n] = Stmt(j, y), j \in d1.header PROVE Row(k, x)'
    <3>. DEFINE s == Stmt(j, y)
                d == Execute(d1, j, s)
    <3>1. d1' = d /\ Allowed(d1, j, s)
      BY <2>1, <2>4
    <3>2. /\ d.row = Written(d1, j, s) /\ d.header = d1.header
          /\ d.change = IF j # 0 THEN d1.change \cup {<<j, y>>} ELSE d1.change
      BY <1>0, <2>1, ChangeExecuted
    <3>. HIDE DEF d
    <3>3. k \in d1.header
      BY <1>1, <3>1, <3>2
    <3>4. saved[0].done
      BY <1>0, <3>3, DeltaNeedsBaseline
    <3>5. j = k
      BY <1>2, <2>1, <2>4, <3>4 DEF Alone, Stage
    <3>6. IF <<k, x>> \in d1.change \cup {<<k, y>>} THEN d.row[x] = backup[k][x]
          ELSE d.row[x] = backup[0][x] \/ (d.row[x] = Absent /\ backup[k][x] = Absent)
      BY <1>0, <1>3, <2>1, <3>1, <3>2, <3>3, <3>5, DeltaStatement
    <3>. QED BY <1>0, <2>2, <3>1, <3>2, <3>5, <3>6
  <2>. QED BY <2>1, <2>3, <2>4
<1>. QED BY <1>5, <1>6, OthersLeaveD1

\* The database keeps the names of its rules apart: no other statement is carried out.
LEMMA NamesStayApart ==
  ASSUME IInv, NamesDiffer(d1.row), [Next]_vars
  PROVE  NamesDiffer(d1'.row)
<1>0. TypeOK
  BY DEF IInv
<1>1. CASE UNCHANGED d1
  BY <1>1
<1>2. ASSUME NEW k \in Stage, RunStatement(k) PROVE NamesDiffer(d1'.row)
  <2>. DEFINE n == Reached(k) + 1
  <2>1. /\ d1' = Execute(d1, k, Sql(k)[n]) /\ Allowed(d1, k, Sql(k)[n]) /\ Prepared(k) /\ d1 \in D1
        /\ \/ Sql(k)[n] = Header
           \/ \E y \in Changes(k) : Sql(k)[n] = Stmt(k, y) /\ k \in d1.header
    BY <1>0, <1>2, Runs DEF TypeOK
  <2>2. CASE Sql(k)[n] = Header
    <3>1. d1' = [d1 EXCEPT !.header = d1.header \cup {k}]
      BY <2>1, <2>2, HeaderExecuted
    <3>2. d1'.row = d1.row
      BY <2>1, <3>1 DEF D1
    <3>. QED BY <3>2
  <2>3. ASSUME NEW y \in Changes(k), Sql(k)[n] = Stmt(k, y) PROVE NamesDiffer(d1'.row)
    <3>1. d1'.row = Written(d1, k, Stmt(k, y))
      BY <1>0, <2>1, <2>3, ChangeExecuted
    <3>2. Stmt(k, y).do # "header"
      BY <1>0, <2>1, StatementTyped
    <3>. QED BY <2>1, <2>3, <3>1, <3>2 DEF Allowed
  <2>. QED BY <2>1, <2>2, <2>3
<1>. QED BY <1>1, <1>2, OthersLeaveD1

LEMMA OrderedInitially == Init => OrderedInv
BY Initially DEF Init, EmptyD1, OrderedInv, BaselineRows, DeltaRows, NoRows, Owned, NamesDiffer, Present, Key, Entry

\* The invariant of the documented order: a row is the baseline's until a delta changes it.
THEOREM OrderedInvariance == Ordered /\ Spec => []OrderedInv
<1>. SUFFICES ASSUME Ordered PROVE Spec => []OrderedInv
  OBVIOUS
<1>1. OrderedInv /\ [Next]_vars => OrderedInv'
  <2>1. IInv /\ [Next]_vars => IInv'
    BY Types, SourcesKept, SnapshotsKept, ProgressSteps, ProvenanceKept, RowsKeepObjects DEF IInv
  <2>. QED BY <2>1, BaselineRowsKept, DeltaRowsKept, NamesStayApart DEF OrderedInv
<1>. QED BY <1>1, OrderedInitially, PTL DEF Spec

\* What a row of a wholly executed stage is, if no other delta was begun.
LEMMA RowsOfStage ==
  ASSUME Ordered, OrderedInv, NEW k \in Stage, Alone(k), Intact(k), Reached(k) >= Len(Sql(k)), NEW x \in Key
  PROVE  d1.row[x] = backup[k][x]
<1>0. IInv
  BY DEF OrderedInv
<1>1. CASE k = 0
  <2>1. \A j \in Deltas : j \notin d1.header
    BY <1>1, StageAssumption DEF Alone
  <2>. QED BY <1>0, <1>1, <2>1, BaselineIsThere DEF OrderedInv
<1>2. CASE k # 0
  <2>1. k \in Deltas /\ k \in d1.header /\ \A y \in Changes(k) : <<k, y>> \in d1.change
    BY <1>0, <1>2, AllExecuted, StageFacts
  <2>2. IF <<k, x>> \in d1.change THEN d1.row[x] = backup[k][x]
        ELSE d1.row[x] = backup[0][x] \/ (d1.row[x] = Absent /\ backup[k][x] = Absent)
    BY <2>1 DEF OrderedInv, DeltaRows
  <2>3. x \notin Changes(k) => backup[0][x] = backup[k][x]
    BY <1>2, ChangesAre DEF Before
  <2>. QED BY <2>1, <2>2, <2>3
<1>. QED BY <1>1, <1>2

\* Once a stage is applied and audited, and no other delta was begun, D1 holds what the
\* archived system held in the stage's backup, if the operator keeps to the order of
\* docs/legacy-migration.md: the deltas after the baseline.
THEOREM TargetIsBackup == Ordered /\ Spec => []TargetMatchesBackup
<1>. SUFFICES ASSUME Ordered PROVE Spec => []TargetMatchesBackup
  OBVIOUS
<1>1. ASSUME OrderedInv, NEW k \in Stage, saved[k].done, Alone(k) PROVE d1.row = backup[k]
  <2>1. IInv /\ TypeOK
    BY <1>1 DEF OrderedInv, IInv
  <2>2. Intact(k) /\ Reached(k) >= Len(Sql(k))
    BY <1>1, <2>1, DoneIsExecuted
  <2>3. \A x \in Key : d1.row[x] = backup[k][x]
    BY <1>1, <2>2, RowsOfStage
  <2>4. d1.row \in Content /\ backup[k] \in Content
    BY <2>1, <2>2, IntactIsPrepared, PreparedTypes DEF TypeOK, D1
  <2>. QED BY <2>3, <2>4 DEF Content
<1>2. OrderedInv => TargetMatchesBackup
  BY <1>1 DEF TargetMatchesBackup
<1>. QED BY <1>2, OrderedInvariance, PTL

-------------------------------------------------------------------------------
(* Which statement is refused, and why no audit fails.                     *)

\* The statement that comes next, with everything before it executed.
LEMMA NextIs ==
  ASSUME IInv, NEW k \in Stage, Intact(k), Reached(k) < Len(Sql(k))
  PROVE  /\ Prepared(k) /\ WellFormed(backup[k])
         /\ \/ NextStatement(k) = Header
            \/ /\ k \in d1.header
               /\ \E x \in Changes(k) :
                    /\ NextStatement(k) = Stmt(k, x)
                    /\ \A y \in Changes(k) : Precedes(k, y, x) =>
                         IF k # 0 THEN <<k, y>> \in d1.change ELSE Owned(d1, y)
<1>. DEFINE n == Reached(k) + 1
<1>1. TypeOK /\ Executed(k) /\ Prepared(k) /\ WellFormed(backup[k]) /\ Reached(k) \in Nat
  BY IntactIsPrepared, ReachedTyped DEF IInv
<1>2. n \in 1..Len(Sql(k)) /\ Sql(k)[1] = Header /\ NextStatement(k) = Sql(k)[n]
  BY <1>1, SqlFacts DEF NextStatement
<1>3. ASSUME NEW x \in Changes(k), Sql(k)[n] = Stmt(k, x)
      PROVE  /\ k \in d1.header
             /\ \A y \in Changes(k) : Precedes(k, y, x) =>
                  IF k # 0 THEN <<k, y>> \in d1.change ELSE Owned(d1, y)
  <2>1. n # 1
    BY <1>2, <1>3, ChangesAre
  <2>2. Left(d1, k, Header)
    BY <1>1, <1>2, <2>1 DEF Executed
  <2>3. ASSUME NEW y \in Changes(k), Precedes(k, y, x)
        PROVE  IF k # 0 THEN <<k, y>> \in d1.change ELSE Owned(d1, y)
    <3>1. PICK j \in 1..n - 1 : Sql(k)[j] = Stmt(k, y)
      BY <1>1, <1>2, <1>3, <2>3, Precedence
    <3>2. Left(d1, k, Stmt(k, y))
      BY <1>1, <3>1 DEF Executed
    <3>. QED BY <1>1, <3>2, LeftMeans
  <2>. QED BY <2>2, <2>3 DEF Left, Header
<1>. QED BY <1>1, <1>2, <1>3, SqlFacts

\* The baseline: an assignment's message and label are there before it.
LEMMA BaselineStatement ==
  ASSUME IInv, BaselineRows, \A j \in Deltas : j \notin d1.header, Intact(0), Reached(0) < Len(Sql(0))
  PROVE  Allowed(d1, 0, NextStatement(0))
<1>0. TypeOK /\ d1 \in D1 /\ 0 \in Stage
  BY StageFacts DEF IInv, TypeOK
<1>1. CASE NextStatement(0) = Header
  BY <1>1 DEF Allowed, Header
<1>2. ASSUME NEW x \in Changes(0), NextStatement(0) = Stmt(0, x),
             \A y \in Changes(0) : Precedes(0, y, x) => Owned(d1, y),
             Prepared(0), WellFormed(backup[0])
      PROVE  Allowed(d1, 0, NextStatement(0))
  <2>. DEFINE s == Stmt(0, x)
  <2>1. x \in Key /\ s.key = x /\ s.val = backup[0][x] /\ s.do = "insert" /\ backup[0][x] # Absent
    BY <1>0, <1>2, StatementTyped
  <2>2. \A y \in Key : backup[0][y] # Absent => y \in Changes(0)
    BY <1>0, ChangesAre DEF Before, NoRows
  <2>3. Parents(d1, x)
    <3>1. SUFFICES ASSUME x \in Assigned PROVE d1.row[x.msg] # Absent /\ d1.row[x.label] # Absent
      BY DEF Parents
    <3>2. /\ x.msg \in Messages /\ x.label \in Labels /\ x.msg \in Key /\ x.label \in Key
          /\ backup[0][x.msg] # Absent /\ backup[0][x.label] # Absent
      BY <1>2, <2>1, <3>1, KeyAssumption DEF WellFormed, Key, Entry
    <3>3. Owned(d1, x.msg) /\ Owned(d1, x.label)
      BY <1>2, <2>2, <3>1, <3>2 DEF Precedes
    <3>. QED BY <3>2, <3>3 DEF BaselineRows
  <2>. HIDE DEF s
  <2>4. Written(d1, 0, s) = Inserted(d1, 0, s)
    BY <2>1 DEF Written
  <2>5. Inserted(d1, 0, s)[x] = backup[0][x]
    <3>1. CASE d1.row[x] = Absent
      BY <1>0, <2>1, <2>3, <3>1 DEF Inserted, D1, Content
    <3>2. CASE d1.row[x] # Absent
      <4>1. d1.row[x] = backup[0][x]
        BY <2>1, <3>2 DEF BaselineRows
      <4>. QED BY <1>0, <2>1, <4>1 DEF Inserted, D1, Content
    <3>. QED BY <3>1, <3>2
  <2>6. NamesDiffer(Inserted(d1, 0, s))
    <3>. DEFINE row == Inserted(d1, 0, s)
    <3>1. ASSUME NEW y \in Rules, row[y] # Absent PROVE row[y] = backup[0][y]
      <4>1. y \in Key
        BY DEF Key, Entry
      <4>. QED BY <1>0, <2>1, <2>5, <3>1, <4>1 DEF BaselineRows, Inserted, D1, Content
    <3>2. NamesDiffer(backup[0])
      BY <1>2 DEF WellFormed
    <3>. HIDE DEF row
    <3>3. NamesDiffer(row)
      BY <3>1, <3>2 DEF NamesDiffer, Present
    <3>. QED BY <3>3 DEF row
  <2>. QED BY <1>2, <2>1, <2>4, <2>5, <2>6 DEF Allowed, Expected, s
<1>. QED BY <1>0, <1>1, <1>2, NextIs

\* A delta: what the new backup has is there already if its change is executed.
LEMMA DeltaAllowed ==
  ASSUME Ordered, OrderedInv, NEW k \in Deltas, Alone(k), saved[0].done, Intact(k), Reached(k) < Len(Sql(k)),
         ~TakesName(NextStatement(k))
  PROVE  Allowed(d1, k, NextStatement(k))
<1>0. /\ IInv /\ TypeOK /\ d1 \in D1 /\ k \in Stage /\ 0 \in Stage /\ k # 0
  BY StageFacts, StageAssumption DEF OrderedInv, IInv, TypeOK, Stage
<1>1. 0 \in d1.header /\ \A x \in Changes(0) : Owned(d1, x)
  BY <1>0, DoneIsExecuted, AllExecuted
<1>2. CASE NextStatement(k) = Header
  BY <1>1, <1>2 DEF Allowed, Header
<1>3. ASSUME NEW x \in Changes(k), NextStatement(k) = Stmt(k, x), k \in d1.header,
             \A y \in Changes(k) : Precedes(k, y, x) => <<k, y>> \in d1.change,
             Prepared(k), WellFormed(backup[k])
      PROVE  Allowed(d1, k, NextStatement(k))
  <2>. DEFINE s == Stmt(k, x)
              row == Written(d1, k, s)
  <2>1. /\ x \in Key /\ s.key = x /\ s.val = backup[k][x] /\ s.do # "header"
        /\ s.do = Change(Before(k), backup[k], x)
    BY <1>0, <1>3, StatementTyped
  <2>2. \A y \in Key : y \in Changes(k) <=> backup[0][y] # backup[k][y]
    BY <1>0, ChangesAre DEF Before
  <2>3. /\ s.do \in {"insert", "update", "delete"}
        /\ s.do = "insert" <=> backup[0][x] = Absent
        /\ s.do = "delete" <=> backup[k][x] = Absent
        /\ backup[0][x] # backup[k][x]
    BY <1>0, <2>1, <2>2 DEF Change, Before
  <2>4. \A y \in Key : IF <<k, y>> \in d1.change THEN d1.row[y] = backup[k][y]
                       ELSE d1.row[y] = backup[0][y] \/ (d1.row[y] = Absent /\ backup[k][y] = Absent)
    BY <1>3 DEF OrderedInv, DeltaRows
  <2>5. \A y \in Key : (y \in Changes(k) => Precedes(k, y, x)) => d1.row[y] = backup[k][y]
    BY <1>3, <2>2, <2>4
  <2>6. backup[0][x] # Absent => Owned(d1, x)
    <3>1. backup[0][x] # Absent => x \in Changes(0)
      BY <1>0, <2>1, ChangesAre DEF Before, NoRows
    <3>. QED BY <1>1, <3>1
  <2>. HIDE DEF s
  <2>7. row[x] = backup[k][x]
    <3>1. CASE s.do = "insert"
      <4>1. Parents(d1, x)
        <5>1. SUFFICES ASSUME x \in Assigned PROVE d1.row[x.msg] # Absent /\ d1.row[x.label] # Absent
          BY DEF Parents
        <5>2. /\ x.msg \in Messages /\ x.label \in Labels /\ x.msg \in Key /\ x.label \in Key
              /\ backup[k][x.msg] # Absent /\ backup[k][x.label] # Absent
          BY <1>3, <2>3, <3>1, <5>1, KeyAssumption DEF WellFormed, Key, Entry
        <5>3. Precedes(k, x.msg, x) /\ Precedes(k, x.label, x)
          BY <5>1, <5>2 DEF Precedes
        <5>. QED BY <2>5, <5>2, <5>3
      <4>2. row = Inserted(d1, k, s)
        BY <3>1 DEF Written
      <4>3. d1.row[x] # Absent => d1.row[x] = backup[k][x]
        BY <2>1, <2>3, <2>4, <3>1
      <4>. QED BY <1>0, <2>1, <4>1, <4>2, <4>3 DEF Inserted, D1, Content
    <3>2. CASE s.do = "update"
      <4>1. row = Updated(d1, s)
        BY <3>2 DEF Written
      <4>2. d1.row[x] # Absent /\ Owned(d1, x)
        BY <2>1, <2>3, <2>4, <2>6, <3>2
      <4>. QED BY <1>0, <2>1, <4>1, <4>2 DEF Updated, D1, Content
    <3>3. CASE s.do = "delete"
      <4>1. row = Deleted(d1, s) /\ Owned(d1, x)
        BY <2>3, <2>6, <3>3 DEF Written
      <4>. QED BY <2>1, <2>3, <3>3, <4>1 DEF Deleted, Without
    <3>. QED BY <2>3, <3>1, <3>2, <3>3
  <2>8. x \in Rules /\ s.do # "delete" => \A l \in RuleLabels[x][backup[k][x]] : row[l] # Absent
    <3>1. SUFFICES ASSUME x \in Rules, s.do # "delete", NEW l \in RuleLabels[x][backup[k][x]]
                   PROVE  row[l] # Absent
      OBVIOUS
    <3>2. backup[k] \in Content /\ backup[k][x] \in Versions
      BY <1>0, <1>3, <2>1, <2>3, <3>1, PreparedTypes DEF Content
    <3>3. /\ l \in Labels /\ l \in Key /\ l # x
          /\ backup[k][l] # Absent
      BY <1>3, <2>3, <3>1, <3>2, KeyAssumption DEF WellFormed, Present, Key, Entry
    <3>4. d1.row[l] # Absent
      BY <1>0, <2>5, <3>1, <3>3 DEF Precedes
    <3>5. row[l] = d1.row[l]
      BY <1>0, <2>1, <2>3, <3>1, <3>3, RowsWritten
    <3>. QED BY <3>4, <3>5
  <2>9. s.do = "delete" => ~LinkedRule(d1, x)
    <3>1. SUFFICES ASSUME s.do = "delete", NEW r \in Rules, d1.row[r] # Absent, x \in RuleLabels[r][d1.row[r]]
                   PROVE  FALSE
      BY DEF LinkedRule, Present
    <3>2. r \in Key /\ backup[k][x] = Absent
      BY <2>3, <3>1 DEF Key, Entry
    <3>3. d1.row[r] \in Versions
      BY <1>0, <3>1, <3>2 DEF D1, Content
    <3>4. x \in Labels
      BY <3>1, <3>3, KeyAssumption
    <3>5. d1.row[r] = backup[k][r]
      BY <1>0, <2>5, <3>2, <3>4 DEF Precedes
    <3>. QED BY <1>3, <3>1, <3>2, <3>5 DEF WellFormed, Present
  <2>10. Expected(k, s, row)
    BY <2>1, <2>3, <2>7, <2>8 DEF Expected
  <2>11. NamesDiffer(row)
    <3>1. \A y \in Rules : y \in Key /\ (y # x => row[y] = d1.row[y])
      BY <1>0, <2>1, RowsWritten, KeyAssumption DEF Key, Entry
    <3>2. ASSUME x \in Rules, row[x] # Absent, NEW r \in Rules \ {x}, row[r] # Absent
          PROVE  RuleName[r][row[r]] # RuleName[x][row[x]]
      <4>1. CASE row[r] = backup[0][r]
        BY <1>3, <2>1, <2>3, <2>7, <3>2, <4>1 DEF TakesName, Present, s
      <4>2. CASE row[r] = backup[k][r]
        BY <1>3, <2>7, <3>2, <4>2 DEF WellFormed, NamesDiffer, Present
      <4>. QED BY <2>4, <3>1, <3>2, <4>1, <4>2
    <3>3. NamesDiffer(d1.row)
      BY DEF OrderedInv
    <3>. HIDE DEF row
    <3>. QED BY <3>1, <3>2, <3>3 DEF NamesDiffer, Present
  <2>. QED BY <1>3, <2>1, <2>9, <2>10, <2>11 DEF Allowed, s
<1>. QED BY <1>0, <1>2, <1>3, NextIs

\* The audit of the baseline counts what is there.
LEMMA BaselineAudited ==
  ASSUME IInv, BaselineRows, \A j \in Deltas : j \notin d1.header, Intact(0), Reached(0) >= Len(Sql(0))
  PROVE  Audit(0)
<1>0. TypeOK /\ d1 \in D1 /\ Provenance /\ 0 \in Stage
  BY StageFacts DEF IInv, TypeOK
<1>1. 0 \in d1.header /\ \A x \in Changes(0) : Owned(d1, x)
  BY <1>0, AllExecuted
<1>2. \A x \in Key : d1.row[x] = backup[0][x]
  BY BaselineIsThere
<1>3. \A x \in Key : x \in Changes(0) <=> backup[0][x] # Absent
  BY <1>0, ChangesAre DEF Before, NoRows
<1>4. {m \in Messages : <<0, m>> \in d1.batch} = Mine(0)
  <2>1. \A m \in Messages : <<0, m>> \in d1.batch => m \in Mine(0)
    BY <1>0 DEF Provenance
  <2>2. \A m \in Mine(0) : m \in Messages /\ m \in Key /\ backup[0][m] # Absent
    BY DEF Mine, Present, Key
  <2>3. \A m \in Mine(0) : <<0, m>> \in d1.batch
    BY <1>1, <1>3, <2>2 DEF Owned
  <2>. QED BY <2>1, <2>2, <2>3
<1>5. \A v \in Versions : {m \in Mine(0) : d1.row[m] = v} = {m \in Mine(0) : backup[0][m] = v}
  BY <1>2 DEF Mine, Present, Key
<1>6. AuditConfiguration
  <2>1. \A x \in d1.owned : x \in Key \ Messages /\ backup[0][x] # Absent
    BY <1>0, KeyAssumption DEF Provenance, D1, Key
  <2>2. \A x \in Key \ Messages : backup[0][x] # Absent => x \in d1.owned
    BY <1>1, <1>3 DEF Owned
  <2>. QED BY <1>2, <2>1, <2>2 DEF AuditConfiguration, Present
<1>. QED BY <1>1, <1>4, <1>5, <1>6 DEF Audit, AuditBaseline

LEMMA DeltaAudited ==
  ASSUME Ordered, OrderedInv, NEW k \in Deltas, Alone(k), Intact(k), Reached(k) >= Len(Sql(k))
  PROVE  Audit(k)
<1>0. IInv /\ d1 \in D1 /\ Provenance /\ k \in Stage /\ k # 0
  BY StageAssumption DEF OrderedInv, IInv, TypeOK, Stage
<1>1. k \in d1.header /\ \A x \in Changes(k) : <<k, x>> \in d1.change
  BY <1>0, AllExecuted
<1>2. \A x \in Changes(k) : x \in Key /\ d1.row[x] = backup[k][x]
  BY <1>0, ChangesAre, RowsOfStage
<1>3. {c \in d1.change : c[1] = k} = {<<k, x>> : x \in Changes(k)}
  <2>1. ASSUME NEW c \in d1.change, c[1] = k PROVE \E x \in Changes(k) : c = <<k, x>>
    <3>1. PICK j \in Deltas, x \in Key : c = <<j, x>>
      BY <1>0 DEF D1
    <3>. QED BY <1>0, <2>1, <3>1 DEF Provenance
  <2>2. \A x \in Changes(k) : <<k, x>> \in d1.change /\ <<k, x>>[1] = k
    BY <1>1
  <2>. QED BY <2>1, <2>2
<1>. QED BY <1>0, <1>1, <1>2, <1>3 DEF Audit, AuditDelta

\* A stage goes through from where it stands, a delta on a target with the baseline: its
\* next statement is refused only when it gives a rule a name that another rule has in the
\* baseline's backup, and at its end the audit passes, if the operator keeps to the
\* documented order (renderLegacyConfigurationDelta, collectRules, auditLegacyTarget,
\* auditLegacyDeltaTarget).
THEOREM StagesGoThrough == Ordered /\ Spec => []StagesRunThrough
<1>. SUFFICES ASSUME Ordered PROVE Spec => []StagesRunThrough
  OBVIOUS
<1>1. ASSUME OrderedInv, NEW k \in Stage, Intact(k), Alone(k), k # 0 => saved[0].done
      PROVE  IF Reached(k) < Len(Sql(k))
             THEN Allowed(d1, k, NextStatement(k)) \/ TakesName(NextStatement(k)) ELSE Audit(k)
  <2>0. IInv /\ TypeOK /\ Reached(k) \in Nat
    BY <1>1, ReachedTyped DEF OrderedInv, IInv
  <2>1. Len(Sql(k)) \in Nat
    BY <1>1, <2>0, IntactIsPrepared, SqlFacts
  <2>2. CASE k = 0
    <3>1. \A j \in Deltas : j \notin d1.header
      BY <1>1, <2>2, StageAssumption DEF Alone
    <3>2. Reached(0) < Len(Sql(0)) => Allowed(d1, 0, NextStatement(0))
      BY <1>1, <2>0, <2>2, <3>1, BaselineStatement DEF OrderedInv
    <3>3. Reached(0) >= Len(Sql(0)) => Audit(0)
      BY <1>1, <2>0, <2>2, <3>1, BaselineAudited DEF OrderedInv
    <3>. QED BY <2>0, <2>1, <2>2, <3>2, <3>3
  <2>3. CASE k # 0
    <3>1. k \in Deltas
      BY <2>3 DEF Stage
    <3>2. Reached(k) < Len(Sql(k)) => Allowed(d1, k, NextStatement(k)) \/ TakesName(NextStatement(k))
      BY <1>1, <2>3, <3>1, DeltaAllowed
    <3>3. Reached(k) >= Len(Sql(k)) => Audit(k)
      BY <1>1, <3>1, DeltaAudited
    <3>. QED BY <2>0, <2>1, <3>2, <3>3
  <2>. QED BY <2>2, <2>3
<1>2. OrderedInv => StagesRunThrough
  BY <1>1 DEF StagesRunThrough
<1>. QED BY <1>2, OrderedInvariance, PTL
==============================================================================
