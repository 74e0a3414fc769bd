--------------------------- MODULE Phonebook_proofs ---------------------------
(***************************************************************************)
(* What is proved of Phonebook, for any users, permissions, texts, files,  *)
(* modifications and any number of requests at once: the table is well     *)
(* typed; a contact goes only by a request of its owner or of who may      *)
(* change every contact, and changes only by one of theirs or by a         *)
(* modification without some columns whose values name it by mistake; and  *)
(* what a modification that is answered 200 can have done.                 *)
(*                                                                         *)
(* A request that changes a contact has found out whose it is in an        *)
(* earlier query.  The inductive invariant says that this is still so, or  *)
(* that the contact is gone: ids are not given out again, and no query     *)
(* changes an owner.                                                       *)
(***************************************************************************)
EXTENDS Phonebook, FiniteSetTheorems, SequenceTheorems, TLAPS

-----------------------------------------------------------------------------
(* The invariant.                                                          *)

Fields ==
  {"api", "user", "stage", "found", "companies", "term", "view", "id", "data", "file"}

\* What a request r keeps from its arrival.
Kept(r) ==
  /\ DOMAIN r = Fields
  /\ r.api \in Apis /\ r.user \in Users /\ r.stage \in Stages
  /\ r.api = "create" => r.data \in Creations
  /\ r.api = "modify_cticontact" => r.data \in Modifications
  /\ r.api = "import_csv_speeddial" => r.file \in Imports

\* What a request r that goes on to change its contact has found out, and is
\* still so: of the table with the contacts cs, whose next id is n.
MayWrite(r, cs, n) ==
  r.stage = "write" =>
    /\ r.id \in Nat /\ r.id < n
    /\ r.id \in DOMAIN cs => cs[r.id].owner_id = r.user \/ r.user \in adPhonebook

TableTyped(cs, n) ==
  /\ n \in 1..(MaxId + 1)
  /\ DOMAIN cs \subseteq 1..(n - 1)
  /\ \A i \in DOMAIN cs : cs[i] \in Row

PInv ==
  /\ TableTyped(contacts, nextId)
  /\ DOMAIN requests = Slots
  /\ \A s \in Slots : Live(s) =>
       Kept(requests[s]) /\ MayWrite(requests[s], contacts, nextId)

\* No contact gets another owner, and a new one gets a new id.
OwnersKept ==
  /\ nextId <= nextId'
  /\ \A i \in DOMAIN contacts' :
       i < nextId => i \in DOMAIN contacts /\ contacts'[i].owner_id = contacts[i].owner_id

-----------------------------------------------------------------------------
(* The columns.                                                            *)

LEMMA ColumnsAre ==
  /\ DOMAIN Columns = 1..5
  /\ ColumnNames = {"type", "name", "workemail", "workphone", "company"}
  /\ \A k \in 1..5 : Columns[k] \in ColumnNames
  /\ \A j, k \in 1..5 : Columns[j] = Columns[k] => j = k
  <1>1. DOMAIN Columns = 1..5
    BY DEF Columns
  <1>2. /\ Columns[1] = "type" /\ Columns[2] = "name" /\ Columns[3] = "workemail"
        /\ Columns[4] = "workphone" /\ Columns[5] = "company"
    BY DEF Columns
  <1>3. ColumnNames = {Columns[1], Columns[2], Columns[3], Columns[4], Columns[5]}
    BY <1>1 DEF ColumnNames
  <1>4. ColumnNames = {"type", "name", "workemail", "workphone", "company"}
    BY <1>2, <1>3
  <1>5. \A k \in 1..5 : Columns[k] \in ColumnNames
    BY <1>1 DEF ColumnNames
  <1>6. \A k \in 1..5 : k = 1 \/ k = 2 \/ k = 3 \/ k = 4 \/ k = 5
    OBVIOUS
  <1>7. \A j, k \in 1..5 : Columns[j] = Columns[k] => j = k
    BY <1>2, <1>6
  <1> QED BY <1>1, <1>4, <1>5, <1>7

LEMMA DataIs ==
  ASSUME NEW data \in Data
  PROVE  DOMAIN data \subseteq ColumnNames /\ \A c \in DOMAIN data : data[c] \in Texts
  <1>1. PICK D \in SUBSET ColumnNames : data \in [D -> Texts]
    BY DEF Data
  <1> QED BY <1>1

LEMMA RowIs ==
  ASSUME NEW row \in Row
  PROVE  /\ DOMAIN row = ColumnNames \cup {"owner_id"}
         /\ row.owner_id \in Users /\ row.type \in Texts
         /\ \A c \in ColumnNames : row[c] \in Texts \cup {Null}
  <1>1. /\ DOMAIN row = {"owner_id", "type", "name", "workemail", "workphone", "company"}
        /\ row.owner_id \in Users /\ row.type \in Texts
        /\ \A c \in {"name", "workemail", "workphone", "company"} : row[c] \in Texts \cup {Null}
    BY DEF Row
  <1> QED BY <1>1, ColumnsAre

\* A row whose columns are typed and whose type is a text.
LEMMA IsRow ==
  ASSUME NEW f, NEW S, f = [c \in S |-> f[c]], S = ColumnNames \cup {"owner_id"},
         f["owner_id"] \in Users, f["type"] \in Texts,
         \A c \in ColumnNames : f[c] \in Texts \cup {Null}
  PROVE  f \in Row
  <1>1. S = {"owner_id", "type", "name", "workemail", "workphone", "company"}
    BY ColumnsAre
  <1>2. f = [c \in {"owner_id", "type", "name", "workemail", "workphone", "company"} |-> f[c]]
    BY <1>1
  <1>3. /\ f["name"] \in Texts \cup {Null} /\ f["workemail"] \in Texts \cup {Null}
        /\ f["workphone"] \in Texts \cup {Null} /\ f["company"] \in Texts \cup {Null}
    BY ColumnsAre
  <1> QED BY <1>2, <1>3 DEF Row

LEMMA SavedIsRow ==
  ASSUME NEW u \in Users, NEW data \in Data, "type" \in DOMAIN data, data["type"] # ""
  PROVE  Saved(u, data) \in Row
  <1> DEFINE f == Saved(u, data)
             S == ColumnNames \cup {"owner_id"}
  <1>1. "type" \in ColumnNames /\ "owner_id" \notin ColumnNames
    BY ColumnsAre
  <1>2. /\ f = [c \in S |-> f[c]] /\ f["owner_id"] = u
        /\ \A c \in ColumnNames :
             f[c] = IF c \in DOMAIN data /\ data[c] # "" THEN data[c] ELSE Null
    BY <1>1 DEF Saved
  <1>3. f["type"] \in Texts
    BY <1>1, <1>2, DataIs
  <1>4. \A c \in ColumnNames : f[c] \in Texts \cup {Null}
    BY <1>2, DataIs
  <1> HIDE DEF f
  <1>5. f \in Row
    BY <1>2, <1>3, <1>4, IsRow
  <1> QED BY <1>5 DEF f

-----------------------------------------------------------------------------
(* The queries that change the table.                                      *)

LEMMA InsertKeeps ==
  ASSUME TableTyped(contacts, nextId), NEW u, NEW rows, Len(rows) \in Nat,
         \A k \in 1..Len(rows) : Saved(u, rows[k]) \in Row,
         Insert(u, rows)
  PROVE  /\ TableTyped(contacts, nextId)' /\ OwnersKept
         /\ \A i \in DOMAIN contacts : i \in DOMAIN contacts' /\ contacts'[i] = contacts[i]
  <1> DEFINE n == Len(rows)
             New == nextId..(nextId + n - 1)
  <1>1. n \in Nat /\ nextId \in Nat \ {0} /\ DOMAIN contacts \subseteq 1..(nextId - 1)
    BY BoundsAssumption DEF TableTyped
  <1>2. /\ nextId + n <= MaxId + 1 /\ nextId' = nextId + n
        /\ DOMAIN contacts' = DOMAIN contacts \cup New
        /\ \A i \in DOMAIN contacts \cup New :
             contacts'[i] = IF i < nextId THEN contacts[i] ELSE Saved(u, rows[i - nextId + 1])
    BY DEF Insert
  <1> HIDE DEF n
  <1>3. \A i \in DOMAIN contacts : i \in DOMAIN contacts' /\ contacts'[i] = contacts[i]
    BY <1>1, <1>2
  <1>4. \A i \in New : i - nextId + 1 \in 1..n /\ ~(i < nextId)
    BY <1>1
  <1>5. \A i \in New : contacts'[i] = Saved(u, rows[i - nextId + 1])
    BY <1>2, <1>4
  <1>6. \A i \in New : contacts'[i] \in Row
    BY <1>4, <1>5 DEF n
  <1>7. \A i \in DOMAIN contacts : contacts'[i] \in Row
    BY <1>3 DEF TableTyped
  <1>8. nextId' \in 1..(MaxId + 1) /\ DOMAIN contacts' \subseteq 1..(nextId' - 1)
    BY <1>1, <1>2, BoundsAssumption
  <1>9. TableTyped(contacts, nextId)'
    BY <1>2, <1>6, <1>7, <1>8 DEF TableTyped
  <1>10. OwnersKept
    BY <1>1, <1>2, <1>3, <1>4 DEF OwnersKept
  <1> QED BY <1>3, <1>9, <1>10

LEMMA DeleteKeeps ==
  ASSUME TableTyped(contacts, nextId), NEW ids, Delete(ids)
  PROVE  /\ TableTyped(contacts, nextId)' /\ OwnersKept
         /\ \A i \in DOMAIN contacts \ ids :
              i \in DOMAIN contacts' /\ contacts'[i] = contacts[i]
  <1>1. /\ DOMAIN contacts' = DOMAIN contacts \ ids /\ nextId' = nextId
        /\ \A i \in DOMAIN contacts \ ids : contacts'[i] = contacts[i]
    BY DEF Delete
  <1>2. TableTyped(contacts, nextId)'
    BY <1>1 DEF TableTyped
  <1>3. nextId <= nextId'
    BY <1>1, BoundsAssumption DEF TableTyped
  <1> QED BY <1>1, <1>2, <1>3 DEF OwnersKept

LEMMA SameTable ==
  ASSUME TableTyped(contacts, nextId), UNCHANGED <<contacts, nextId>>
  PROVE  TableTyped(contacts, nextId)' /\ OwnersKept
  <1>1. nextId <= nextId'
    BY BoundsAssumption DEF TableTyped
  <1>2. TableTyped(contacts, nextId)'
    BY DEF TableTyped
  <1>3. \A i \in DOMAIN contacts' :
          i \in DOMAIN contacts /\ contacts'[i].owner_id = contacts[i].owner_id
    OBVIOUS
  <1> QED BY <1>1, <1>2, <1>3 DEF OwnersKept

LEMMA ValueIsText ==
  ASSUME NEW data \in Data, NEW k
  PROVE  ValueOf(data, k) \in Texts
  <1>1. CASE Columns[k] \in DOMAIN data
    BY <1>1, DataIs DEF ValueOf
  <1>2. CASE Columns[k] \notin DOMAIN data
    BY <1>2, TextsAssumption DEF ValueOf
  <1> QED BY <1>1, <1>2

\* Whatever the columns of a modification, and wherever their values go.
LEMMA ModifyKeeps ==
  ASSUME TableTyped(contacts, nextId), NEW data \in Data, NEW id,
         contacts' = modifyCtiPbContact(data, id), UNCHANGED nextId
  PROVE  TableTyped(contacts, nextId)' /\ OwnersKept /\ DOMAIN contacts' = DOMAIN contacts
  <1> DEFINE set == Placeholders(data)
             value(k) == ValueOf(data, Cardinality({j \in set : j <= k}))
             where == IF set = DOMAIN Columns THEN id
                      ELSE TextAsId[ValueOf(data, Cardinality(set) + 1)]
             at(c) == CHOOSE k \in set : Columns[k] = c
             put(c, v) == IF \E k \in set : Columns[k] = c THEN value(at(c)) ELSE v
  <1>1. \A k : value(k) \in Texts
    BY ValueIsText
  <1>2. \A k \in set : Columns[k] \in ColumnNames
    BY ColumnsAre DEF Placeholders
  <1>3. contacts' = [i \in DOMAIN contacts |->
                       IF i # where THEN contacts[i]
                       ELSE [c \in DOMAIN contacts[i] |-> put(c, contacts[i][c])]]
    BY DEF modifyCtiPbContact
  <1> HIDE DEF set, value, where
  <1>4. DOMAIN contacts' = DOMAIN contacts
    BY <1>3
  <1>5. ASSUME NEW i \in DOMAIN contacts
        PROVE  contacts'[i] \in Row /\ contacts'[i].owner_id = contacts[i].owner_id
    <2> DEFINE f == contacts'[i]
               row == contacts[i]
    <2>1. row \in Row
      BY DEF TableTyped
    <2>2. CASE i # where
      BY <1>3, <2>1, <2>2
    <2>3. CASE i = where
      <3>1. f = [c \in DOMAIN row |-> put(c, row[c])]
        BY <1>3, <2>3
      <3>2. DOMAIN row = ColumnNames \cup {"owner_id"} /\ row["owner_id"] \in Users
            /\ row["type"] \in Texts /\ \A c \in ColumnNames : row[c] \in Texts \cup {Null}
        BY <2>1, RowIs
      <3>3. "owner_id" \notin ColumnNames /\ "type" \in ColumnNames
        BY ColumnsAre
      <3> HIDE DEF f, row
      <3>4. f["owner_id"] = row["owner_id"]
        BY <1>2, <3>1, <3>2, <3>3
      <3>5. put("type", row["type"]) \in Texts
        BY <1>1, <3>2
      <3>6. \A c \in ColumnNames : put(c, row[c]) \in Texts \cup {Null}
        BY <1>1, <3>2
      <3>7. f["type"] \in Texts /\ \A c \in ColumnNames : f[c] \in Texts \cup {Null}
        BY <3>1, <3>2, <3>3, <3>5, <3>6
      <3>8. f = [c \in ColumnNames \cup {"owner_id"} |-> f[c]]
        BY <3>1, <3>2
      <3>9. f \in Row
        BY <3>2, <3>4, <3>7, <3>8, IsRow
      <3> QED BY <3>4, <3>9 DEF f, row
    <2> QED BY <2>2, <2>3
  <1>6. nextId <= nextId'
    BY BoundsAssumption DEF TableTyped
  <1> QED BY <1>4, <1>5, <1>6 DEF TableTyped, OwnersKept

\* A modification of every column does what it says.
LEMMA ModifyIs ==
  ASSUME NEW data, DOMAIN data = ColumnNames, NEW id
  PROVE  modifyCtiPbContact(data, id) =
           [i \in DOMAIN contacts |->
              IF i = id
              THEN [c \in DOMAIN contacts[i] |->
                      IF c \in DOMAIN data THEN data[c] ELSE contacts[i][c]]
              ELSE contacts[i]]
  <1> DEFINE set == Placeholders(data)
             value(k) == ValueOf(data, Cardinality({j \in set : j <= k}))
             at(c) == CHOOSE k \in set : Columns[k] = c
  <1>1. set = 1..5 /\ set = DOMAIN Columns
    BY ColumnsAre DEF Placeholders
  <1>2. ASSUME NEW k \in 1..5 PROVE value(k) = data[Columns[k]]
    <2>1. {j \in set : j <= k} = 1..k
      BY <1>1
    <2>2. k \in Nat
      OBVIOUS
    <2>3. Cardinality(1..k) = k
      BY <2>2, FS_Interval
    <2> QED BY <2>1, <2>3, ColumnsAre DEF ValueOf
  <1>3. modifyCtiPbContact(data, id) =
          [i \in DOMAIN contacts |->
             IF i # id THEN contacts[i]
             ELSE [c \in DOMAIN contacts[i] |->
                     IF \E k \in set : Columns[k] = c THEN value(at(c)) ELSE contacts[i][c]]]
    BY <1>1 DEF modifyCtiPbContact
  <1> HIDE DEF value
  <1>4. ASSUME NEW c PROVE (\E k \in set : Columns[k] = c) <=> c \in DOMAIN data
    BY <1>1 DEF ColumnNames
  <1>5. ASSUME NEW c \in DOMAIN data PROVE value(at(c)) = data[c]
    <2>1. at(c) \in 1..5 /\ Columns[at(c)] = c
      BY <1>1, <1>4
    <2> HIDE DEF at
    <2> QED BY <1>2, <2>1
  <1> DEFINE put(c, v) == IF \E k \in set : Columns[k] = c THEN value(at(c)) ELSE v
  <1>6. ASSUME NEW c, NEW v PROVE put(c, v) = IF c \in DOMAIN data THEN data[c] ELSE v
    BY <1>4, <1>5
  <1>7. modifyCtiPbContact(data, id) =
          [i \in DOMAIN contacts |->
             IF i # id THEN contacts[i]
             ELSE [c \in DOMAIN contacts[i] |-> put(c, contacts[i][c])]]
    BY <1>3
  <1> HIDE DEF put
  <1>8. ASSUME NEW i \in DOMAIN contacts
        PROVE  [c \in DOMAIN contacts[i] |-> put(c, contacts[i][c])]
                 = [c \in DOMAIN contacts[i] |->
                      IF c \in DOMAIN data THEN data[c] ELSE contacts[i][c]]
    BY <1>6
  <1> QED BY <1>7, <1>8

\* Of a modification without some columns the id is read in one of the values
\* sent, or in an empty one, which is no contact's.
LEMMA ModifyMisplaces ==
  ASSUME TableTyped(contacts, nextId), NEW data \in Data, Partial(data), NEW id,
         NEW i \in DOMAIN contacts \ ReadAsIds(data)
  PROVE  modifyCtiPbContact(data, id)[i] = contacts[i]
  <1> DEFINE set == Placeholders(data)
             value(k) == ValueOf(data, Cardinality({j \in set : j <= k}))
             at(c) == CHOOSE k \in set : Columns[k] = c
             put(c, v) == IF \E k \in set : Columns[k] = c THEN value(at(c)) ELSE v
             column == Cardinality(set) + 1
             where == TextAsId[ValueOf(data, column)]
  <1>1. set # DOMAIN Columns
    <2>1. PICK c \in ColumnNames : c \notin DOMAIN data
      BY DataIs DEF Partial
    <2>2. PICK k \in DOMAIN Columns : Columns[k] = c
      BY <2>1 DEF ColumnNames
    <2> QED BY <2>1, <2>2 DEF Placeholders
  <1>2. modifyCtiPbContact(data, id) =
          [x \in DOMAIN contacts |->
             IF x # where THEN contacts[x]
             ELSE [c \in DOMAIN contacts[x] |-> put(c, contacts[x][c])]]
    BY <1>1 DEF modifyCtiPbContact
  <1> HIDE DEF set, value, put, column
  <1>3. i # where
    <2>1. CASE Columns[column] \in DOMAIN data
      BY <2>1 DEF ValueOf, ReadAsIds
    <2>2. CASE Columns[column] \notin DOMAIN data
      <3>1. where = 0
        BY <2>2, TextsAssumption DEF ValueOf
      <3>2. i # 0
        BY BoundsAssumption DEF TableTyped
      <3> QED BY <3>1, <3>2
    <2> QED BY <2>1, <2>2
  <1> QED BY <1>2, <1>3

-----------------------------------------------------------------------------
(* The requests.                                                           *)

LEMMA ArrivedIs ==
  ASSUME NEW api \in Apis, NEW r \in Inputs(api)
  PROVE  Kept(r) /\ r.stage = "query"
  <1> DEFINE D == CASE api = "create" -> Creations
                    [] api = "modify_cticontact" -> Modifications
                    [] OTHER -> {None}
             T == Among(api, {"search", "searchstartswith", "searchemail"}, Terms)
             V == Among(api, Searches, Views)
             I == Among(api, OnContact, Ids)
             F == Among(api, {"import_csv_speeddial"}, Imports)
  <1>1. r \in [api : {api}, user : Users, stage : {"query"}, found : {Nothing},
               companies : {{}}, term : T, view : V, id : I, data : D, file : F]
    BY DEF Inputs
  <1> HIDE DEF D, T, V, I, F
  <1>2. /\ DOMAIN r = Fields
        /\ r.api = api /\ r.user \in Users /\ r.stage = "query" /\ r.data \in D /\ r.file \in F
    BY <1>1 DEF Fields
  <1>3. "query" \in Stages
    BY DEF Stages
  <1>4. /\ api = "create" => D = Creations
        /\ api = "modify_cticontact" => D = Modifications
        /\ api = "import_csv_speeddial" => F = Imports
    BY DEF D, F, Among
  <1> QED BY <1>2, <1>3, <1>4 DEF Kept

LEMMA KeptBy ==
  ASSUME NEW r, NEW q, Kept(r), DOMAIN q = DOMAIN r, q.stage \in Stages,
         q.api = r.api, q.user = r.user, q.data = r.data, q.file = r.file
  PROVE  Kept(q)
  BY DEF Kept

\* What another request has found out stays so.
LEMMA MayStillWrite ==
  ASSUME NEW r, MayWrite(r, contacts, nextId), OwnersKept,
         nextId \in Nat, nextId' \in Nat
  PROVE  MayWrite(r, contacts', nextId')
  BY DEF MayWrite, OwnersKept

\* A step of the request in the slot s, which is q after it.
LEMMA StepKeeps ==
  ASSUME PInv, TableTyped(contacts, nextId)', OwnersKept, NEW s \in Slots, NEW q,
         requests' = [requests EXCEPT ![s] = q],
         q # None => Kept(q) /\ MayWrite(q, contacts', nextId')
  PROVE  PInv'
  <1>1. /\ DOMAIN requests' = Slots /\ requests'[s] = q
        /\ \A t \in Slots \ {s} : requests'[t] = requests[t]
    BY DEF PInv
  <1>2. nextId \in Nat /\ nextId' \in Nat
    BY BoundsAssumption DEF PInv, TableTyped
  <1>3. ASSUME NEW t \in Slots, Live(t)'
        PROVE  Kept(requests'[t]) /\ MayWrite(requests'[t], contacts', nextId')
    <2>1. CASE t = s
      BY <1>1, <1>3, <2>1 DEF Live
    <2>2. CASE t # s
      <3>1. requests'[t] = requests[t] /\ Live(t)
        BY <1>1, <1>3, <2>2 DEF Live
      <3>2. Kept(requests[t]) /\ MayWrite(requests[t], contacts, nextId)
        BY <3>1 DEF PInv
      <3>3. MayWrite(requests[t], contacts', nextId')
        BY <1>2, <3>2, MayStillWrite
      <3> QED BY <3>1, <3>2, <3>3
    <2> QED BY <2>1, <2>2
  <1> QED BY <1>1, <1>3 DEF PInv

LEMMA AnswerIs ==
  ASSUME PInv, NEW s \in Slots, NEW code, NEW rows, Answer(s, code, rows)
  PROVE  /\ requests' = [requests EXCEPT ![s] = None] /\ requests'[s] = None
         /\ \A t \in Slots \ {s} : requests'[t] = requests[t]
         /\ answer'.code = code /\ answer'.rows = rows
  BY DEF Answer, PInv

LEMMA AnswerKeeps ==
  ASSUME PInv, TableTyped(contacts, nextId)', OwnersKept, NEW s \in Slots,
         requests' = [requests EXCEPT ![s] = None]
  PROVE  PInv'
  BY StepKeeps

\* A request goes on with its next query, and has not found out yet that it
\* may change its contact.
LEMMA GoOnKeeps ==
  ASSUME PInv, UNCHANGED <<contacts, nextId>>, NEW s \in Slots, Live(s), NEW q,
         requests' = [requests EXCEPT ![s] = q], q.stage \in Stages \ {"write"},
         DOMAIN q = DOMAIN requests[s], q.api = requests[s].api, q.user = requests[s].user,
         q.data = requests[s].data, q.file = requests[s].file
  PROVE  PInv'
  <1>1. Kept(requests[s])
    BY DEF PInv
  <1>2. Kept(q)
    BY <1>1, KeptBy
  <1>3. MayWrite(q, contacts', nextId')
    BY DEF MayWrite
  <1>4. TableTyped(contacts, nextId)' /\ OwnersKept
    BY SameTable DEF PInv
  <1> QED BY <1>2, <1>3, <1>4, StepKeeps

LEMMA QueryFailsIs ==
  ASSUME PInv, NEW s \in Slots, QueryFails(s)
  PROVE  /\ requests' = [requests EXCEPT ![s] = None] /\ UNCHANGED <<contacts, nextId>>
         /\ answer' # None => answer'.rows = Nothing /\ answer'.code = 500
  <1>1. CASE requests[s].api \in Searches
    BY <1>1 DEF QueryFails
  <1>2. CASE requests[s].api \notin Searches
    BY <1>2, AnswerIs DEF QueryFails
  <1> QED BY <1>1, <1>2

-----------------------------------------------------------------------------
(* What each request does to the table.                                    *)

LEMMA ReadKeeps ==
  ASSUME PInv, UNCHANGED <<contacts, nextId>>, NEW s \in Slots, NEW code, NEW rows,
         Answer(s, code, rows)
  PROVE  PInv'
  <1>1. TableTyped(contacts, nextId)' /\ OwnersKept
    BY SameTable DEF PInv
  <1> QED BY <1>1, AnswerIs, AnswerKeeps

LEMMA createIs ==
  ASSUME PInv, NEW s \in Slots, create(s)
  PROVE  /\ PInv'
         /\ \A i \in DOMAIN contacts : i \in DOMAIN contacts' /\ contacts'[i] = contacts[i]
  <1> DEFINE r == requests[s]
             rows == <<r.data>>
  <1>1. Insert(r.user, rows) /\ Answer(s, 201, Nothing)
    BY DEF create
  <1>2. r.user \in Users /\ r.data \in Creations
    BY DEF create, Is, Kept, PInv
  <1>3. /\ r.data \in Data /\ "type" \in DOMAIN r.data
        /\ r.data["type"] \in {"private", "public", "speeddial"}
    BY <1>2, DataAssumption DEF Creations
  <1>4. Saved(r.user, r.data) \in Row
    BY <1>2, <1>3, SavedIsRow
  <1>5. Len(rows) = 1 /\ rows[1] = r.data
    OBVIOUS
  <1> HIDE DEF r, rows
  <1>6. \A k \in 1..Len(rows) : Saved(r.user, rows[k]) \in Row
    BY <1>4, <1>5
  <1>7. Len(rows) \in Nat /\ TableTyped(contacts, nextId)
    BY <1>5 DEF PInv
  <1>8. /\ TableTyped(contacts, nextId)' /\ OwnersKept
        /\ \A i \in DOMAIN contacts : i \in DOMAIN contacts' /\ contacts'[i] = contacts[i]
    BY <1>1, <1>6, <1>7, InsertKeeps
  <1> QED BY <1>1, <1>8, AnswerIs, AnswerKeeps

LEMMA SpeedDialIsRow ==
  ASSUME NEW u \in Users, NEW data \in Data
  PROVE  Saved(u, SpeedDial(data)) \in Row
  <1> DEFINE f == SpeedDial(data)
             D == DOMAIN data \cup {"type"}
  <1>1. D \in SUBSET ColumnNames
    BY ColumnsAre, DataIs
  <1>2. f = [c \in D |-> f[c]] /\ f["type"] = "speeddial" /\ \A c \in D : f[c] \in Texts
    BY DataIs, TextsAssumption DEF SpeedDial
  <1> HIDE DEF f, D
  <1>3. f \in [D -> Texts]
    BY <1>2
  <1>4. f \in Data
    BY <1>1, <1>3 DEF Data
  <1>5. "type" \in DOMAIN f /\ f["type"] # ""
    BY <1>2, <1>3 DEF D
  <1>6. Saved(u, f) \in Row
    BY <1>4, <1>5, SavedIsRow
  <1> QED BY <1>6 DEF f

LEMMA importIs ==
  ASSUME PInv, NEW s \in Slots, import_csv_speeddial(s)
  PROVE  /\ PInv'
         /\ \A i \in DOMAIN contacts : i \in DOMAIN contacts' /\ contacts'[i] = contacts[i]
  <1> DEFINE r == requests[s]
  <1>1. r.user \in Users /\ r.file \in Seq(Data) /\ TableTyped(contacts, nextId)
    BY DataAssumption DEF import_csv_speeddial, Is, Kept, PInv
  <1>2. CASE r.user \notin phonebookUsers
    <2>1. Answer(s, 403, Nothing) /\ UNCHANGED <<contacts, nextId>>
      BY <1>2 DEF import_csv_speeddial
    <2> QED BY <2>1, ReadKeeps
  <1>3. CASE r.user \in phonebookUsers
    <2>1. Answer(s, 200, Nothing)
      BY <1>3 DEF import_csv_speeddial
    <2>2. PICK n \in 0..Len(r.file) :
            \E line \in [1..n -> DOMAIN r.file] :
              Insert(r.user, [k \in 1..n |-> SpeedDial(r.file[line[k]])])
      BY <1>3 DEF import_csv_speeddial
    <2>3. PICK line \in [1..n -> DOMAIN r.file] :
            Insert(r.user, [k \in 1..n |-> SpeedDial(r.file[line[k]])])
      BY <2>2
    <2> DEFINE rows == [k \in 1..n |-> SpeedDial(r.file[line[k]])]
    <2>4. n \in Nat /\ \A i \in DOMAIN r.file : r.file[i] \in Data
      BY <1>1
    <2>5. \A k \in 1..n : Saved(r.user, rows[k]) \in Row
      BY <1>1, <2>4, SpeedDialIsRow
    <2>6. DOMAIN rows = 1..n
      OBVIOUS
    <2>7. rows \in Seq({rows[k] : k \in 1..n}) /\ Len(rows) = n
      BY <2>4, <2>6
    <2> HIDE DEF rows
    <2>8. Insert(r.user, rows)
      BY <2>3 DEF rows
    <2>9. /\ TableTyped(contacts, nextId)' /\ OwnersKept
          /\ \A i \in DOMAIN contacts : i \in DOMAIN contacts' /\ contacts'[i] = contacts[i]
      BY <1>1, <2>4, <2>5, <2>7, <2>8, InsertKeeps
    <2> QED BY <2>1, <2>9, AnswerIs, AnswerKeeps
  <1> QED BY <1>2, <1>3

LEMMA speeddialsDeleteIs ==
  ASSUME PInv, NEW s \in Slots, speeddialsDelete(s)
  PROVE  /\ PInv'
         /\ \A i \in DOMAIN contacts :
              \/ i \in DOMAIN contacts' /\ contacts'[i] = contacts[i]
              \/ i \notin DOMAIN contacts' /\ contacts[i].owner_id = requests[s].user
  <1> DEFINE ids == getCtiPbSpeeddialContacts(requests[s].user)
  <1>1. Delete(ids) /\ Answer(s, 200, Nothing) /\ TableTyped(contacts, nextId)
    BY DEF speeddialsDelete, PInv
  <1>2. \A i \in ids : contacts[i].owner_id = requests[s].user
    BY DEF getCtiPbSpeeddialContacts, Own
  <1> HIDE DEF ids
  <1>3. /\ TableTyped(contacts, nextId)' /\ OwnersKept
        /\ \A i \in DOMAIN contacts \ ids : i \in DOMAIN contacts' /\ contacts'[i] = contacts[i]
    BY <1>1, DeleteKeeps
  <1>4. DOMAIN contacts' = DOMAIN contacts \ ids
    BY <1>1 DEF Delete
  <1> QED BY <1>1, <1>2, <1>3, <1>4, AnswerIs, AnswerKeeps

\* A request that changes its contact may still do so.
LEMMA Writes ==
  ASSUME PInv, NEW s \in Slots, NEW api, Is(s, {api}, "write")
  PROVE  /\ requests[s].id \in DOMAIN contacts =>
              requests[s].user \in adPhonebook \cup {contacts[requests[s].id].owner_id}
         /\ Kept(requests[s])
  BY DEF Is, PInv, MayWrite

LEMMA deleteIs ==
  ASSUME PInv, NEW s \in Slots, delete_cticontact(s)
  PROVE  /\ PInv'
         /\ \A i \in DOMAIN contacts :
              \/ i \in DOMAIN contacts' /\ contacts'[i] = contacts[i]
              \/ /\ i \notin DOMAIN contacts'
                 /\ requests[s].user \in adPhonebook \cup {contacts[i].owner_id}
  <1> DEFINE id == requests[s].id
  <1>1. Delete({id}) /\ Answer(s, 200, Nothing) /\ TableTyped(contacts, nextId)
    BY DEF delete_cticontact, PInv
  <1>2. id \in DOMAIN contacts => requests[s].user \in adPhonebook \cup {contacts[id].owner_id}
    BY Writes DEF delete_cticontact
  <1>3. /\ TableTyped(contacts, nextId)' /\ OwnersKept
        /\ \A i \in DOMAIN contacts \ {id} : i \in DOMAIN contacts' /\ contacts'[i] = contacts[i]
    BY <1>1, DeleteKeeps
  <1>4. DOMAIN contacts' = DOMAIN contacts \ {id}
    BY <1>1 DEF Delete
  <1> HIDE DEF id
  <1> QED BY <1>1, <1>2, <1>3, <1>4, AnswerIs, AnswerKeeps

LEMMA modifyIs ==
  ASSUME PInv, NEW s \in Slots, modify_cticontact(s)
  PROVE  /\ PInv' /\ OwnersKept /\ DOMAIN contacts' = DOMAIN contacts
         /\ requests[s].data \in Modifications
         /\ contacts' = modifyCtiPbContact(requests[s].data, requests[s].id)
  <1>1. /\ contacts' = modifyCtiPbContact(requests[s].data, requests[s].id)
        /\ UNCHANGED nextId /\ Answer(s, 200, Nothing) /\ TableTyped(contacts, nextId)
    BY DEF modify_cticontact, PInv
  <1>2. requests[s].data \in Modifications
    BY Writes DEF modify_cticontact, Kept, Is
  <1>3. requests[s].data \in Data
    BY <1>2, DataAssumption
  <1>4. TableTyped(contacts, nextId)' /\ OwnersKept /\ DOMAIN contacts' = DOMAIN contacts
    BY <1>1, <1>3, ModifyKeeps
  <1> QED BY <1>1, <1>2, <1>4, AnswerIs, AnswerKeeps

\* A request that goes on to change its contact has found out that it may.
LEMMA CheckKeeps ==
  ASSUME PInv, NEW s \in Slots, Check(s)
  PROVE  PInv'
  <1> DEFINE r == requests[s]
             q == [r EXCEPT !.stage = "write"]
  <1>1. Live(s) /\ Kept(r) /\ UNCHANGED <<contacts, nextId>> /\ TableTyped(contacts, nextId)
    BY DEF Check, Is, PInv
  <1>2. CASE ~MayChange(r)
    <2>1. Answer(s, 403, Nothing)
      BY <1>2 DEF Check
    <2> QED BY <1>1, <2>1, ReadKeeps
  <1>3. CASE MayChange(r)
    <2>1. requests' = [requests EXCEPT ![s] = q]
      BY <1>3 DEF Check, Stage
    <2>2. /\ DOMAIN q = DOMAIN r /\ q.stage = "write" /\ q.api = r.api /\ q.user = r.user
          /\ q.data = r.data /\ q.file = r.file /\ q.id = r.id
      BY <1>1 DEF Kept, Fields
    <2> HIDE DEF q
    <2>3. Kept(q)
      BY <1>1, <2>2, KeptBy DEF Stages
    <2>4. /\ r.id \in DOMAIN contacts
          /\ contacts[r.id].owner_id = r.user \/ r.user \in adPhonebook
      BY <1>3 DEF MayChange
    <2>5. r.id \in Nat /\ r.id < nextId
      BY <1>1, <2>4, BoundsAssumption DEF TableTyped
    <2>6. MayWrite(q, contacts', nextId')
      BY <1>1, <2>2, <2>4, <2>5 DEF MayWrite
    <2>7. TableTyped(contacts, nextId)' /\ OwnersKept
      BY <1>1, SameTable
    <2> QED BY <2>1, <2>3, <2>6, <2>7, StepKeeps
  <1> QED BY <1>2, <1>3

LEMMA SearchKeeps ==
  ASSUME PInv, NEW s \in Slots, Search(s) \/ Details(s) \/ SearchEmail(s)
  PROVE  PInv'
  <1> DEFINE r == requests[s]
             companies == CompaniesOf(Found(r))
             details == [r EXCEPT !.stage = "details", !.companies = companies]
             rows == [r EXCEPT !.stage = "rows"]
             count == [r EXCEPT !.stage = "count", !.found = Found(r)]
  <1>1. Live(s) /\ Kept(r) /\ UNCHANGED <<contacts, nextId>>
    BY DEF Search, Details, SearchEmail, Is, PInv
  <1>2. \/ requests' = [requests EXCEPT ![s] = details]
        \/ requests' = [requests EXCEPT ![s] = rows]
        \/ requests' = [requests EXCEPT ![s] = count]
        \/ requests' = [requests EXCEPT ![s] = None]
    BY DEF Search, Details, SearchEmail, Answer, Stage
  <1>3. {"details", "rows", "count"} \subseteq Stages \ {"write"}
    BY DEF Stages
  <1>4. ASSUME NEW q \in {details, rows, count}
        PROVE  /\ q.stage \in Stages \ {"write"} /\ DOMAIN q = DOMAIN r /\ q.api = r.api
               /\ q.user = r.user /\ q.data = r.data /\ q.file = r.file
    BY <1>1, <1>3 DEF Kept, Fields
  <1>5. CASE requests' = [requests EXCEPT ![s] = None]
    BY <1>1, <1>5, SameTable, AnswerKeeps DEF PInv
  <1>6. ASSUME NEW q \in {details, rows, count}, requests' = [requests EXCEPT ![s] = q]
        PROVE  PInv'
    BY <1>1, <1>4, <1>6, GoOnKeeps
  <1> HIDE DEF details, rows, count
  <1> QED BY <1>2, <1>5, <1>6

LEMMA ArriveKeeps ==
  ASSUME PInv, Arrive
  PROVE  PInv'
  <1>1. PICK s \in Slots : \E api \in Apis : \E r \in Inputs(api) :
          requests' = [requests EXCEPT ![s] = r]
    BY DEF Arrive
  <1>2. PICK api \in Apis : \E r \in Inputs(api) : requests' = [requests EXCEPT ![s] = r]
    BY <1>1
  <1>3. PICK r \in Inputs(api) : requests' = [requests EXCEPT ![s] = r]
    BY <1>2
  <1>4. Kept(r) /\ r.stage = "query"
    BY ArrivedIs
  <1>5. MayWrite(r, contacts', nextId')
    BY <1>4 DEF MayWrite
  <1>6. TableTyped(contacts, nextId)' /\ OwnersKept
    BY SameTable DEF Arrive, PInv
  <1> QED BY <1>3, <1>4, <1>5, <1>6, StepKeeps

-----------------------------------------------------------------------------
(* The invariant holds.                                                    *)

\* The requests that only read the table.
Reads(s) ==
  Search(s) \/ Details(s) \/ SearchEmail(s) \/ List(s) \/ cticontact(s) \/ Check(s)
    \/ QueryFails(s)

LEMMA ReadsKeep ==
  ASSUME PInv, NEW s \in Slots, Reads(s)
  PROVE  PInv' /\ UNCHANGED <<contacts, nextId>>
  <1>1. CASE Search(s) \/ Details(s) \/ SearchEmail(s)
    <2>1. UNCHANGED <<contacts, nextId>>
      BY <1>1 DEF Search, Details, SearchEmail
    <2> QED BY <1>1, <2>1, SearchKeeps
  <1>2. CASE List(s)
    <2>1. UNCHANGED <<contacts, nextId>> /\ Answer(s, 200, Found(requests[s]))
      BY <1>2 DEF List
    <2> QED BY <2>1, ReadKeeps
  <1>3. CASE cticontact(s)
    <2>1. UNCHANGED <<contacts, nextId>> /\ \E code, rows : Answer(s, code, rows)
      BY <1>3 DEF cticontact
    <2> QED BY <2>1, ReadKeeps
  <1>4. CASE Check(s)
    <2>1. UNCHANGED <<contacts, nextId>>
      BY <1>4 DEF Check
    <2> QED BY <1>4, <2>1, CheckKeeps
  <1>5. CASE QueryFails(s)
    <2>1. requests' = [requests EXCEPT ![s] = None] /\ UNCHANGED <<contacts, nextId>>
      BY <1>5, QueryFailsIs
    <2> QED BY <2>1, SameTable, AnswerKeeps DEF PInv
  <1> QED BY <1>1, <1>2, <1>3, <1>4, <1>5 DEF Reads

LEMMA NextIs ==
  ASSUME NEW s \in Slots,
         \/ Search(s) \/ Details(s) \/ SearchEmail(s) \/ List(s) \/ cticontact(s) \/ create(s)
         \/ import_csv_speeddial(s) \/ speeddialsDelete(s) \/ Check(s) \/ delete_cticontact(s)
         \/ modify_cticontact(s) \/ QueryFails(s)
  PROVE  Reads(s) \/ create(s) \/ import_csv_speeddial(s) \/ speeddialsDelete(s)
           \/ delete_cticontact(s) \/ modify_cticontact(s)
  BY DEF Reads

LEMMA InitInv ==
  ASSUME Init PROVE PInv
  <1>1. DOMAIN contacts = {} /\ nextId = 1 /\ DOMAIN requests = Slots
    BY DEF Init
  <1>2. \A s \in Slots : ~Live(s)
    BY DEF Init, Live
  <1>3. TableTyped(contacts, nextId)
    BY <1>1, BoundsAssumption DEF TableTyped
  <1> QED BY <1>1, <1>2, <1>3 DEF PInv

LEMMA StepInv ==
  ASSUME PInv, [Next]_vars
  PROVE  PInv'
  <1>1. CASE UNCHANGED vars
    BY <1>1 DEF vars, PInv, TableTyped, Live
  <1>2. CASE Arrive
    BY <1>2, ArriveKeeps
  <1>3. ASSUME NEW s \in Slots, Reads(s) PROVE PInv'
    BY <1>3, ReadsKeep
  <1>4. ASSUME NEW s \in Slots, create(s) PROVE PInv'
    BY <1>4, createIs
  <1>5. ASSUME NEW s \in Slots, import_csv_speeddial(s) PROVE PInv'
    BY <1>5, importIs
  <1>6. ASSUME NEW s \in Slots, speeddialsDelete(s) PROVE PInv'
    BY <1>6, speeddialsDeleteIs
  <1>7. ASSUME NEW s \in Slots, delete_cticontact(s) PROVE PInv'
    BY <1>7, deleteIs
  <1>8. ASSUME NEW s \in Slots, modify_cticontact(s) PROVE PInv'
    BY <1>8, modifyIs
  <1> QED BY <1>1, <1>2, <1>3, <1>4, <1>5, <1>6, <1>7, <1>8, NextIs DEF Next

LEMMA Invariant == Spec => []PInv
  <1>1. Init => PInv
    BY InitInv
  <1>2. PInv /\ [Next]_vars => PInv'
    BY StepInv
  <1> QED BY <1>1, <1>2, PTL DEF Spec

\* The rows of the table have a value or the default in every column, whatever
\* the columns of a modification, the ids given out are below the next one, and
\* every request is at one of its queries.
THEOREM TypeCorrect == Spec => []TypeOK
  <1>1. PInv => TypeOK
    BY DEF PInv, TypeOK, TableTyped, Kept
  <1> QED BY <1>1, Invariant, PTL

-----------------------------------------------------------------------------
(* Who changes a contact.                                                  *)

OwnersStep ==
  \A i \in DOMAIN contacts :
    (i \in DOMAIN contacts' => contacts'[i] # contacts[i])
      => /\ \E s \in Slots :
              /\ Live(s) /\ requests'[s] = None
              /\ \/ requests[s].user \in adPhonebook \cup {contacts[i].owner_id}
                 \/ Misplaced(s, i)
         /\ i \in DOMAIN contacts' => contacts'[i].owner_id = contacts[i].owner_id

LEMMA SameOwners ==
  ASSUME \A i \in DOMAIN contacts : i \in DOMAIN contacts' /\ contacts'[i] = contacts[i]
  PROVE  OwnersStep
  BY DEF OwnersStep

LEMMA DeletedByOwner ==
  ASSUME NEW s \in Slots, Live(s), requests'[s] = None,
         \A i \in DOMAIN contacts :
           \/ i \in DOMAIN contacts' /\ contacts'[i] = contacts[i]
           \/ /\ i \notin DOMAIN contacts'
              /\ requests[s].user \in adPhonebook \cup {contacts[i].owner_id}
  PROVE  OwnersStep
  BY DEF OwnersStep

LEMMA ModifiedByOwner ==
  ASSUME PInv, NEW s \in Slots, modify_cticontact(s)
  PROVE  OwnersStep
  <1> DEFINE r == requests[s]
  <1>1. /\ OwnersKept /\ DOMAIN contacts' = DOMAIN contacts
        /\ r.data \in Modifications /\ contacts' = modifyCtiPbContact(r.data, r.id)
    BY modifyIs
  <1>2. Is(s, {"modify_cticontact"}, "write") /\ Live(s) /\ requests'[s] = None
    BY AnswerIs DEF modify_cticontact, Is
  <1>3. ASSUME NEW i \in DOMAIN contacts, contacts'[i] # contacts[i]
        PROVE  \/ r.user \in adPhonebook \cup {contacts[i].owner_id}
               \/ Misplaced(s, i)
    <2>1. CASE Partial(r.data)
      <3>1. r.data \in Data /\ TableTyped(contacts, nextId)
        BY <1>1, DataAssumption DEF PInv
      <3>2. i \in ReadAsIds(r.data)
        BY <1>1, <1>3, <2>1, <3>1, ModifyMisplaces
      <3> QED BY <1>1, <1>2, <2>1, <3>2 DEF Misplaced
    <2>2. CASE ~Partial(r.data)
      <3>1. DOMAIN r.data = ColumnNames
        BY <2>2 DEF Partial
      <3>2. i = r.id
        BY <1>1, <1>3, <3>1, ModifyIs
      <3>3. r.id \in DOMAIN contacts => r.user \in adPhonebook \cup {contacts[r.id].owner_id}
        BY Writes DEF modify_cticontact
      <3> QED BY <3>2, <3>3
    <2> QED BY <2>1, <2>2
  <1>4. \A i \in DOMAIN contacts : i < nextId
    BY BoundsAssumption DEF PInv, TableTyped
  <1>5. \A i \in DOMAIN contacts : contacts'[i].owner_id = contacts[i].owner_id
    BY <1>1, <1>4 DEF OwnersKept
  <1> HIDE DEF r
  <1> QED BY <1>1, <1>2, <1>3, <1>5 DEF OwnersStep, r

LEMMA OwnersChange ==
  ASSUME PInv, [Next]_vars
  PROVE  OwnersStep
  <1>1. CASE UNCHANGED <<contacts, nextId>>
    BY <1>1, SameOwners
  <1>2. CASE Arrive \/ UNCHANGED vars
    BY <1>1, <1>2 DEF Arrive, vars
  <1>3. ASSUME NEW s \in Slots, Reads(s) PROVE OwnersStep
    BY <1>1, <1>3, ReadsKeep
  <1>4. ASSUME NEW s \in Slots, create(s) PROVE OwnersStep
    BY <1>4, createIs, SameOwners
  <1>5. ASSUME NEW s \in Slots, import_csv_speeddial(s) PROVE OwnersStep
    BY <1>5, importIs, SameOwners
  <1>6. ASSUME NEW s \in Slots, speeddialsDelete(s) PROVE OwnersStep
    <2>1. Live(s) /\ requests'[s] = None
      BY <1>6, AnswerIs DEF speeddialsDelete, Is
    <2> QED BY <1>6, <2>1, speeddialsDeleteIs, DeletedByOwner
  <1>7. ASSUME NEW s \in Slots, delete_cticontact(s) PROVE OwnersStep
    <2>1. Live(s) /\ requests'[s] = None
      BY <1>7, AnswerIs DEF delete_cticontact, Is
    <2> QED BY <1>7, <2>1, deleteIs, DeletedByOwner
  <1>8. ASSUME NEW s \in Slots, modify_cticontact(s) PROVE OwnersStep
    BY <1>8, ModifiedByOwner
  <1> QED BY <1>2, <1>3, <1>4, <1>5, <1>6, <1>7, <1>8, NextIs DEF Next

\* Whatever requests run beside each other between the query that says whose a
\* contact is and the one that changes it, a contact goes only by a request of its
\* owner or of who may change every contact, and changes only by one of theirs or
\* by a modification without some columns that reads its id in a value sent; it
\* keeps its owner (delete_cticontact, modify_cticontact, delete_speeddials of
\* com_phonebook_rest).
THEOREM OwnersOnlyChange == Spec => OnlyOwnersChange
  <1>1. PInv /\ [Next]_vars => OwnersStep
    BY OwnersChange
  <1>2. PInv /\ [Next]_vars =>
          [\A i \in DOMAIN contacts :
             (i \in DOMAIN contacts' => contacts'[i] # contacts[i])
               => /\ \E s \in Slots :
                       /\ Live(s) /\ requests'[s] = None
                       /\ \/ requests[s].user \in adPhonebook \cup {contacts[i].owner_id}
                          \/ Misplaced(s, i)
                  /\ i \in DOMAIN contacts' =>
                       contacts'[i].owner_id = contacts[i].owner_id]_vars
    BY <1>1 DEF OwnersStep
  <1> QED BY <1>2, Invariant, PTL DEF Spec, OnlyOwnersChange

-----------------------------------------------------------------------------
(* What a modification does.                                               *)

FaithfulStep ==
  \A s \in Slots : Modified(s) =>
    IF Partial(requests[s].data)
    THEN /\ DOMAIN contacts' = DOMAIN contacts
         /\ \A i \in DOMAIN contacts \ ReadAsIds(requests[s].data) : contacts'[i] = contacts[i]
    ELSE AsSent(s)

\* No other step answers a modification 200.
LEMMA NotModified ==
  ASSUME NEW s \in Slots, \A t \in Slots \ {s} : requests'[t] = requests[t],
         ~Is(s, {"modify_cticontact"}, "write") \/ answer' = None \/ answer'.code # 200
  PROVE  FaithfulStep
  <1>1. ASSUME NEW t \in Slots, Modified(t)
        PROVE  t = s
    BY <1>1 DEF Modified, Is, Live
  <1>2. \A t \in Slots : ~Modified(t)
    BY <1>1 DEF Modified
  <1> QED BY <1>2 DEF FaithfulStep

LEMMA ModifiedIs ==
  ASSUME PInv, NEW s \in Slots, modify_cticontact(s)
  PROVE  FaithfulStep
  <1> DEFINE r == requests[s]
  <1>1. /\ r.data \in Modifications /\ contacts' = modifyCtiPbContact(r.data, r.id)
        /\ DOMAIN contacts' = DOMAIN contacts
    BY modifyIs
  <1>2. IF Partial(r.data)
        THEN /\ DOMAIN contacts' = DOMAIN contacts
             /\ \A i \in DOMAIN contacts \ ReadAsIds(r.data) : contacts'[i] = contacts[i]
        ELSE AsSent(s)
    <2>1. Partial(r.data) =>
            \A i \in DOMAIN contacts \ ReadAsIds(r.data) : contacts'[i] = contacts[i]
      <3> SUFFICES ASSUME Partial(r.data), NEW i \in DOMAIN contacts \ ReadAsIds(r.data)
                   PROVE  contacts'[i] = contacts[i]
        OBVIOUS
      <3>1. r.data \in Data /\ TableTyped(contacts, nextId)
        BY <1>1, DataAssumption DEF PInv
      <3> QED BY <1>1, <3>1, ModifyMisplaces
    <2>2. ~Partial(r.data) => AsSent(s)
      BY <1>1, ModifyIs DEF AsSent, Partial
    <2> QED BY <1>1, <2>1, <2>2
  <1>3. \A t \in Slots \ {s} : requests'[t] = requests[t]
    BY AnswerIs DEF modify_cticontact
  <1>4. ASSUME NEW t \in Slots, Modified(t)
        PROVE  t = s
    BY <1>3, <1>4 DEF Modified, Is, Live
  <1> QED BY <1>2, <1>4 DEF FaithfulStep

LEMMA ReadsModifyNothing ==
  ASSUME PInv, NEW s \in Slots, Reads(s)
  PROVE  FaithfulStep
  <1>1. \A t \in Slots \ {s} : requests'[t] = requests[t]
    <2>1. CASE QueryFails(s)
      BY <2>1, QueryFailsIs DEF PInv
    <2>2. CASE ~QueryFails(s)
      BY <2>2 DEF Reads, Search, Details, SearchEmail, List, cticontact, Check, Stage, Answer,
                  PInv
    <2> QED BY <2>1, <2>2
  <1>2. CASE QueryFails(s)
    <2>1. answer' = None \/ answer'.code = 500
      BY <1>2, QueryFailsIs
    <2> QED BY <1>1, <2>1, NotModified
  <1>3. CASE ~QueryFails(s)
    <2>1. ~Is(s, {"modify_cticontact"}, "write")
      BY <1>3 DEF Reads, Search, Details, SearchEmail, List, cticontact, Check, Is, Searches
    <2> QED BY <1>1, <2>1, NotModified
  <1> QED BY <1>2, <1>3

LEMMA ModificationsAreFaithful ==
  ASSUME PInv, [Next]_vars
  PROVE  FaithfulStep
  <1>1. CASE UNCHANGED vars
    BY <1>1 DEF vars, Is, Live, Modified, FaithfulStep
  <1>2. CASE Arrive
    <2>1. answer' = None
      BY <1>2 DEF Arrive
    <2> QED BY <2>1 DEF Modified, FaithfulStep
  <1>3. ASSUME NEW s \in Slots, Reads(s) PROVE FaithfulStep
    BY <1>3, ReadsModifyNothing
  <1>4. ASSUME NEW s \in Slots,
               create(s) \/ import_csv_speeddial(s) \/ speeddialsDelete(s) \/ delete_cticontact(s)
        PROVE  FaithfulStep
    <2>1. \E code : Answer(s, code, Nothing)
      BY <1>4 DEF create, import_csv_speeddial, speeddialsDelete, delete_cticontact
    <2>2. \A t \in Slots \ {s} : requests'[t] = requests[t]
      BY <2>1, AnswerIs
    <2>3. ~Is(s, {"modify_cticontact"}, "write")
      BY <1>4 DEF create, import_csv_speeddial, speeddialsDelete, delete_cticontact, Is
    <2> QED BY <2>2, <2>3, NotModified
  <1>5. ASSUME NEW s \in Slots, modify_cticontact(s) PROVE FaithfulStep
    BY <1>5, ModifiedIs
  <1> QED BY <1>1, <1>2, <1>3, <1>4, <1>5, NextIs DEF Next

\* A modification of every column that is answered 200 gave its values to the
\* columns and changed nothing else, though each value finds its column only by
\* its place among the placeholders; one without some columns changed no contact
\* but those whose id is read in a value sent (modifyCtiPbContact of
\* dbconn_phonebook).
THEOREM ModificationsFaithful == Spec => ModifyIsFaithful
  <1>1. PInv /\ [Next]_vars => FaithfulStep
    BY ModificationsAreFaithful
  <1>2. PInv /\ [Next]_vars =>
          [\A s \in Slots : Modified(s) =>
             IF Partial(requests[s].data)
             THEN /\ DOMAIN contacts' = DOMAIN contacts
                  /\ \A i \in DOMAIN contacts \ ReadAsIds(requests[s].data) :
                       contacts'[i] = contacts[i]
             ELSE AsSent(s)]_vars
    BY <1>1 DEF FaithfulStep
  <1> QED BY <1>2, Invariant, PTL DEF Spec, ModifyIsFaithful
=============================================================================
