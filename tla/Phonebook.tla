----------------------------- MODULE Phonebook -----------------------------
(***************************************************************************)
(* The phonebook of the users: the REST requests of com_phonebook_rest,    *)
(* the component phonebook and the queries of dbconn_phonebook on the      *)
(* table cti_phonebook and on the centralized phonebook, which nethcti     *)
(* only reads.                                                             *)
(*                                                                         *)
(* Requests of several users run beside each other: one that changes a     *)
(* contact first reads whose it is, and changes it in a later query.       *)
(* A query of the database runs and calls back in one step here: the       *)
(* callback sends the next query, and what other requests do between the   *)
(* two is what they do between the two queries.                            *)
(***************************************************************************)
EXTENDS Naturals, Sequences, FiniteSets

CONSTANTS Users,
          adPhonebook,     \* the users with the permission ad_phonebook
          phonebookUsers,  \* those with the permission phonebook
          Texts,           \* the values of a column
          Null,            \* the value of a column nobody wrote
          TextAsId,        \* the number the database reads a text as
          Containing,      \* the texts a term is contained in
          Starting,        \* the texts that start with a term
          Digit,           \* the texts that start with a digit
          Centralized,     \* the rows of the centralized phonebook
          Modifications,   \* the columns and values a modification can have
          Imports,         \* the files that can be imported
          Slots,           \* the requests under way at once
          MaxId,           \* bound on the contacts that are created
          None

\* The columns in the order the modification lists them, with one for each
\* kind of use; the others are like one of these.
Columns == <<"type", "name", "workemail", "workphone", "company">>
ColumnNames == {Columns[i] : i \in DOMAIN Columns}
Terms == DOMAIN Containing
Ids == 1..MaxId
\* The columns a request or a line of a file has, with their values.
Data == UNION {[D -> Texts] : D \in SUBSET ColumnNames}

ASSUME UsersAssumption ==
  adPhonebook \subseteq Users /\ phonebookUsers \subseteq Users
ASSUME TextsAssumption ==
  /\ {"", "private", "public", "speeddial", "nethcti"} \subseteq Texts
  /\ Null \notin Texts
  /\ TextAsId \in [Texts -> Nat]
  /\ TextAsId[""] = 0
  /\ Digit \subseteq Texts
ASSUME TermsAssumption ==
  /\ Containing \in [Terms -> SUBSET Texts]
  /\ Starting \in [Terms -> SUBSET Texts]
ASSUME DataAssumption == Modifications \subseteq Data /\ Imports \subseteq Seq(Data)
ASSUME BoundsAssumption == MaxId \in Nat /\ None \notin Users

Row == [owner_id : Users, type : Texts, name : Texts \cup {Null}, workemail : Texts \cup {Null},
        workphone : Texts \cup {Null}, company : Texts \cup {Null}]

VARIABLES contacts,   \* the table cti_phonebook, by id
          nextId,     \* its AUTO_INCREMENT
          requests,   \* the request of every slot, or None
          answer      \* the answer a client has in this step, or None

vars == <<contacts, nextId, requests, answer>>

Live(s) == requests[s] # None

----------------------------------------------------------------------------
(* The queries of dbconn_phonebook, on the table as it is.                 *)

Own(u) == {i \in DOMAIN contacts : contacts[i].owner_id = u}
OwnOrPublic(u) == {i \in DOMAIN contacts : contacts[i].owner_id = u \/ contacts[i].type = "public"}
SpeedDials == {i \in DOMAIN contacts : contacts[i].type = "speeddial"}

\* The columns a view looks at; with no view both are.
Sview(view) == CASE view = "person" -> {"name"} [] view = "company" -> {"company"}
                 [] OTHER -> {"name", "company"}
In(row, columns, texts) == \E c \in columns : row[c] \in texts

\* The rows of the two tables a search finds.
CtiMatching(u, columns, texts) == {i \in OwnOrPublic(u) : In(contacts[i], columns, texts)}
CentralMatching(columns, texts) ==
  {r \in Centralized : r.type # "nethcti" /\ In(r, columns, texts)}

getAllContactsContains(u, term, view) ==
  LET columns == Sview(view) \cup {"workphone"} IN
  [cti |-> CtiMatching(u, columns, Containing[term]),
   central |-> CentralMatching(columns, Containing[term])]
getAllContactsStartsWith(u, term, view) ==
  [cti |-> CtiMatching(u, Sview(view), Starting[term]),
   central |-> CentralMatching(Sview(view), Starting[term])]
getAllContactsStartsWithDigit(u) ==
  [cti |-> CtiMatching(u, {"name", "company"}, Digit),
   central |-> CentralMatching({"name", "company"}, Digit)]
HasText(row, c) == row[c] # Null /\ row[c] # ""
getEmailAllContactsContains(u, term) ==
  LET columns == {"name", "company", "workemail", "workphone"} IN
  [cti |-> {i \in CtiMatching(u, columns, Containing[term]) : HasText(contacts[i], "workemail")},
   central |-> {r \in CentralMatching(columns, Containing[term]) : HasText(r, "workemail")}]
getAllContactsAlphabetically(u) ==
  LET Named(row) == HasText(row, "name") \/ HasText(row, "company") IN
  [cti |-> {i \in OwnOrPublic(u) \ SpeedDials : Named(contacts[i])},
   central |-> {r \in Centralized : r.type # "nethcti" /\ Named(r)}]
getCtiPbSpeeddialContacts(u) == Own(u) \cap SpeedDials

\* The searches leave the speed dials out.
getAllContacts(found) == [found EXCEPT !.cti = @ \ SpeedDials]
\* The view by company: a row for every company, one for those without.
CompaniesOf(found) ==
  {contacts[i].company : i \in found.cti \ SpeedDials} \cup {r.company : r \in found.central}
\* What the second group of queries finds of a company: the contact without a
\* name gives its data, those with a name are its contacts.
ofCompany(u, company) ==
  {i \in OwnOrPublic(u) \ SpeedDials : company # Null /\ contacts[i].company = company}

\* INSERT for the user u: the columns without a value keep their default.
Saved(u, data) ==
  [c \in ColumnNames \cup {"owner_id"} |->
     IF c = "owner_id" THEN u ELSE IF c \in DOMAIN data /\ data[c] # "" THEN data[c] ELSE Null]
Insert(u, rows) ==
  /\ nextId + Len(rows) <= MaxId + 1
  /\ contacts' = [i \in DOMAIN contacts \cup nextId..(nextId + Len(rows) - 1) |->
                    IF i < nextId THEN contacts[i] ELSE Saved(u, rows[i - nextId + 1])]
  /\ nextId' = nextId + Len(rows)

\* DELETE and its WHERE.
Delete(ids) == contacts' = [i \in DOMAIN contacts \ ids |-> contacts[i]] /\ UNCHANGED nextId

\* A mistake: an empty value is taken for a column that is not sent.
PlaceholdersFull(data) ==
  {k \in DOMAIN Columns : Columns[k] \in DOMAIN data /\ data[Columns[k]] # ""}
\* UPDATE: a placeholder for each column of the modification, and a value for
\* every column, empty for those it does not have, before the id.
Placeholders(data) == {k \in DOMAIN Columns : Columns[k] \in DOMAIN data}
ValueOf(data, k) == IF Columns[k] \in DOMAIN data THEN data[Columns[k]] ELSE ""
\* The values go to the placeholders in order, so the columns after one that
\* is not there get the values of others, and so does the id.
modifyCtiPbContact(data, id) ==
  LET set == Placeholders(data)
      value(k) == ValueOf(data, Cardinality({j \in set : j <= k}))
      where == IF set = DOMAIN Columns THEN id ELSE TextAsId[ValueOf(data, Cardinality(set) + 1)]
  IN [i \in DOMAIN contacts |->
        IF i # where THEN contacts[i]
        ELSE [c \in DOMAIN contacts[i] |->
                IF \E k \in set : Columns[k] = c
                THEN value(CHOOSE k \in set : Columns[k] = c)
                ELSE contacts[i][c]]]

----------------------------------------------------------------------------
(* The requests.  Those with wrong parameters are answered 400 and do       *)
(* nothing else; the others arrive here, and send their first query.        *)
Searches == {"search", "searchstartswith", "searchstartswith_digit"}
Views == {"all", "person", "company"}
OnContact == {"cticontact", "delete_cticontact", "modify_cticontact"}
Apis == Searches \cup OnContact
          \cup {"searchemail", "getall", "speeddials", "delete_speeddials", "create",
                "import_csv_speeddial"}
Creations == {d \in Modifications : {"type", "name"} \subseteq DOMAIN d
                                      /\ d["type"] \in {"private", "public", "speeddial"}}
Nothing == [cti |-> {}, central |-> {}]
Among(api, those, S) == IF api \in those THEN S ELSE {None}
Inputs(api) ==
  [api : {api}, user : Users, stage : {"query"}, found : {Nothing}, companies : {{}},
   term : Among(api, {"search", "searchstartswith", "searchemail"}, Terms),
   view : Among(api, Searches, Views),
   id : Among(api, OnContact, Ids),
   data : CASE api = "create" -> Creations
            [] api = "modify_cticontact" -> Modifications
            [] OTHER -> {None},
   file : Among(api, {"import_csv_speeddial"}, Imports)]
Stages == {"query", "details", "rows", "count", "write"}

Answer(s, code, rows) ==
  /\ requests' = [requests EXCEPT ![s] = None]
  /\ answer' = [code |-> code, rows |-> rows]
Stage(s, stage) ==
  /\ requests' = [requests EXCEPT ![s].stage = stage]
  /\ answer' = None

Init ==
  /\ contacts = [i \in {} |-> None]
  /\ nextId = 1
  /\ requests = [s \in Slots |-> None]
  /\ answer = None

Arrive ==
  \E s \in Slots : \E api \in Apis : \E r \in Inputs(api) :
    /\ ~Live(s)
    /\ requests' = [requests EXCEPT ![s] = r]
    /\ answer' = None
    /\ UNCHANGED <<contacts, nextId>>

Is(s, apis, stage) == Live(s) /\ requests[s].api \in apis /\ requests[s].stage = stage

\* What the query of a request finds now.
Found(r) ==
  CASE r.api = "search" -> getAllContactsContains(r.user, r.term, r.view)
    [] r.api = "searchstartswith" -> getAllContactsStartsWith(r.user, r.term, r.view)
    [] r.api = "searchstartswith_digit" -> getAllContactsStartsWithDigit(r.user)
    [] r.api = "searchemail" -> getEmailAllContactsContains(r.user, r.term)
    [] r.api = "getall" -> getAllContactsAlphabetically(r.user)
    [] r.api = "speeddials" -> [Nothing EXCEPT !.cti = getCtiPbSpeeddialContacts(r.user)]

\* The view by company goes on with two queries for every company found.
Search(s) ==
  /\ Is(s, Searches, "query")
  /\ LET r == requests[s]
         companies == CompaniesOf(Found(r))
     IN IF r.view = "company" /\ companies # {}
        THEN /\ requests' = [requests EXCEPT ![s].stage = "details", ![s].companies = companies]
             /\ answer' = None
        ELSE Answer(s, 200, getAllContacts(Found(r)))
  /\ UNCHANGED <<contacts, nextId>>
Details(s) ==
  /\ Is(s, Searches, "details")
  /\ LET r == requests[s] IN
     Answer(s, 200, [cti |-> UNION {ofCompany(r.user, c) : c \in r.companies},
                     central |-> {row \in Centralized : row.type # "nethcti"
                                                          /\ row.company \in r.companies \ {Null}}])
  /\ UNCHANGED <<contacts, nextId>>

\* Three queries, each sent by the callback of the one before: a setting of
\* the connection, the rows, and their count.
SearchEmail(s) ==
  /\ \/ Is(s, {"searchemail"}, "query") /\ Stage(s, "rows")
     \/ /\ Is(s, {"searchemail"}, "rows")
        /\ requests' = [requests EXCEPT ![s].stage = "count", ![s].found = Found(requests[s])]
        /\ answer' = None
     \/ Is(s, {"searchemail"}, "count") /\ Answer(s, 200, requests[s].found)
  /\ UNCHANGED <<contacts, nextId>>

List(s) ==
  /\ Is(s, {"getall", "speeddials"}, "query")
  /\ Answer(s, 200, Found(requests[s]))
  /\ UNCHANGED <<contacts, nextId>>

\* A contact that is not there is an empty answer.
cticontact(s) ==
  /\ Is(s, {"cticontact"}, "query")
  /\ LET r == requests[s] IN
     IF r.id \in DOMAIN contacts \ OwnOrPublic(r.user)
     THEN Answer(s, 403, Nothing)
     ELSE Answer(s, 200, [Nothing EXCEPT !.cti = {r.id} \cap DOMAIN contacts])
  /\ UNCHANGED <<contacts, nextId>>

create(s) ==
  /\ Is(s, {"create"}, "query")
  /\ Insert(requests[s].user, <<requests[s].data>>)
  /\ Answer(s, 201, Nothing)

\* The rows are inserted in parallel, and the ones that fail are not told of.
SpeedDial(data) ==
  [c \in DOMAIN data \cup {"type"} |-> IF c = "type" THEN "speeddial" ELSE data[c]]
import_csv_speeddial(s) ==
  /\ Is(s, {"import_csv_speeddial"}, "query")
  /\ LET r == requests[s] IN
     IF r.user \notin phonebookUsers
     THEN Answer(s, 403, Nothing) /\ UNCHANGED <<contacts, nextId>>
     ELSE /\ \E n \in 0..Len(r.file) : \E line \in [1..n -> DOMAIN r.file] :
               /\ \A i, j \in 1..n : i < j => line[i] < line[j]
               /\ Insert(r.user, [k \in 1..n |-> SpeedDial(r.file[line[k]])])
          /\ Answer(s, 200, Nothing)

speeddialsDelete(s) ==
  /\ Is(s, {"delete_speeddials"}, "query")
  /\ Delete(getCtiPbSpeeddialContacts(requests[s].user))
  /\ Answer(s, 200, Nothing)

\* A mistake: a public contact is everybody's.
MayChangePublic(r) ==
  /\ r.id \in DOMAIN contacts
  /\ r.id \in OwnOrPublic(r.user) \/ r.user \in adPhonebook
\* To delete and to modify: the contact is there, and is the user's or the
\* user has the permission on every contact.
MayChange(r) ==
  /\ r.id \in DOMAIN contacts
  /\ contacts[r.id].owner_id = r.user \/ r.user \in adPhonebook
Check(s) ==
  /\ Is(s, {"delete_cticontact", "modify_cticontact"}, "query")
  /\ IF MayChange(requests[s]) THEN Stage(s, "write") ELSE Answer(s, 403, Nothing)
  /\ UNCHANGED <<contacts, nextId>>
delete_cticontact(s) ==
  /\ Is(s, {"delete_cticontact"}, "write")
  /\ Delete({requests[s].id})
  /\ Answer(s, 200, Nothing)
\* Without a column the UPDATE sets nothing and can only fail: QueryFails.
modify_cticontact(s) ==
  /\ Is(s, {"modify_cticontact"}, "write")
  /\ Placeholders(requests[s].data) # {}
  /\ contacts' = modifyCtiPbContact(requests[s].data, requests[s].id)
  /\ UNCHANGED nextId
  /\ Answer(s, 200, Nothing)

\* A query fails: 500 to the client, except for the searches, whose promise
\* has nobody to tell.
QueryFails(s) ==
  /\ Live(s)
  /\ IF requests[s].api \in Searches
     THEN requests' = [requests EXCEPT ![s] = None] /\ answer' = None
     ELSE Answer(s, 500, Nothing)
  /\ UNCHANGED <<contacts, nextId>>

Next ==
  \/ Arrive
  \/ \E s \in Slots :
       \/ Search(s) \/ Details(s) \/ SearchEmail(s) \/ List(s) \/ cticontact(s) \/ create(s)
       \/ import_csv_speeddial(s) \/ speeddialsDelete(s) \/ Check(s) \/ delete_cticontact(s)
       \/ modify_cticontact(s) \/ QueryFails(s)

Spec == Init /\ [][Next]_vars

----------------------------------------------------------------------------
(* Properties.                                                             *)

\* The rows have a value or the default in every column, the ids given out are
\* below the AUTO_INCREMENT, and the requests are at one of their queries.
TypeOK ==
  /\ nextId \in 1..(MaxId + 1)
  /\ DOMAIN contacts \subseteq 1..(nextId - 1)
  /\ \A i \in DOMAIN contacts : contacts[i] \in Row
  /\ \A s \in Slots : Live(s) => requests[s].api \in Apis /\ requests[s].stage \in Stages

\* The contacts a modification without some columns may change in the place of
\* its own: those whose id the database reads in one of the values sent.
ReadAsIds(data) == {TextAsId[data[c]] : c \in DOMAIN data}
Partial(data) == DOMAIN data # ColumnNames
Misplaced(s, i) ==
  /\ Is(s, {"modify_cticontact"}, "write") /\ i \in DOMAIN contacts'
  /\ Partial(requests[s].data) /\ i \in ReadAsIds(requests[s].data)

\* Whatever the requests under way have read before, a contact goes only by a
\* request of its owner, or of who may change every contact, and changes only by
\* one of theirs or by a modification without some columns whose values name it
\* by mistake; it keeps its owner whatever is sent.
OnlyOwnersChange ==
  [][\A i \in DOMAIN contacts :
       (i \in DOMAIN contacts' => contacts'[i] # contacts[i])
         => /\ \E s \in Slots :
                 /\ Live(s) /\ requests'[s] = None
                 /\ \/ requests[s].user \in adPhonebook \cup {contacts[i].owner_id}
                    \/ Misplaced(s, i)
            /\ i \in DOMAIN contacts' => contacts'[i].owner_id = contacts[i].owner_id]_vars

\* What the documentation of the request says: the columns are optional, and the
\* ones sent become the contact's, which is the only one that changes.
AsSent(s) ==
  contacts' = [i \in DOMAIN contacts |->
                 IF i = requests[s].id
                 THEN [c \in DOMAIN contacts[i] |->
                         IF c \in DOMAIN requests[s].data THEN requests[s].data[c]
                         ELSE contacts[i][c]]
                 ELSE contacts[i]]
Modified(s) ==
  /\ Is(s, {"modify_cticontact"}, "write")
  /\ requests'[s] = None /\ answer' # None /\ answer'.code = 200

\* A modification of every column that is answered 200 did what it says, though
\* each value finds its column only by its place; one without some columns
\* changed no contact but those its values name by mistake.
ModifyIsFaithful ==
  [][\A s \in Slots : Modified(s) =>
       IF Partial(requests[s].data)
       THEN /\ DOMAIN contacts' = DOMAIN contacts
            /\ \A i \in DOMAIN contacts \ ReadAsIds(requests[s].data) : contacts'[i] = contacts[i]
       ELSE AsSent(s)]_vars

\* What the documentation says of every modification ("[name]: the name of the
\* contact"): the code loses those without some columns.
ModifyIsAsDocumented == [][\A s \in Slots : Modified(s) => AsSent(s)]_vars
=============================================================================
