---------------------------- MODULE MCPhonebook ----------------------------
EXTENDS Phonebook, TLC

CONSTANTS ann, joe, s1, s2

\* "2" is the name of a contact, and reads as the number of another.
MCTexts == {"", "private", "public", "speeddial", "nethcti", "Bob", "2"}
MCTextAsId == [t \in MCTexts |-> IF t = "2" THEN 2 ELSE 0]
MCContaining == "o" :> {"Bob"}
MCStarting == "o" :> {}
MCSymmetry == Permutations(Slots)

Contact(type, name, mail, phone, company) ==
  [type |-> type, name |-> name, workemail |-> mail, workphone |-> phone, company |-> company]
MCCentralized == {Contact("nethcti", "Bob", "Bob", "", "Bob"), Contact("", "Bob", "Bob", "2", "2")}
\* What the clients send: every column.
WholeContacts == {Contact("private", "Bob", "", "", ""), Contact("public", "2", "Bob", "", "Bob"),
                  Contact("speeddial", "Bob", "Bob", "", "")}
\* Some columns: the values before a missing one are too few, so that the id is
\* read in a value that is sent, or in an empty one; or nothing is set.
SomeColumns == {"type" :> "private" @@ "workemail" :> "2", "company" :> "Bob", <<>>}
AllModifications == WholeContacts \cup SomeColumns
MCImports == {<<"name" :> "Bob", "name" :> "2">>}
=============================================================================
