--------------------------- MODULE WarehouseProofs ---------------------------
(***************************************************************************)
(* Proofs about Warehouse, for any names, tables and bounds.               *)
(***************************************************************************)
EXTENDS Warehouse, SequenceTheorems, TLAPS

---------------------------------------------------------------------------
(* Names.                                                                  *)

\* Sanitizing keeps the length of a name and leaves only characters of
\* identifiers.
LEMMA SanitizeType ==
    ASSUME NEW name \in Seq(Chars)
    PROVE  /\ Sanitize(name) \in Seq(Alnum \cup {Under})
           /\ Len(Sanitize(name)) = Len(name)
<1> DEFINE n == Len(name)
<1>1. n \in Nat /\ DOMAIN name = 1..n
  OBVIOUS
<1>2. Sanitize(name) \in [1..n -> Alnum \cup {Under}]
  BY <1>1 DEF Sanitize
<1> QED  BY <1>1, <1>2

\* A prefix is a sequence of characters.
LEMMA PrefixType ==
    ASSUME NEW target \in Targets
    PROVE  Prefix(target) \in Seq(Chars)
<1>1. target.name \in Seq(Chars)
  BY NameAssumption DEF Targets
<1>2. Sanitize(target.name) \in Seq(Chars)
  BY <1>1, SanitizeType, NameAssumption
<1> QED  BY <1>2, NameAssumption DEF Prefix

\* Of two beginnings of one sequence the shorter is the beginning of the longer.
LEMMA BeginningsNest ==
    ASSUME NEW p \in Seq(Chars), NEW q \in Seq(Chars),
           NEW x \in Seq(Chars), NEW y \in Seq(Chars),
           p \o x = q \o y, Len(p) <= Len(q)
    PROVE  IsPrefix(p, q)
<1>1. SubSeq(p \o x, 1, Len(p)) = SubSeq(p, 1, Len(p))
  BY SubSeqOfConcat1
<1>2. SubSeq(q \o y, 1, Len(p)) = SubSeq(q, 1, Len(p))
  BY SubSeqOfConcat1
<1> QED  BY <1>1, <1>2 DEF IsPrefix

\* A name in the catalog is as long as it was.
LEMMA InCatalogType ==
    ASSUME NEW name \in Seq(Chars)
    PROVE  /\ InCatalog(name) \in Seq(Chars)
           /\ Len(InCatalog(name)) = Len(name)
           /\ \A i \in 1..Len(name) : InCatalog(name)[i] = Lower[name[i]]
<1>1. Len(name) \in Nat /\ DOMAIN name = 1..Len(name)
  OBVIOUS
<1>2. \A i \in 1..Len(name) : Lower[name[i]] \in Chars
  BY NameAssumption
<1>3. InCatalog(name) \in [1..Len(name) -> Chars]
  BY <1>1, <1>2 DEF InCatalog
<1> QED  BY <1>1, <1>3 DEF InCatalog

\* The catalog lowers each part of a name by itself.
LEMMA InCatalogConcat ==
    ASSUME NEW p \in Seq(Chars), NEW x \in Seq(Chars)
    PROVE  InCatalog(p \o x) = InCatalog(p) \o InCatalog(x)
<1> DEFINE px == p \o x
           P == InCatalog(p)
           X == InCatalog(x)
           PX == InCatalog(px)
<1>1. /\ px \in Seq(Chars) /\ Len(px) = Len(p) + Len(x)
      /\ Len(p) \in Nat /\ Len(x) \in Nat
      /\ \A i \in 1..Len(p) : px[i] = p[i]
      /\ \A i \in 1..Len(px) : i > Len(p) => px[i] = x[i - Len(p)]
  OBVIOUS
<1>2. /\ P \in Seq(Chars) /\ Len(P) = Len(p)
      /\ X \in Seq(Chars) /\ Len(X) = Len(x)
      /\ PX \in Seq(Chars) /\ Len(PX) = Len(px)
  BY <1>1, InCatalogType
<1>3. /\ \A i \in 1..Len(p) : P[i] = Lower[p[i]]
      /\ \A i \in 1..Len(x) : X[i] = Lower[x[i]]
      /\ \A i \in 1..Len(px) : PX[i] = Lower[px[i]]
  BY <1>1, InCatalogType
<1> HIDE DEF px, P, X, PX
<1>4. P \o X \in Seq(Chars) /\ Len(P \o X) = Len(px)
  <2>1. P \in Seq(Chars) /\ X \in Seq(Chars)
    BY <1>2
  <2>2. P \o X \in Seq(Chars) /\ Len(P \o X) = Len(P) + Len(X)
    BY <2>1, ConcatProperties
  <2> QED  BY <1>1, <1>2, <2>2
<1>5. ASSUME NEW i \in 1..Len(px) PROVE PX[i] = (P \o X)[i]
  <2>1. CASE i <= Len(p)
    <3>1. i \in 1..Len(p) /\ (P \o X)[i] = P[i]
      BY <1>1, <1>2, <2>1
    <3>2. px[i] = p[i]
      BY <1>1, <3>1
    <3>3. PX[i] = Lower[px[i]]
      BY <1>3
    <3>4. P[i] = Lower[p[i]]
      BY <1>3, <3>1
    <3> QED  BY <3>1, <3>2, <3>3, <3>4
  <2>2. CASE i > Len(p)
    <3>1. i - Len(p) \in 1..Len(x) /\ (P \o X)[i] = X[i - Len(p)]
      BY <1>1, <1>2, <2>2
    <3>2. px[i] = x[i - Len(p)]
      BY <1>1, <2>2
    <3>3. PX[i] = Lower[px[i]]
      BY <1>3
    <3>4. X[i - Len(p)] = Lower[x[i - Len(p)]]
      BY <1>3, <3>1
    <3> QED  BY <3>1, <3>2, <3>3, <3>4
  <2>3. i <= Len(p) \/ i > Len(p)
    BY <1>1
  <2> QED  BY <2>1, <2>2, <2>3
<1>6. PX = P \o X
  BY <1>2, <1>4, <1>5, SeqEqual
<1> QED  BY <1>6 DEF PX, P, X, px

\* Two targets that get one name clash: create_namespace_if_not_exists makes one
\* database for two targets only if the prefix of one begins the other's, in the
\* lower case of the metastore.
LEMMA SameNameClashes ==
    ASSUME NEW t \in Targets, NEW u \in Targets, NEW b \in Bases, NEW c \in Bases,
           InCatalog(Qualified(t, b)) = InCatalog(Qualified(u, c))
    PROVE  Clash(t, u)
<1> DEFINE p == InCatalog(Prefix(t))
           q == InCatalog(Prefix(u))
           x == InCatalog(b)
           y == InCatalog(c)
<1>1. /\ Prefix(t) \in Seq(Chars) /\ Prefix(u) \in Seq(Chars)
      /\ b \in Seq(Chars) /\ c \in Seq(Chars)
  BY PrefixType, NameAssumption
<1>2. p \in Seq(Chars) /\ q \in Seq(Chars) /\ x \in Seq(Chars) /\ y \in Seq(Chars)
  BY <1>1, InCatalogType
<1>3. p \o x = q \o y
  <2>1. InCatalog(Prefix(t) \o b) = p \o x /\ InCatalog(Prefix(u) \o c) = q \o y
    BY <1>1, InCatalogConcat
  <2> HIDE DEF p, q, x, y
  <2> QED  BY <2>1 DEF Qualified
<1> HIDE DEF p, q, x, y
<1>4. Len(p) \in Nat /\ Len(q) \in Nat
  BY <1>2
<1>5. Len(p) <= Len(q) => IsPrefix(p, q)
  BY <1>2, <1>3, BeginningsNest
<1>6. Len(q) <= Len(p) => IsPrefix(q, p)
  BY <1>2, <1>3, BeginningsNest
<1> QED  BY <1>4, <1>5, <1>6 DEF Clash, p, q

\* A name without underscores or marks is what sanitizing makes of it.
LEMMA SanitizePlain ==
    ASSUME NEW name \in Seq(Alnum)
    PROVE  Sanitize(name) = name
<1>1. name \in [1..Len(name) -> Alnum]
  OBVIOUS
<1> QED  BY <1>1 DEF Sanitize

\* The prefix of a plain name in the catalog: letters and digits, then an underscore.
LEMMA PlainPrefixInCatalog ==
    ASSUME NEW t \in Targets, t.name \in Seq(Alnum)
    PROVE  /\ InCatalog(Prefix(t)) \in Seq(Chars)
           /\ Len(InCatalog(Prefix(t))) = Len(t.name) + 1
           /\ \A i \in 1..Len(t.name) :
                 /\ InCatalog(Prefix(t))[i] = InCatalog(t.name)[i]
                 /\ InCatalog(Prefix(t))[i] \in Alnum
           /\ InCatalog(Prefix(t))[Len(t.name) + 1] = Under
<1>1. Prefix(t) = Append(t.name, Under) /\ Prefix(t) \in Seq(Chars)
  BY SanitizePlain, PrefixType DEF Prefix
<1>2. /\ Len(t.name) \in Nat /\ Len(Prefix(t)) = Len(t.name) + 1
      /\ \A i \in 1..Len(t.name) : Prefix(t)[i] = t.name[i] /\ t.name[i] \in Alnum
      /\ Prefix(t)[Len(t.name) + 1] = Under
  BY <1>1
<1>3. t.name \in Seq(Chars)
  BY NameAssumption
<1>4. /\ \A i \in 1..Len(t.name) : InCatalog(t.name)[i] = Lower[t.name[i]]
      /\ \A i \in 1..(Len(t.name) + 1) : InCatalog(Prefix(t))[i] = Lower[Prefix(t)[i]]
      /\ InCatalog(Prefix(t)) \in Seq(Chars)
      /\ Len(InCatalog(Prefix(t))) = Len(t.name) + 1
  BY <1>1, <1>2, <1>3, InCatalogType
<1>5. \A i \in 1..Len(t.name) : i \in 1..(Len(t.name) + 1)
  BY <1>2
<1>6. Len(t.name) + 1 \in 1..(Len(t.name) + 1)
  BY <1>2
<1> QED  BY <1>2, <1>4, <1>5, <1>6, NameAssumption

\* Where, in the catalog, one plain name and an underscore begin another's, the names
\* are the same there.
LEMMA PlainPrefix ==
    ASSUME NEW t \in Targets, NEW u \in Targets,
           t.name \in Seq(Alnum), u.name \in Seq(Alnum),
           IsPrefix(InCatalog(Prefix(t)), InCatalog(Prefix(u)))
    PROVE  InCatalog(t.name) = InCatalog(u.name)
<1> DEFINE m == Len(t.name)
           n == Len(u.name)
           p == InCatalog(Prefix(t))
           q == InCatalog(Prefix(u))
<1>1. /\ p \in Seq(Chars) /\ q \in Seq(Chars) /\ m \in Nat /\ n \in Nat
      /\ Len(p) = m + 1 /\ Len(q) = n + 1
      /\ \A i \in 1..m : p[i] = InCatalog(t.name)[i] /\ p[i] \in Alnum
      /\ \A i \in 1..n : q[i] = InCatalog(u.name)[i] /\ q[i] \in Alnum
      /\ p[m + 1] = Under
  BY PlainPrefixInCatalog
<1>2. IsPrefix(p, q)
  OBVIOUS
<1> HIDE DEF m, n, p, q
<1>3. m <= n /\ \A i \in 1..(m + 1) : p[i] = q[i]
  <2>1. m <= n /\ SubSeq(p, 1, m + 1) = SubSeq(q, 1, m + 1)
    BY <1>1, <1>2 DEF IsPrefix
  <2>2. \A i \in 1..(m + 1) : /\ SubSeq(p, 1, m + 1)[i] = p[i]
                              /\ SubSeq(q, 1, m + 1)[i] = q[i]
    BY <1>1, <2>1
  <2> QED  BY <2>1, <2>2
<1>4. m = n
  <2> SUFFICES ASSUME m < n PROVE FALSE
    BY <1>1, <1>3
  <2>1. m + 1 \in 1..n /\ m + 1 \in 1..(m + 1)
    BY <1>1
  <2>2. q[m + 1] \in Alnum /\ q[m + 1] = Under
    BY <1>1, <1>3, <2>1
  <2> QED  BY <2>2, NameAssumption
<1>5. \A i \in 1..m : InCatalog(t.name)[i] = InCatalog(u.name)[i]
  BY <1>1, <1>3, <1>4
<1>6. /\ InCatalog(t.name) \in Seq(Chars) /\ InCatalog(u.name) \in Seq(Chars)
      /\ Len(InCatalog(t.name)) = m /\ Len(InCatalog(u.name)) = n
  BY InCatalogType, NameAssumption DEF m, n
<1> QED  BY <1>4, <1>5, <1>6

\* Users and tenants whose names are letters and digits only never share a namespace
\* unless their names are the same but for case.
THEOREM PlainNamesApart ==
    ASSUME NEW t \in Targets, NEW u \in Targets, NEW b \in Bases, NEW c \in Bases,
           t.name \in Seq(Alnum), u.name \in Seq(Alnum),
           InCatalog(Qualified(t, b)) = InCatalog(Qualified(u, c))
    PROVE  InCatalog(t.name) = InCatalog(u.name)
<1>1. CASE IsPrefix(InCatalog(Prefix(t)), InCatalog(Prefix(u)))
  BY <1>1, PlainPrefix
<1>2. CASE IsPrefix(InCatalog(Prefix(u)), InCatalog(Prefix(t)))
  BY <1>2, PlainPrefix
<1> QED  BY <1>1, <1>2, SameNameClashes DEF Clash

---------------------------------------------------------------------------
(* The two kinds of steps.                                                 *)

\* A statement of some user is what changes the catalog.
Statement ==
    \/ \E target \in Targets, base \in Bases, append \in BOOLEAN :
          CreateNamespace(target, base, append)
    \/ \E name \in Names : DropDatabase(name)
    \/ \E name \in Names, table \in Tables :
          SaveTable(name, table) \/ RemoveTable(name, table)

\* A step of the one listing.
ListingStep ==
    \/ \E schema \in BOOLEAN : ListDatabases(schema)
    \/ \E name \in Names : ListTables(name)
    \/ \E table \in Tables : ReadColumns(table)
    \/ FinishDatabase \/ FinishListing \/ ListingRaises

\* Every step is one or the other.
LEMMA Steps == Next => Statement \/ ListingStep
  BY DEF Next, Statement, ListingStep

---------------------------------------------------------------------------
(* Types.                                                                  *)

\* A namespace that can be asked for is one that can exist.
LEMMA QualifiedName ==
    ASSUME NEW target \in Targets, NEW base \in Bases
    PROVE  InCatalog(Qualified(target, base)) \in Names /\ InCatalog(base) \in Names
  BY DEF Names

\* Every change of the catalog keeps types, if it leaves a catalog.
LEMMA ChangeType ==
    ASSUME TypeOK, NEW db \in [Names -> Databases \cup {NoDatabase}], Change(db)
    PROVE  TypeOK'
<1>1. AllTables(db) \subseteq Names \X Tables
  BY DEF AllTables
<1>2. steady' \subseteq Names \X Tables /\ seen' \subseteq Names \X Tables
  BY <1>1 DEF Change, TypeOK, historyVars
<1>3. changes' \in 0..MaxChanges
  BY MaxAssumption DEF Change, TypeOK, historyVars
<1> QED  BY <1>2, <1>3 DEF Change, TypeOK, listingVars

\* Changing tables or history of a database leaves a catalog.
LEMMA EditType ==
    ASSUME TypeOK, NEW name \in Names, database[name] # NoDatabase,
           NEW T \in SUBSET Tables, NEW R \in SUBSET Targets
    PROVE  /\ [database EXCEPT ![name].tables = T]
                \in [Names -> Databases \cup {NoDatabase}]
           /\ [database EXCEPT ![name].returnedTo = R]
                \in [Names -> Databases \cup {NoDatabase}]
<1>1. database[name] \in Databases
  BY DEF TypeOK
<1>2. /\ [database[name] EXCEPT !.tables = T] \in Databases
      /\ [database[name] EXCEPT !.returnedTo = R] \in Databases
  BY <1>1 DEF Databases
<1> QED  BY <1>2 DEF TypeOK

\* A statement is one change that leaves a catalog.
LEMMA Statements ==
    ASSUME TypeOK, Statement
    PROVE  \E db \in [Names -> Databases \cup {NoDatabase}] : Change(db)
<1> DEFINE Goal == \E db \in [Names -> Databases \cup {NoDatabase}] : Change(db)
<1>1. ASSUME NEW target \in Targets, NEW base \in Bases, NEW append \in BOOLEAN,
             CreateNamespace(target, base, append)
      PROVE  Goal
  <2> DEFINE made == InCatalog(IF append THEN Qualified(target, base) ELSE base)
             own == IF append THEN {target} ELSE {}
             new == [target |-> target, prefixed |-> append, returnedTo |-> own,
                     tables |-> {}]
             db1 == [database EXCEPT ![made] = new]
             db2 == [database EXCEPT ![made].returnedTo = @ \cup own]
  <2>1. made \in Names /\ new \in Databases
    BY QualifiedName DEF Databases
  <2>2. CASE database[made] = NoDatabase
    <3>1. db1 \in [Names -> Databases \cup {NoDatabase}]
      BY <2>1 DEF TypeOK
    <3> QED  BY <1>1, <2>2, <3>1 DEF CreateNamespace
  <2>3. CASE database[made] # NoDatabase
    <3>1. database[made].returnedTo \cup own \in SUBSET Targets
      BY <2>1, <2>3 DEF TypeOK, Databases
    <3>2. db2 \in [Names -> Databases \cup {NoDatabase}]
      BY <2>1, <2>3, <3>1, EditType
    <3> QED  BY <1>1, <2>3, <3>2 DEF CreateNamespace
  <2> QED  BY <2>2, <2>3
<1>2. ASSUME NEW name \in Names, DropDatabase(name) PROVE Goal
  <2>1. [database EXCEPT ![name] = NoDatabase] \in [Names -> Databases \cup {NoDatabase}]
    BY DEF TypeOK
  <2> QED  BY <1>2, <2>1 DEF DropDatabase
<1>3. ASSUME NEW name \in Names, NEW table \in Tables, SaveTable(name, table)
      PROVE  Goal
  <2>1. database[name] # NoDatabase
    BY <1>3 DEF SaveTable
  <2>2. database[name].tables \cup {table} \in SUBSET Tables
    BY <2>1 DEF TypeOK, Databases
  <2>3. [database EXCEPT ![name].tables = @ \cup {table}]
          \in [Names -> Databases \cup {NoDatabase}]
    BY <2>1, <2>2, EditType
  <2> QED  BY <1>3, <2>3 DEF SaveTable
<1>4. ASSUME NEW name \in Names, NEW table \in Tables, RemoveTable(name, table)
      PROVE  Goal
  <2>1. database[name] # NoDatabase
    BY <1>4 DEF RemoveTable, TablesOf
  <2>2. database[name].tables \ {table} \in SUBSET Tables
    BY <2>1 DEF TypeOK, Databases
  <2>3. [database EXCEPT ![name].tables = @ \ {table}]
          \in [Names -> Databases \cup {NoDatabase}]
    BY <2>1, <2>2, EditType
  <2> QED  BY <1>4, <2>3 DEF RemoveTable
<1> QED  BY <1>1, <1>2, <1>3, <1>4 DEF Statement

\* The tables a database has are tables, also where there is no database.
LEMMA TablesOfType ==
    ASSUME TypeOK, NEW name \in Names
    PROVE  TablesOf(database, name) \subseteq Tables
  BY DEF TypeOK, TablesOf, Databases

\* The steps of the listing keep types.
LEMMA ListingType ==
    ASSUME TypeOK, ListingStep
    PROVE  TypeOK'
<1>1. ASSUME NEW schema \in BOOLEAN, ListDatabases(schema) PROVE TypeOK'
  BY <1>1, NullAssumption DEF ListDatabases, TypeOK, Existing, AllTables
<1>2. ASSUME NEW name \in Names, ListTables(name) PROVE TypeOK'
  <2> DEFINE entry == [tables |-> TablesFound(name), columns |-> {}]
  <2>1. TablesFound(name) \subseteq Tables
    BY TablesOfType DEF TablesFound
  <2>2. entry \in Entries /\ entry.tables = TablesFound(name)
    BY <2>1 DEF Entries
  <2> HIDE DEF entry
  <2>3. structure' = [structure EXCEPT ![name] = entry] /\ database' = database
    BY <1>2 DEF ListTables, entry
  <2>4. structure' \in [Names -> Entries \cup {NoEntry}] /\ structure'[name] = entry
    BY <2>2, <2>3 DEF TypeOK
  <2>5. CASE withSchema
    BY <1>2, <2>1, <2>2, <2>4, <2>5, NullAssumption
       DEF ListTables, TypeOK, historyVars
  <2>6. CASE ~withSchema
    BY <1>2, <2>4, <2>6, NullAssumption DEF ListTables, TypeOK, historyVars
  <2> QED  BY <2>5, <2>6
<1>3. ASSUME NEW table \in Tables, ReadColumns(table) PROVE TypeOK'
  <2> DEFINE entry == [structure[current] EXCEPT !.columns = @ \cup {table}]
  <2>1. /\ current \in Names /\ current # NoName
        /\ structure[current] \in Entries /\ unread \subseteq structure[current].tables
    BY <1>3 DEF ReadColumns, TypeOK
  <2>2. entry \in Entries /\ entry.tables = structure[current].tables
    BY <1>3, <2>1 DEF ReadColumns, Entries
  <2> HIDE DEF entry
  <2>3. structure' = structure \/ structure' = [structure EXCEPT ![current] = entry]
    BY <1>3 DEF ReadColumns, entry
  <2>4. /\ structure' \in [Names -> Entries \cup {NoEntry}]
        /\ structure'[current] # NoEntry
        /\ structure'[current].tables = structure[current].tables
    BY <2>1, <2>2, <2>3, NullAssumption DEF TypeOK
  <2> QED  BY <1>3, <2>1, <2>4 DEF ReadColumns, TypeOK, historyVars
<1>4. CASE FinishDatabase
  BY <1>4 DEF FinishDatabase, TypeOK, historyVars
<1>5. CASE FinishListing \/ ListingRaises
  <2>1. structure' \in [Names -> Entries \cup {NoEntry}] /\ changes' \in 0..MaxChanges
    BY <1>5, MaxAssumption DEF FinishListing, ListingRaises, Return
  <2> QED  BY <1>5, <2>1 DEF FinishListing, ListingRaises, Return, TypeOK
<1> QED  BY <1>1, <1>2, <1>3, <1>4, <1>5 DEF ListingStep

\* The catalog is empty and nothing is listed at first.
LEMMA TypeInit == Init => TypeOK
<1> SUFFICES ASSUME Init PROVE TypeOK
  OBVIOUS
<1>1. structure \in [Names -> Entries \cup {NoEntry}] /\ changes \in 0..MaxChanges
  BY MaxAssumption DEF Init
<1>2. database \in [Names -> Databases \cup {NoDatabase}]
  BY DEF Init
<1> QED  BY <1>1, <1>2 DEF Init, TypeOK

\* Every step keeps types.
LEMMA TypeStep == TypeOK /\ [Next]_vars => TypeOK'
<1> SUFFICES ASSUME TypeOK, [Next]_vars PROVE TypeOK'
  OBVIOUS
<1>1. CASE Statement
  BY <1>1, Statements, ChangeType
<1>2. CASE ListingStep
  BY <1>2, ListingType
<1>3. CASE UNCHANGED vars
  BY <1>3 DEF vars, TypeOK
<1> QED  BY <1>1, <1>2, <1>3, Steps

\* Every reachable state is well typed; in particular a listing reads columns only of
\* a database it has an entry for, and only of tables it has found.
THEOREM TypeCorrect == Spec => []TypeOK
  BY TypeInit, TypeStep, PTL DEF Spec

---------------------------------------------------------------------------
(* Namespaces.                                                             *)

\* Whoever was given the name of a database asked for that name, and so did whoever
\* made it with a prefix.
NamesAreAskedFor ==
    \A name \in Existing(database) :
        LET db == database[name]
        IN  /\ \A target \in db.returnedTo :
                  \E base \in Bases : name = InCatalog(Qualified(target, base))
            /\ db.prefixed => \E base \in Bases : name = InCatalog(Qualified(db.target, base))

\* Only CreateNamespace gives out names.
LEMMA AskedForStep == TypeOK /\ NamesAreAskedFor /\ [Next]_vars => NamesAreAskedFor'
<1> SUFFICES ASSUME TypeOK, NamesAreAskedFor, [Next]_vars,
                    NEW name \in Names, database'[name] # NoDatabase
             PROVE  /\ \A target \in database'[name].returnedTo :
                          \E base \in Bases : name = InCatalog(Qualified(target, base))
                    /\ database'[name].prefixed =>
                          \E base \in Bases : name = InCatalog(Qualified(database'[name].target, base))
  BY DEF NamesAreAskedFor, Existing
<1> DEFINE Same == /\ database[name] # NoDatabase
                   /\ database'[name].returnedTo = database[name].returnedTo
                   /\ database'[name].prefixed = database[name].prefixed
                   /\ database'[name].target = database[name].target
<1>1. CASE Same
  BY <1>1 DEF NamesAreAskedFor, Existing
<1>2. ASSUME NEW target \in Targets, NEW base \in Bases, NEW append \in BOOLEAN,
             CreateNamespace(target, base, append)
      PROVE  \/ Same
             \/ /\ append /\ name = InCatalog(Qualified(target, base))
                /\ database[name] = NoDatabase
                /\ database'[name].target = target
                /\ database'[name].returnedTo = {target}
             \/ /\ ~append /\ database[name] = NoDatabase
                /\ ~database'[name].prefixed /\ database'[name].returnedTo = {}
             \/ /\ append /\ name = InCatalog(Qualified(target, base))
                /\ database[name] # NoDatabase
                /\ database'[name].returnedTo = database[name].returnedTo \cup {target}
                /\ database'[name].prefixed = database[name].prefixed
                /\ database'[name].target = database[name].target
  <2> DEFINE made == InCatalog(IF append THEN Qualified(target, base) ELSE base)
             own == IF append THEN {target} ELSE {}
             new == [target |-> target, prefixed |-> append, returnedTo |-> own,
                     tables |-> {}]
  <2>1. made \in Names
    BY QualifiedName
  <2>2. CASE database[made] = NoDatabase
    <3>1. database' = [database EXCEPT ![made] = new]
      BY <1>2, <2>2 DEF CreateNamespace, Change
    <3>2. database'[made] = new /\ (name # made => database'[name] = database[name])
      BY <2>1, <3>1 DEF TypeOK
    <3> QED  BY <2>2, <3>2
  <2>3. CASE database[made] # NoDatabase
    <3>1. database' = [database EXCEPT ![made].returnedTo = @ \cup own]
      BY <1>2, <2>3 DEF CreateNamespace, Change
    <3>2. /\ name # made => database'[name] = database[name]
          /\ database'[made] = [database[made] EXCEPT !.returnedTo = @ \cup own]
      BY <2>1, <3>1 DEF TypeOK
    <3>3. database[made] \in Databases
      BY <2>1, <2>3 DEF TypeOK
    <3>4. /\ database'[made].returnedTo = database[made].returnedTo \cup own
          /\ database'[made].prefixed = database[made].prefixed
          /\ database'[made].target = database[made].target
      BY <3>2, <3>3 DEF Databases
    <3> QED  BY <2>3, <3>2, <3>4
  <2> QED  BY <2>2, <2>3
<1>3. ASSUME NEW other \in Names, DropDatabase(other) PROVE Same
  BY <1>3 DEF DropDatabase, Change, TypeOK
<1>4. ASSUME NEW other \in Names, NEW table \in Tables,
             SaveTable(other, table) \/ RemoveTable(other, table)
      PROVE  Same
  <2>1. database[other] # NoDatabase /\ database[other] \in Databases
    BY <1>4 DEF SaveTable, RemoveTable, TablesOf, TypeOK
  <2>2. PICK T : database' = [database EXCEPT ![other].tables = T]
    BY <1>4 DEF SaveTable, RemoveTable, Change
  <2>3. /\ name # other => database'[name] = database[name]
        /\ database'[other] = [database[other] EXCEPT !.tables = T]
    BY <2>2 DEF TypeOK
  <2> QED  BY <2>1, <2>3 DEF Databases
<1>5. CASE ListingStep \/ UNCHANGED vars
  BY <1>1, <1>5 DEF ListingStep, ListDatabases, ListTables, ReadColumns,
       FinishDatabase, FinishListing, ListingRaises, Return, vars
<1>6. CASE Statement
  <2>1. CASE \E target \in Targets, base \in Bases, append \in BOOLEAN :
                CreateNamespace(target, base, append)
    <3>1. PICK target \in Targets, base \in Bases, append \in BOOLEAN :
             CreateNamespace(target, base, append)
      BY <2>1
    <3> QED  BY <1>1, <1>2, <3>1 DEF NamesAreAskedFor, Existing
  <2> QED  BY <1>1, <1>3, <1>4, <1>6, <2>1 DEF Statement
<1> QED  BY <1>5, <1>6, Steps

\* create_namespace_if_not_exists returns a namespace in the session's own warehouse,
\* for all names of users, tenants and namespaces, unless two names clash or
\* somebody made the database without a prefix.
THEOREM NamespacesOwn == Spec => []NamespaceIsOnesOwn
<1>1. Init => NamesAreAskedFor
  BY DEF Init, NamesAreAskedFor, Existing
<1>2. TypeOK /\ NamesAreAskedFor => NamespaceIsOnesOwn
  <2> SUFFICES ASSUME TypeOK, NamesAreAskedFor,
                      NEW name \in Existing(database), database[name].prefixed,
                      NEW target \in database[name].returnedTo
               PROVE  Clash(target, database[name].target)
    BY DEF NamespaceIsOnesOwn
  <2>1. target \in Targets /\ database[name].target \in Targets
    BY DEF TypeOK, Existing, Databases
  <2>2. /\ \E b \in Bases : name = InCatalog(Qualified(target, b))
        /\ \E c \in Bases : name = InCatalog(Qualified(database[name].target, c))
    BY DEF NamesAreAskedFor
  <2> QED  BY <2>1, <2>2, SameNameClashes
<1> QED  BY <1>1, <1>2, TypeInit, TypeStep, AskedForStep, PTL DEF Spec

---------------------------------------------------------------------------
(* Listings.                                                               *)

\* While a listing goes on, what is steady exists, and what exists has been seen.
HistoryIsTrue ==
    step # "idle" =>
        steady \subseteq AllTables(database) /\ AllTables(database) \subseteq seen

\* A steady table is in the structure, or its database is still to be looked at.
SteadyIsListed ==
    step # "idle" => \A place \in steady :
        \/ place[1] \in todo
        \/ structure[place[1]] # NoEntry /\ place[2] \in structure[place[1]].tables

\* What is in the structure has been seen.
ListedIsSeen ==
    step # "idle" => \A name \in Names : structure[name] # NoEntry =>
        \A table \in structure[name].tables : <<name, table>> \in seen

ListingInv == HistoryIsTrue /\ SteadyIsListed /\ ListedIsSeen

\* A table of the catalog is in some database.
LEMMA TablesInCatalog ==
    ASSUME NEW place \in AllTables(database)
    PROVE  /\ place[1] \in Names /\ place[2] \in Tables
           /\ place[2] \in TablesOf(database, place[1])
           /\ database[place[1]] # NoDatabase
  BY DEF AllTables, TablesOf

\* A change of the catalog during a listing only takes from what is steady and adds
\* to what is seen.
LEMMA ListingUnderChange ==
    ASSUME TypeOK, ListingInv, NEW db, Change(db)
    PROVE  ListingInv'
<1> SUFFICES ASSUME step # "idle" PROVE ListingInv'
  BY DEF Change, listingVars, ListingInv, HistoryIsTrue, SteadyIsListed, ListedIsSeen
<1>1. /\ database' = db /\ steady' = steady \cap AllTables(db)
      /\ seen' = seen \cup AllTables(db) /\ UNCHANGED <<step, todo, structure>>
  BY DEF Change, listingVars
<1>2. HistoryIsTrue'
  BY <1>1 DEF HistoryIsTrue, AllTables
<1>3. SteadyIsListed'
  BY <1>1 DEF ListingInv, SteadyIsListed
<1>4. ListedIsSeen'
  BY <1>1 DEF ListingInv, ListedIsSeen
<1> QED  BY <1>2, <1>3, <1>4 DEF ListingInv

\* The databases are listed: every table there is in one of them.
LEMMA ListingBegins ==
    ASSUME TypeOK, NEW schema \in BOOLEAN, ListDatabases(schema)
    PROVE  ListingInv'
<1>1. /\ steady' = AllTables(database) /\ seen' = AllTables(database)
      /\ todo' = Existing(database) /\ database' = database
      /\ \A name \in Names : structure'[name] = NoEntry
  BY DEF ListDatabases
<1>2. \A place \in AllTables(database) : place[1] \in Existing(database)
  BY TablesInCatalog DEF Existing
<1> QED  BY <1>1, <1>2 DEF ListingInv, HistoryIsTrue, SteadyIsListed, ListedIsSeen,
           AllTables

\* The tables of one database are listed: those that are steady are among them, and
\* all of them are seen.
LEMMA ListingTables ==
    ASSUME TypeOK, ListingInv, NEW name \in Names, ListTables(name)
    PROVE  ListingInv'
<1> DEFINE entry == [tables |-> TablesOf(database, name), columns |-> {}]
<1>1. /\ step # "idle" /\ UNCHANGED <<database, steady, seen>>
      /\ todo' = todo \ {name}
      /\ structure' = [structure EXCEPT ![name] = entry]
  BY DEF ListTables, TablesFound, historyVars
<1>2. entry \in Entries /\ entry # NoEntry /\ entry.tables = TablesOf(database, name)
  BY TablesOfType, NullAssumption DEF Entries
<1>3. /\ structure'[name] = entry
      /\ \A other \in Names \ {name} : structure'[other] = structure[other]
  BY <1>1 DEF TypeOK
<1> HIDE DEF entry
<1>4. HistoryIsTrue'
  BY <1>1 DEF ListingInv, HistoryIsTrue, AllTables
<1>5. SteadyIsListed'
  <2> SUFFICES ASSUME NEW place \in steady
               PROVE  \/ place[1] \in todo'
                      \/ /\ structure'[place[1]] # NoEntry
                         /\ place[2] \in structure'[place[1]].tables
    BY <1>1 DEF SteadyIsListed
  <2>1. place \in AllTables(database)
    BY <1>1 DEF ListingInv, HistoryIsTrue
  <2>2. place[1] \in Names /\ place[2] \in TablesOf(database, place[1])
    BY <2>1, TablesInCatalog
  <2> QED  BY <1>1, <1>2, <1>3, <2>2 DEF ListingInv, SteadyIsListed
<1>6. ListedIsSeen'
  <2>1. \A table \in TablesOf(database, name) : <<name, table>> \in AllTables(database)
    BY TablesOfType DEF AllTables
  <2>2. AllTables(database) \subseteq seen
    BY <1>1 DEF ListingInv, HistoryIsTrue
  <2> QED  BY <1>1, <1>2, <1>3, <2>1, <2>2 DEF ListingInv, ListedIsSeen
<1> QED  BY <1>4, <1>5, <1>6 DEF ListingInv

\* Reading columns makes no entry and keeps the tables of each.
LEMMA ColumnsKeepTables ==
    ASSUME TypeOK, NEW table \in Tables, ReadColumns(table)
    PROVE  \A name \in Names :
               /\ structure'[name] # NoEntry <=> structure[name] # NoEntry
               /\ structure[name] # NoEntry =>
                      structure'[name].tables = structure[name].tables
<1>1. /\ current \in Names /\ structure[current] \in Entries
      /\ structure[current] # NoEntry
  BY DEF ReadColumns, TypeOK
<1> DEFINE entry == [structure[current] EXCEPT !.columns = @ \cup {table}]
<1>2. entry \in Entries /\ entry.tables = structure[current].tables
  BY <1>1 DEF ReadColumns, Entries, TypeOK
<1> HIDE DEF entry
<1>3. structure' = structure \/ structure' = [structure EXCEPT ![current] = entry]
  BY DEF ReadColumns, entry
<1> QED  BY <1>1, <1>2, <1>3, NullAssumption DEF TypeOK

\* Reading columns leaves the tables of the structure alone.
LEMMA ListingColumns ==
    ASSUME TypeOK, ListingInv, NEW table \in Tables, ReadColumns(table)
    PROVE  ListingInv'
<1>1. /\ UNCHANGED <<database, step, todo, steady, seen>>
      /\ current \in Names /\ structure[current] \in Entries
      /\ structure[current] # NoEntry
  BY DEF ReadColumns, TypeOK, historyVars
<1>2. \A name \in Names :
        /\ structure'[name] # NoEntry <=> structure[name] # NoEntry
        /\ structure[name] # NoEntry => structure'[name].tables = structure[name].tables
  BY ColumnsKeepTables
<1>3. \A place \in steady : place[1] \in Names \/ step = "idle"
  BY TablesInCatalog DEF ListingInv, HistoryIsTrue
<1> QED  BY <1>1, <1>2, <1>3
         DEF ListingInv, HistoryIsTrue, SteadyIsListed, ListedIsSeen, AllTables

\* Every step keeps the invariant.
LEMMA ListingInvStep == TypeOK /\ ListingInv /\ [Next]_vars => ListingInv'
<1> SUFFICES ASSUME TypeOK, ListingInv, [Next]_vars PROVE ListingInv'
  OBVIOUS
<1>1. CASE Statement
  BY <1>1, Statements, ListingUnderChange
<1>2. CASE FinishDatabase \/ UNCHANGED vars
  BY <1>2 DEF FinishDatabase, vars, historyVars, ListingInv, HistoryIsTrue,
         SteadyIsListed, ListedIsSeen, AllTables
<1>3. CASE FinishListing \/ ListingRaises
  BY <1>3 DEF FinishListing, ListingRaises, Return, ListingInv, HistoryIsTrue,
         SteadyIsListed, ListedIsSeen
<1>4. CASE ListingStep
  BY <1>2, <1>3, <1>4, ListingBegins, ListingTables, ListingColumns DEF ListingStep
<1> QED  BY <1>1, <1>2, <1>4, Steps

\* get_db_structure returns every table that existed all the while and none that never
\* did, for any catalog and any interleaving of its queries with statements.
THEOREM ListingRegular == Spec => []ListingIsRegular
<1>1. Init => ListingInv
  BY DEF Init, ListingInv, HistoryIsTrue, SteadyIsListed, ListedIsSeen
<1>2. ListingInv => ListingIsRegular
  BY DEF ListingInv, SteadyIsListed, ListedIsSeen, ListingIsRegular
<1> QED  BY <1>1, <1>2, TypeInit, TypeStep, ListingInvStep, PTL DEF Spec

---------------------------------------------------------------------------
(* Listings of a catalog that nobody changes.                              *)

\* The entry of a database says what tables the catalog has under its name.
EntryIsTrue(name) ==
    structure[name] # NoEntry => structure[name].tables = TablesOf(database, name)

\* No statement came since the listing began: every database is listed or still to be
\* looked at, no other name is, and the entries are true.
QuietListingAgrees ==
    step # "idle" /\ changes = 0 => \A name \in Names :
        /\ name \in todo \/ structure[name] # NoEntry <=> name \in Existing(database)
        /\ EntryIsTrue(name)

\* A listing during which no statement is carried out returns the catalog: a key for
\* each database, also one without tables, no other key, and exactly its tables.
QuietListingIsExact ==
    step = "databases" /\ todo = {} /\ changes = 0 => \A name \in Names :
        /\ structure[name] # NoEntry <=> name \in Existing(database)
        /\ EntryIsTrue(name)

\* A listing begins with all databases to look at; a step of it looks at one, or reads
\* columns, which leaves the tables alone.
LEMMA QuietListingStep ==
    ASSUME TypeOK, QuietListingAgrees, ListingStep
    PROVE  QuietListingAgrees'
<1> USE DEF QuietListingAgrees, EntryIsTrue
<1>1. ASSUME NEW schema \in BOOLEAN, ListDatabases(schema) PROVE QuietListingAgrees'
  BY <1>1 DEF ListDatabases, Existing
<1>2. ASSUME NEW name \in Names, ListTables(name) PROVE QuietListingAgrees'
  <2> DEFINE entry == [tables |-> TablesOf(database, name), columns |-> {}]
  <2>1. /\ step # "idle" /\ UNCHANGED <<database, changes>>
        /\ todo' = todo \ {name} /\ name \in todo
        /\ structure' = [structure EXCEPT ![name] = entry]
    BY <1>2 DEF ListTables, TablesFound, historyVars
  <2>2. entry # NoEntry /\ entry.tables = TablesOf(database, name)
    BY TablesOfType, NullAssumption DEF Entries
  <2>3. /\ structure'[name] = entry
        /\ \A other \in Names \ {name} : structure'[other] = structure[other]
    BY <2>1 DEF TypeOK
  <2> HIDE DEF entry
  <2> QED  BY <2>1, <2>2, <2>3 DEF Existing, TablesOf
<1>3. ASSUME NEW table \in Tables, ReadColumns(table) PROVE QuietListingAgrees'
  <2>1. /\ UNCHANGED <<database, step, todo, changes>>
        /\ current \in Names /\ structure[current] \in Entries
        /\ structure[current] # NoEntry
    BY <1>3 DEF ReadColumns, TypeOK, historyVars
  <2>2. \A name \in Names :
          /\ structure'[name] # NoEntry <=> structure[name] # NoEntry
          /\ structure[name] # NoEntry => structure'[name].tables = structure[name].tables
    BY <1>3, ColumnsKeepTables
  <2> QED  BY <2>1, <2>2 DEF Existing, TablesOf
<1>4. CASE FinishDatabase
  BY <1>4 DEF FinishDatabase, historyVars, Existing, TablesOf
<1>5. CASE FinishListing \/ ListingRaises
  BY <1>5 DEF FinishListing, ListingRaises, Return
<1> QED  BY <1>1, <1>2, <1>3, <1>4, <1>5 DEF ListingStep

\* A listing that no statement disturbs is exact, for any catalog, with columns and
\* without.
THEOREM QuietListingExact == Spec => []QuietListingIsExact
<1>1. Init => QuietListingAgrees
  BY DEF Init, QuietListingAgrees
<1>2. TypeOK /\ QuietListingAgrees /\ [Next]_vars => QuietListingAgrees'
  <2> SUFFICES ASSUME TypeOK, QuietListingAgrees, [Next]_vars PROVE QuietListingAgrees'
    OBVIOUS
  <2>1. CASE Statement
    <3>1. PICK db : Change(db)
      BY <2>1, Statements
    <3>2. step' = step /\ (step # "idle" => changes \in Nat /\ changes' = changes + 1)
      BY <3>1, MaxAssumption DEF Change, listingVars, TypeOK
    <3> QED  BY <3>2 DEF QuietListingAgrees
  <2>2. CASE UNCHANGED vars
    BY <2>2 DEF vars, QuietListingAgrees, EntryIsTrue, Existing, TablesOf
  <2> QED  BY <2>1, <2>2, Steps, QuietListingStep
<1>3. QuietListingAgrees => QuietListingIsExact
  BY DEF QuietListingAgrees, QuietListingIsExact
<1> QED  BY <1>1, <1>2, <1>3, TypeInit, TypeStep, PTL DEF Spec
=============================================================================
