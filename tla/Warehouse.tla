------------------------------ MODULE Warehouse ------------------------------
(***************************************************************************)
(* The catalog that all users and tenants share: the namespaces (databases)*)
(* that create_namespace_if_not_exists of db_ops/spark_db_utils.py makes in *)
(* it, their tables, and a listing of it all by get_db_structure of        *)
(* spark/data_store.py, which reads it in many steps.                      *)
(*                                                                         *)
(* Only a session with Delta Lake reaches the shared catalog, and the      *)
(* warehouse of such a session is that of its user or of a tenant.         *)
(***************************************************************************)
EXTENDS Naturals, FiniteSets, SequencesExt

CONSTANTS
    UserNames,      \* names are sequences of characters
    TenantNames,
    Bases,          \* the namespace arguments users pass
    Chars,          \* the characters of names
    Alnum,          \* those that isalnum() accepts
    Under,          \* the underscore
    Lower,          \* the lower case of each character
    Tables,
    NoDatabase,     \* no database of that name
    NoEntry,        \* a listing has nothing under that name
    NoName,         \* a listing is between two databases
    MaxDatabases,   \* bound: databases that exist at once
    MaxChanges      \* bound: changes of the catalog while one listing goes on

\* The last part of spark.sql.warehouse.dir names the target; the part before it
\* says whose warehouse it is.
Targets == [kind : {"user"}, name : UserNames] \cup [kind : {"tenant"}, name : TenantNames]

\* Every character that cannot stand in an identifier becomes an underscore.
Sanitize(name) ==
    [i \in DOMAIN name |-> IF name[i] \in Alnum \cup {Under} THEN name[i] ELSE Under]

\* What is put before the namespace argument.
Prefix(target) == Append(Sanitize(target.name), Under)

\* Mutant of Qualified: the warehouse is not recognised.
QualifiedAsIs(target, base) == base

Qualified(target, base) == Prefix(target) \o base

\* The metastore knows a database by its name in lower case; the code asks for it and
\* returns it as it was spelled.
InCatalog(name) == [i \in DOMAIN name |-> Lower[name[i]]]

\* The databases that can come to exist.
Names ==
    {InCatalog(Qualified(target, base)) : target \in Targets, base \in Bases}
        \cup {InCatalog(base) : base \in Bases}

\* "target": in whose warehouse the database lies.  "prefixed": made with
\* append_target (history).  "returnedTo": the targets whose sessions were given
\* its name as their own (history).
Databases == [target : Targets, prefixed : BOOLEAN, returnedTo : SUBSET Targets,
              tables : SUBSET Tables]

\* What get_db_structure says of a database: its tables, and those of them whose
\* columns it found.
Entries ==
    {entry \in [tables : SUBSET Tables, columns : SUBSET Tables] :
        entry.columns \subseteq entry.tables}

ASSUME NameAssumption ==
    /\ Alnum \subseteq Chars /\ Under \in Chars \ Alnum
    /\ Lower \in [Chars -> Chars]
    /\ Lower[Under] = Under /\ \A c \in Alnum : Lower[c] \in Alnum
    /\ UserNames \cup TenantNames \cup Bases \subseteq Seq(Chars)
ASSUME NullAssumption ==
    NoDatabase \notin Databases /\ NoEntry \notin Entries /\ NoName \notin Names
ASSUME MaxAssumption == MaxDatabases \in Nat /\ MaxChanges \in Nat

VARIABLES
    database,       \* the catalog: what is under each name
    step,           \* where the listing is
    withSchema,     \* whether it was asked for columns
    todo,           \* databases it found and has yet to look at
    current,        \* the database whose columns it reads
    unread,         \* tables of current whose columns it has yet to read
    structure,      \* db_structure
    steady,         \* tables there all the while since the listing began (history)
    seen,           \* tables there at some time since it began (history)
    changes         \* changes of the catalog since it began

listingVars == <<step, withSchema, todo, current, unread, structure>>
historyVars == <<steady, seen, changes>>
vars == <<database, step, withSchema, todo, current, unread, structure,
          steady, seen, changes>>

Existing(db) == {name \in Names : db[name] # NoDatabase}
TablesOf(db, name) == IF db[name] = NoDatabase THEN {} ELSE db[name].tables
AllTables(db) == {place \in Names \X Tables : place[2] \in TablesOf(db, place[1])}

TypeOK ==
    /\ database \in [Names -> Databases \cup {NoDatabase}]
    /\ step \in {"idle", "databases", "columns"}
    /\ withSchema \in BOOLEAN
    /\ todo \subseteq Names
    /\ current \in Names \cup {NoName}
    /\ current # NoName <=> step = "columns"
    /\ structure \in [Names -> Entries \cup {NoEntry}]
    /\ current = NoName => unread = {}
    /\ current # NoName =>
          structure[current] # NoEntry /\ unread \subseteq structure[current].tables
    /\ steady \subseteq Names \X Tables
    /\ seen \subseteq Names \X Tables
    /\ changes \in 0..MaxChanges

Init ==
    /\ database = [name \in Names |-> NoDatabase]
    /\ step = "idle" /\ withSchema = FALSE
    /\ todo = {} /\ current = NoName /\ unread = {}
    /\ structure = [name \in Names |-> NoEntry]
    /\ steady = {} /\ seen = {} /\ changes = 0

---------------------------------------------------------------------------
(* The catalog changes, in one statement, whoever is listing it.           *)

Change(db) ==
    /\ database' = db
    /\ IF step # "idle"
       THEN /\ changes < MaxChanges /\ changes' = changes + 1
            /\ steady' = steady \cap AllTables(db)
            /\ seen' = seen \cup AllTables(db)
       ELSE UNCHANGED historyVars
    /\ UNCHANGED listingVars

\* CREATE DATABASE IF NOT EXISTS puts the database into the warehouse of the session
\* that comes first; the name is returned to any other all the same.
CreateNamespace(target, base, append) ==
    LET name == InCatalog(IF append THEN Qualified(target, base) ELSE base)
        own == IF append THEN {target} ELSE {}
        new == [target |-> target, prefixed |-> append, returnedTo |-> own,
                tables |-> {}]
    IN  \/ /\ database[name] = NoDatabase
           /\ Cardinality(Existing(database)) < MaxDatabases
           /\ Change([database EXCEPT ![name] = new])
        \/ /\ database[name] # NoDatabase
           /\ Change([database EXCEPT ![name].returnedTo = @ \cup own])

\* saveAsTable: the user's own call of Spark.
SaveTable(name, table) ==
    /\ database[name] # NoDatabase
    /\ Change([database EXCEPT ![name].tables = @ \cup {table}])

\* remove_table: DROP TABLE IF EXISTS.
RemoveTable(name, table) ==
    /\ table \in TablesOf(database, name)
    /\ Change([database EXCEPT ![name].tables = @ \ {table}])

\* DROP DATABASE ... CASCADE: the user's own SQL.
DropDatabase(name) ==
    /\ database[name] # NoDatabase
    /\ Change([database EXCEPT ![name] = NoDatabase])

---------------------------------------------------------------------------
(* get_db_structure.  Databases and tables come from the metastore's own    *)
(* PostgreSQL, with use_postgres or without: _get_structure passes it on to *)
(* neither call, and both default to it.  Columns come from Spark.         *)

\* hive_metastore.get_databases: one query.
ListDatabases(schema) ==
    /\ step = "idle"
    /\ step' = "databases" /\ withSchema' = schema
    /\ todo' = Existing(database)
    /\ structure' = [name \in Names |-> NoEntry]
    /\ current' = NoName /\ unread' = {}
    /\ steady' = AllTables(database) /\ seen' = AllTables(database)
    /\ UNCHANGED <<database, changes>>

\* Mutant of TablesFound: the condition on the database is missing.
TablesAnywhere(name) == UNION {TablesOf(database, other) : other \in Names}

\* hive_metastore.get_tables: one query, which finds nothing where there is no
\* database any more.
TablesFound(name) == TablesOf(database, name)

\* The next database of the list: its tables, then its columns if wanted.
ListTables(name) ==
    /\ step = "databases" /\ name \in todo
    /\ todo' = todo \ {name}
    /\ structure' = [structure EXCEPT
           ![name] = [tables |-> TablesFound(name), columns |-> {}]]
    /\ IF withSchema
       THEN step' = "columns" /\ current' = name /\ unread' = TablesFound(name)
       ELSE UNCHANGED <<step, current, unread>>
    /\ UNCHANGED <<database, withSchema, historyVars>>

\* get_table_schema: any error, a table that is gone or one whose files are, makes
\* an empty list of columns.
ReadColumns(table) ==
    /\ step = "columns" /\ table \in unread
    /\ unread' = unread \ {table}
    /\ \/ /\ table \in TablesOf(database, current)
          /\ structure' = [structure EXCEPT ![current].columns = @ \cup {table}]
       \/ UNCHANGED structure
    /\ UNCHANGED <<database, step, withSchema, todo, current, historyVars>>

\* Mutant of FinishDatabase: the database stays current.
FinishKeepsDatabase ==
    /\ step = "columns" /\ unread = {}
    /\ step' = "databases"
    /\ UNCHANGED <<database, withSchema, todo, current, unread, structure, historyVars>>

\* The columns of one database are complete.
FinishDatabase ==
    /\ step = "columns" /\ unread = {}
    /\ step' = "databases" /\ current' = NoName
    /\ UNCHANGED <<database, withSchema, todo, unread, structure, historyVars>>

Return ==
    /\ step' = "idle" /\ withSchema' = FALSE /\ current' = NoName
    /\ todo' = {} /\ unread' = {}
    /\ structure' = [name \in Names |-> NoEntry]
    /\ steady' = {} /\ seen' = {} /\ changes' = 0
    /\ UNCHANGED database

\* The loop is over and the structure is the caller's.
FinishListing == step = "databases" /\ todo = {} /\ Return

\* A query raises, or a session cannot be had: the call has no result.
ListingRaises == step \in {"databases", "columns"} /\ Return

Next ==
    \/ \E target \in Targets, base \in Bases, append \in BOOLEAN :
          CreateNamespace(target, base, append)
    \/ \E name \in Names : DropDatabase(name) \/ ListTables(name)
    \/ \E name \in Names, table \in Tables :
          SaveTable(name, table) \/ RemoveTable(name, table)
    \/ \E schema \in BOOLEAN : ListDatabases(schema)
    \/ \E table \in Tables : ReadColumns(table)
    \/ FinishDatabase \/ FinishListing \/ ListingRaises

Spec == Init /\ [][Next]_vars

---------------------------------------------------------------------------
(* Properties.                                                             *)

\* To the metastore, the prefix of one target is the beginning of the other's: both
\* sanitize to the same but for case, or one goes on after an underscore where the
\* other ends.
Clash(t, u) ==
    LET p == InCatalog(Prefix(t))
        q == InCatalog(Prefix(u))
    IN  IsPrefix(p, q) \/ IsPrefix(q, p)

\* The namespace that create_namespace_if_not_exists returns to a session, in whatever
\* case it is spelled, lies in the warehouse of the session, unless the names of the
\* two targets clash or the database was made without a prefix.
NamespaceIsOnesOwn ==
    \A name \in Existing(database) :
        database[name].prefixed =>
            \A target \in database[name].returnedTo : Clash(target, database[name].target)

\* What a listing returns is regular: it has every table that was there all the
\* while, under its own database, and none that was never there, whatever comes and
\* goes between its queries.
ListingIsRegular ==
    step = "databases" /\ todo = {} =>
        /\ \A place \in steady :
              structure[place[1]] # NoEntry /\ place[2] \in structure[place[1]].tables
        /\ \A name \in Names : structure[name] # NoEntry =>
              \A table \in structure[name].tables : <<name, table>> \in seen

---------------------------------------------------------------------------
(* What the guide says and the code does not keep.                         *)

\* "Table will be stored at": in the warehouse of the session that was given the
\* namespace, if nobody has made that without a prefix.
NamespaceIsInWarehouse ==
    \A name \in Existing(database) :
        database[name].prefixed => database[name].returnedTo \subseteq {database[name].target}
=============================================================================
