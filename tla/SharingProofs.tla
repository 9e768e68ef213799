----------------------------- MODULE SharingProofs -----------------------------
(***************************************************************************)
(* What the answers of share_table, unshare_table, make_table_private and  *)
(* get_table_access_info are worth, for any users, tables and calls.       *)
(***************************************************************************)
EXTENDS TableSharing, TLAPS

Sent(c) == calls[c].status # "none"

\* What is known of a call by how far it has come.
Progress ==
    \A c \in CallIds : Sent(c) =>
        /\ calls[c].caller = calls[c].path[1]
        /\ calls[c].status = "answered" => calls[c].done
        /\ ~calls[c].done => calls[c].reported = {}
        /\ \A d \in calls[c].after : d # c /\ calls[d].status = "answered"

\* The service took the right of the reader away in this call and says so.
TookOut(j, path, reader) ==
    /\ Sent(j) /\ calls[j].done /\ calls[j].op \in Revokes
    /\ calls[j].path = path /\ reader \in calls[j].reported

\* The service has acted on the call, for the reader too if it answers at all.
Did(c, reader) ==
    calls[c].done /\ (calls[c].accepted => reader \in calls[c].reported)

LetIn(g, path, reader) == LetsIn(g, path, reader) /\ Did(g, reader)
ShutOut(j, path, reader) ==
    /\ ShutsOut(j, path, reader) /\ calls[j].done
    /\ calls[j].op = "unshare" => Did(j, reader)

\* The right of a reader goes back to a call that was not over when the last call
\* that took it away was sent.
RightsExplained ==
    \A path \in Paths : \A reader \in rights[path] :
        \E g \in CallIds :
            /\ LetIn(g, path, reader)
            /\ \A j \in CallIds : TookOut(j, path, reader) => g \notin calls[j].after

\* A right that was reported as given and is not there was taken away since.
LossesExplained ==
    \A g \in CallIds, reader \in Recipients :
        Sent(g) /\ calls[g].done /\ calls[g].op \in Grants /\ reader \in calls[g].reported
            /\ reader \notin rights[calls[g].path]
        => \E j \in CallIds :
              ShutOut(j, calls[g].path, reader) /\ j \notin calls[g].after

\* An answer of the service about a path, on its way or arrived.
InfoOut(i) == calls[i].status \in {"open", "answered"} /\ calls[i].done /\ calls[i].op = "info"

ReadersExplained ==
    \A i \in CallIds : InfoOut(i) =>
        \A reader \in calls[i].reported :
            \E g \in CallIds :
                /\ LetIn(g, calls[i].path, reader)
                /\ \A j \in calls[i].after :
                      ToldOut(j, calls[i].path, reader) => g \notin calls[j].after

AbsencesExplained ==
    \A i \in CallIds : InfoOut(i) =>
        \A reader \in Recipients \ calls[i].reported :
            \A g \in calls[i].after : ToldIn(g, calls[i].path, reader) =>
                \E j \in CallIds :
                    /\ ShutOut(j, calls[i].path, reader)
                    /\ j \notin calls[g].after /\ i \notin calls[j].after

IInv ==
    /\ TypeOK /\ Progress
    /\ RightsExplained /\ LossesExplained
    /\ ReadersExplained /\ AbsencesExplained

---------------------------------------------------------------------------
\* Both spellings of a namespace make the same directory.
LEMMA DirectoryType ==
    ASSUME NEW argument \in Arguments
    PROVE  Directory(argument) \in {DatabaseDirectory(ns) : ns \in Namespaces}
<1>1. CASE \E ns \in Namespaces : argument = <<ns>>
    <2>1. PICK ns \in Namespaces : argument = <<ns>>
        BY <1>1
    <2>2. argument[Len(argument)] # Suffix
        BY <2>1, SharingAssumption
    <2>3. Directory(argument) = <<ns, Suffix>>
        BY <2>1, <2>2, <<ns, Suffix>> = Append(<<ns>>, Suffix) DEF Directory
    <2> QED
        BY <2>3 DEF DatabaseDirectory
<1>2. CASE \E ns \in Namespaces : argument = <<ns, Suffix>>
    BY <1>2 DEF Directory, DatabaseDirectory
<1> QED
    BY <1>1, <1>2 DEF Arguments

\* A call that is sent changes nothing but itself.
LEMMA SendFrame ==
    ASSUME TypeOK, NEW c \in CallIds, NEW user \in Users, NEW op \in Operations,
           NEW argument \in Arguments, NEW table \in Tables,
           NEW whom \in SUBSET Recipients, Send(c, user, op, argument, table, whom)
    PROVE  /\ calls[c].status = "none"
           /\ calls' \in [CallIds -> Calls \cup {Unsent}]
           /\ \A d \in CallIds \ {c} : calls'[d] = calls[d]
           /\ calls'[c].status = "open" /\ ~calls'[c].done /\ calls'[c].reported = {}
           /\ calls'[c].caller = calls'[c].path[1]
           /\ calls'[c].after = Answered
           /\ UNCHANGED <<home, tables, rights>>
<1>1. TablePath(user, argument, table) \in Paths
    BY DirectoryType DEF TablePath, Paths
<1>2. Answered \subseteq CallIds
    BY DEF Answered
<1>3. calls'[c] \in Calls
    BY <1>1, <1>2 DEF Send, TypeOK, Calls
<1>4. TablePath(user, argument, table)[1] = user
    BY DEF TablePath
<1> QED
    BY <1>1, <1>2, <1>3, <1>4 DEF Send, TypeOK, catalogVars

\* What the service and the client change of a call that was sent.
Kept(c) ==
    /\ calls[c] \in Calls /\ calls'[c] \in Calls
    /\ calls' \in [CallIds -> Calls \cup {Unsent}]
    /\ \A d \in CallIds \ {c} : calls'[d] = calls[d]
    /\ calls'[c].op = calls[c].op /\ calls'[c].path = calls[c].path
    /\ calls'[c].whom = calls[c].whom /\ calls'[c].caller = calls[c].caller
    /\ calls'[c].after = calls[c].after
    /\ UNCHANGED <<home, tables>>

\* The outcome of ChangeRights.
Changed(c, moved) ==
    /\ Kept(c) /\ ~calls[c].done /\ calls'[c].done
    /\ calls[c].status \in {"open", "raised"} /\ calls'[c].status = calls[c].status
    /\ calls'[c].reported \subseteq moved /\ moved \subseteq calls[c].whom
    /\ calls'[c].accepted => calls'[c].reported = moved
    /\ rights' \in [Paths -> SUBSET Recipients]
    /\ \A path \in Paths \ {calls[c].path} : rights'[path] = rights[path]
    /\ \/ /\ calls[c].op \in Grants
          /\ rights'[calls[c].path] = rights[calls[c].path] \cup moved
       \/ /\ calls[c].op \in Revokes
          /\ rights'[calls[c].path] \subseteq rights[calls[c].path] \ moved
          /\ \/ rights'[calls[c].path] = rights[calls[c].path] \ moved
             \/ calls[c].op = "private"

\* The service changes rights in one of three ways.
LEMMA ChangeFrame ==
    ASSUME TypeOK, NEW c \in CallIds, NEW moved \in SUBSET Recipients, NEW accepted \in BOOLEAN,
           ChangeRights(c, moved, accepted)
    PROVE  Changed(c, moved)
<1>1. calls[c] \in Calls
    BY DEF ChangeRights, TypeOK, Unsent
<1>2. calls[c].path \in Paths /\ calls[c].op \in Operations
    BY <1>1 DEF Calls
<1>3. rights[calls[c].path] \subseteq Recipients
    BY <1>2 DEF TypeOK
<1>4. /\ rights' \in [Paths -> SUBSET Recipients]
      /\ \A path \in Paths \ {calls[c].path} : rights'[path] = rights[path]
    BY <1>2, <1>3 DEF ChangeRights, TypeOK
<1>5. \/ /\ calls[c].op \in Grants
         /\ rights'[calls[c].path] = rights[calls[c].path] \cup moved
      \/ /\ calls[c].op \in Revokes
         /\ rights'[calls[c].path] \subseteq rights[calls[c].path] \ moved
         /\ \/ rights'[calls[c].path] = rights[calls[c].path] \ moved
            \/ calls[c].op = "private"
    BY <1>2, <1>3 DEF ChangeRights, TypeOK, Revokes
<1>6. calls'[c] = [calls[c] EXCEPT !.done = TRUE, !.accepted = accepted,
                      !.reported = IF accepted THEN moved ELSE {}]
    BY DEF ChangeRights, TypeOK, Reported
<1>7. calls'[c] \in Calls
    BY <1>1, <1>6 DEF Calls
<1>8. /\ calls' \in [CallIds -> Calls \cup {Unsent}]
      /\ \A d \in CallIds \ {c} : calls'[d] = calls[d]
    BY <1>7 DEF ChangeRights, TypeOK
<1>9. /\ calls'[c].op = calls[c].op /\ calls'[c].path = calls[c].path
      /\ calls'[c].whom = calls[c].whom /\ calls'[c].caller = calls[c].caller
      /\ calls'[c].after = calls[c].after /\ calls'[c].done
      /\ calls'[c].status = calls[c].status /\ calls'[c].reported \subseteq moved
      /\ calls'[c].accepted = accepted
      /\ accepted => calls'[c].reported = moved
    BY <1>1, <1>6 DEF Calls
<1> QED
    BY <1>1, <1>4, <1>5, <1>7, <1>8, <1>9 DEF Changed, Kept, ChangeRights, catalogVars

LEMMA ReadFrame ==
    ASSUME TypeOK, NEW c \in CallIds, ReadRights(c)
    PROVE  /\ Kept(c) /\ ~calls[c].done /\ calls'[c].done
           /\ calls[c].status = "open" /\ calls'[c].status = "open" /\ calls[c].op = "info"
           /\ calls'[c].reported = rights[calls[c].path]
           /\ UNCHANGED rights
<1>1. calls[c] \in Calls
    BY DEF ReadRights, TypeOK, Unsent
<1>2. rights[calls[c].path] \subseteq Recipients
    BY <1>1 DEF TypeOK, Calls
<1>3. calls'[c] = [calls[c] EXCEPT !.done = TRUE, !.accepted = TRUE,
                      !.reported = rights[calls[c].path]]
    BY DEF ReadRights, TypeOK
<1>4. calls'[c] \in Calls
    BY <1>1, <1>2, <1>3 DEF Calls
<1>5. /\ calls' \in [CallIds -> Calls \cup {Unsent}]
      /\ \A d \in CallIds \ {c} : calls'[d] = calls[d]
    BY <1>4 DEF ReadRights, TypeOK
<1>6. /\ calls'[c].op = calls[c].op /\ calls'[c].path = calls[c].path
      /\ calls'[c].whom = calls[c].whom /\ calls'[c].caller = calls[c].caller
      /\ calls'[c].after = calls[c].after /\ calls'[c].done
      /\ calls'[c].status = calls[c].status /\ calls'[c].reported = rights[calls[c].path]
    BY <1>1, <1>3 DEF Calls
<1> QED
    BY <1>1, <1>4, <1>5, <1>6 DEF Kept, ReadRights, catalogVars

\* The caller gets an answer.
LEMMA HandleFrame ==
    ASSUME TypeOK, NEW c \in CallIds, HandleResponse(c)
    PROVE  /\ Kept(c) /\ calls[c].done /\ calls'[c].done
           /\ calls[c].status = "open" /\ calls'[c].status \in {"answered", "raised"}
           /\ calls'[c].status = "answered" => calls'[c].accepted
           /\ calls'[c].reported = calls[c].reported
           /\ calls'[c].accepted = calls[c].accepted
           /\ UNCHANGED rights
<1>1. calls[c] \in Calls
    BY DEF HandleResponse, TypeOK, Unsent
<1>2. calls'[c] = [calls[c] EXCEPT
                      !.status = IF calls[c].accepted THEN "answered" ELSE "raised"]
    BY DEF HandleResponse, TypeOK
<1>3. calls'[c] \in Calls
    BY <1>1, <1>2 DEF Calls
<1>4. /\ calls' \in [CallIds -> Calls \cup {Unsent}]
      /\ \A d \in CallIds \ {c} : calls'[d] = calls[d]
    BY <1>3 DEF HandleResponse, TypeOK
<1>5. /\ calls'[c].op = calls[c].op /\ calls'[c].path = calls[c].path
      /\ calls'[c].whom = calls[c].whom /\ calls'[c].caller = calls[c].caller
      /\ calls'[c].after = calls[c].after /\ calls'[c].done = calls[c].done
      /\ calls'[c].reported = calls[c].reported /\ calls'[c].accepted = calls[c].accepted
      /\ calls'[c].status = IF calls[c].accepted THEN "answered" ELSE "raised"
    BY <1>1, <1>2 DEF Calls
<1> QED
    BY <1>1, <1>3, <1>4, <1>5 DEF Kept, HandleResponse, catalogVars

\* The caller gives up.
LEMMA TimeOutFrame ==
    ASSUME TypeOK, NEW c \in CallIds, TimeOut(c)
    PROVE  /\ Kept(c) /\ calls'[c].done = calls[c].done
           /\ calls[c].status = "open" /\ calls'[c].status = "raised"
           /\ calls'[c].reported = {} /\ ~calls'[c].accepted
           /\ UNCHANGED rights
<1>1. calls[c] \in Calls
    BY DEF TimeOut, TypeOK, Unsent
<1>2. calls'[c] = [calls[c] EXCEPT !.status = "raised", !.accepted = FALSE, !.reported = {}]
    BY DEF TimeOut, TypeOK
<1>3. calls'[c] \in Calls
    BY <1>1, <1>2 DEF Calls
<1>4. /\ calls' \in [CallIds -> Calls \cup {Unsent}]
      /\ \A d \in CallIds \ {c} : calls'[d] = calls[d]
    BY <1>3 DEF TimeOut, TypeOK
<1>5. /\ calls'[c].op = calls[c].op /\ calls'[c].path = calls[c].path
      /\ calls'[c].whom = calls[c].whom /\ calls'[c].caller = calls[c].caller
      /\ calls'[c].after = calls[c].after /\ calls'[c].done = calls[c].done
      /\ calls'[c].reported = {} /\ calls'[c].status = "raised" /\ ~calls'[c].accepted
    BY <1>1, <1>2 DEF Calls
<1> QED
    BY <1>1, <1>3, <1>4, <1>5 DEF Kept, TimeOut, catalogVars

---------------------------------------------------------------------------
\* What a call that was sent came after are other calls, already answered.
LEMMA SentType ==
    ASSUME TypeOK, Progress, NEW c \in CallIds, Sent(c)
    PROVE  /\ calls[c] \in Calls /\ calls[c].path \in Paths
           /\ calls[c].after \subseteq CallIds \ {c}
           /\ \A d \in calls[c].after : Sent(d) /\ calls[d].status = "answered" /\ calls[d].done
<1>1. calls[c] \in Calls
    BY DEF TypeOK, Unsent, Sent
<1>2. calls[c].after \subseteq CallIds /\ calls[c].path \in Paths
    BY <1>1 DEF Calls
<1> QED
    BY <1>1, <1>2 DEF Progress, Sent

\* The catalog has no part in what the calls establish.
LEMMA CatalogKeeps ==
    ASSUME IInv, UNCHANGED <<rights, calls>>
    PROVE  /\ Progress' /\ RightsExplained' /\ LossesExplained'
           /\ ReadersExplained' /\ AbsencesExplained'
<1> USE DEF IInv, Sent, LetsIn, ShutsOut, Concerns, LetIn, ShutOut, Did, ToldIn, ToldOut, TookOut, InfoOut
<1>1. Progress' /\ RightsExplained' /\ LossesExplained'
    BY DEF Progress, RightsExplained, LossesExplained
<1>2. ReadersExplained' /\ AbsencesExplained'
    BY DEF ReadersExplained, AbsencesExplained
<1> QED
    BY <1>1, <1>2

\* A call that is sent is not done, so nothing speaks of it yet; what it came after
\* is answered.
LEMMA SendKeeps ==
    ASSUME IInv, NEW c \in CallIds, NEW user \in Users, NEW op \in Operations,
           NEW argument \in Arguments, NEW table \in Tables,
           NEW whom \in SUBSET Recipients, Send(c, user, op, argument, table, whom)
    PROVE  IInv'
<1>0. TypeOK /\ Progress
    BY DEF IInv
<1>1. /\ calls[c].status = "none"
      /\ calls' \in [CallIds -> Calls \cup {Unsent}]
      /\ \A d \in CallIds \ {c} : calls'[d] = calls[d]
      /\ calls'[c].status = "open" /\ ~calls'[c].done /\ calls'[c].reported = {}
      /\ calls'[c].caller = calls'[c].path[1]
      /\ calls'[c].after = Answered
      /\ UNCHANGED <<home, tables, rights>>
    BY <1>0, SendFrame
<1>2. \A d \in CallIds : Sent(d) =>
          /\ calls[d].after \subseteq CallIds \ {c, d}
          /\ \A e \in calls[d].after : calls[e].status = "answered"
    BY <1>0, <1>1, SentType DEF Sent
<1> USE DEF Sent, LetsIn, ShutsOut, Concerns, LetIn, ShutOut, Did, ToldIn, ToldOut, TookOut, InfoOut
<1>3. c \notin Answered /\ Answered \subseteq CallIds
    BY <1>1 DEF Answered
<1>4. TypeOK'
    BY <1>0, <1>1 DEF TypeOK
<1>5. Progress'
    BY <1>0, <1>1, <1>2, <1>3 DEF Progress, Answered
<1>6. RightsExplained'
    BY <1>1, <1>2 DEF IInv, RightsExplained
<1>7. LossesExplained'
    BY <1>1, <1>2 DEF IInv, LossesExplained
<1>8. ReadersExplained'
    <2> SUFFICES ASSUME NEW i \in CallIds, InfoOut(i)', NEW reader \in calls'[i].reported
                 PROVE  \E g \in CallIds :
                          /\ LetIn(g, calls[i].path, reader)'
                          /\ \A j \in calls'[i].after :
                                ToldOut(j, calls[i].path, reader)' => g \notin calls'[j].after
        BY DEF ReadersExplained
    <2>1. i # c /\ calls'[i] = calls[i]
        BY <1>1
    <2>2. PICK g \in CallIds :
              /\ LetIn(g, calls[i].path, reader)
              /\ \A j \in calls[i].after :
                    ToldOut(j, calls[i].path, reader) => g \notin calls[j].after
        BY <2>1 DEF IInv, ReadersExplained
    <2>3. g # c /\ calls[i].after \subseteq CallIds \ {c}
        BY <1>1, <1>2, <2>1, <2>2
    <2> QED
        BY <1>1, <2>1, <2>2, <2>3
<1>9. AbsencesExplained'
    <2> SUFFICES ASSUME NEW i \in CallIds, InfoOut(i)',
                        NEW reader \in Recipients \ calls'[i].reported,
                        NEW g \in calls'[i].after, ToldIn(g, calls[i].path, reader)'
                 PROVE  \E j \in CallIds :
                          /\ ShutOut(j, calls[i].path, reader)'
                          /\ j \notin calls'[g].after /\ i \notin calls'[j].after
        BY DEF AbsencesExplained
    <2>1. i # c /\ calls'[i] = calls[i]
        BY <1>1
    <2>2. g \in CallIds /\ g # c /\ calls'[g] = calls[g]
        BY <1>1, <1>2, <2>1
    <2>3. PICK j \in CallIds :
              /\ ShutOut(j, calls[i].path, reader)
              /\ j \notin calls[g].after /\ i \notin calls[j].after
        BY <2>1, <2>2 DEF IInv, AbsencesExplained
    <2> QED
        BY <1>1, <2>1, <2>2, <2>3
<1> QED
    BY <1>4, <1>5, <1>6, <1>7, <1>8, <1>9 DEF IInv

\* The service acts: a right it takes away is gone, one it gives is explained by this
\* very call, which no call can be after.
LEMMA ChangeKeeps ==
    ASSUME IInv, NEW c \in CallIds, NEW moved \in SUBSET Recipients, NEW accepted \in BOOLEAN,
           ChangeRights(c, moved, accepted)
    PROVE  IInv'
<1>0. TypeOK /\ Progress
    BY DEF IInv
<1>1. Changed(c, moved)
    BY <1>0, ChangeFrame, Zenon
<1> USE DEF Sent, LetsIn, ShutsOut, Concerns, LetIn, ShutOut, Did, ToldIn, ToldOut, TookOut,
        InfoOut, Kept, Changed
<1>2. calls[c].status \in {"open", "raised"} /\ calls[c].path \in Paths
    BY <1>1 DEF Calls
<1>3. \A d \in CallIds : Sent(d) =>
          /\ calls[d].after \subseteq CallIds \ {c, d}
          /\ \A e \in calls[d].after : calls[e].status = "answered"
    BY <1>0, <1>2, SentType
<1>4. TypeOK'
    BY <1>1, <1>2 DEF IInv, TypeOK
<1>5. Progress'
    BY <1>1, <1>2, <1>3 DEF IInv, Progress
<1>6. RightsExplained'
    <2> SUFFICES ASSUME NEW path \in Paths, NEW reader \in rights'[path]
                 PROVE  \E g \in CallIds :
                          /\ LetIn(g, path, reader)'
                          /\ \A j \in CallIds :
                                TookOut(j, path, reader)' => g \notin calls'[j].after
        BY DEF RightsExplained
    <2>1. CASE reader \in rights[path]
        <3>1. PICK g \in CallIds :
                  /\ LetIn(g, path, reader)
                  /\ \A j \in CallIds : TookOut(j, path, reader) => g \notin calls[j].after
            BY <2>1 DEF IInv, RightsExplained
        <3>2. ~TookOut(c, path, reader)'
            BY <1>1, <1>2 DEF Grants, Revokes
        <3>3. g # c
            BY <1>1, <3>1
        <3> QED
            BY <1>1, <3>1, <3>2, <3>3
    <2>2. CASE reader \notin rights[path]
        <3>1. path = calls[c].path /\ calls[c].op \in Grants /\ reader \in moved
            BY <1>1, <1>2, <2>2
        <3>2. LetIn(c, path, reader)'
            BY <1>1, <1>2, <3>1 DEF IInv, Progress
        <3>3. \A j \in CallIds : calls'[j].status # "none" => c \notin calls'[j].after
            BY <1>1, <1>3
        <3> QED
            BY <1>1, <3>2, <3>3
    <2> QED
        BY <2>1, <2>2
<1>7. LossesExplained'
    <2> SUFFICES ASSUME NEW g \in CallIds, NEW reader \in Recipients,
                        Sent(g)', calls'[g].done, calls'[g].op \in Grants,
                        reader \in calls'[g].reported,
                        reader \notin rights'[calls'[g].path]
                 PROVE  \E j \in CallIds :
                          /\ ShutOut(j, calls[g].path, reader)'
                          /\ j \notin calls'[g].after
        BY <1>1 DEF LossesExplained
    <2>1. g # c
        BY <1>1, <1>2 DEF Grants, Revokes
    <2>2. calls'[g] = calls[g] /\ calls[g].path \in Paths
        BY <1>1, <2>1 DEF IInv, TypeOK, Calls, Unsent
    <2>3. CASE reader \notin rights[calls[g].path]
        <3>1. PICK j \in CallIds :
                  ShutOut(j, calls[g].path, reader) /\ j \notin calls[g].after
            BY <2>2, <2>3 DEF IInv, LossesExplained
        <3> QED
            BY <1>1, <2>2, <3>1
    <2>4. CASE reader \in rights[calls[g].path]
        <3>1. calls[g].path = calls[c].path /\ calls[c].op \in Revokes
            BY <1>1, <1>2, <2>2, <2>4
        <3>2. calls[c].op = "private" \/ reader \in moved
            BY <1>1, <2>2, <2>4, <3>1
        <3>3. ShutOut(c, calls[g].path, reader)'
            BY <1>1, <1>2, <3>1, <3>2 DEF Revokes
        <3> QED
            BY <1>1, <1>3, <2>2, <3>3
    <2> QED
        BY <2>3, <2>4
<1>8. calls[c].op # "info"
    BY <1>1 DEF Grants, Revokes
<1>9. ReadersExplained'
    <2> SUFFICES ASSUME NEW i \in CallIds, InfoOut(i)', NEW reader \in calls'[i].reported
                 PROVE  \E g \in CallIds :
                          /\ LetIn(g, calls[i].path, reader)'
                          /\ \A j \in calls'[i].after :
                                ToldOut(j, calls[i].path, reader)' => g \notin calls'[j].after
        BY DEF ReadersExplained
    <2>1. i # c /\ calls'[i] = calls[i]
        BY <1>1, <1>8
    <2>2. PICK g \in CallIds :
              /\ LetIn(g, calls[i].path, reader)
              /\ \A j \in calls[i].after :
                    ToldOut(j, calls[i].path, reader) => g \notin calls[j].after
        BY <2>1 DEF IInv, ReadersExplained
    <2>3. calls[i].after \subseteq CallIds \ {c}
        BY <1>3, <2>1
    <2>4. LetIn(g, calls[i].path, reader)'
        BY <1>1, <2>2
    <2> QED
        BY <1>1, <2>1, <2>2, <2>3, <2>4
<1>10. AbsencesExplained'
    <2> SUFFICES ASSUME NEW i \in CallIds, InfoOut(i)',
                        NEW reader \in Recipients \ calls'[i].reported,
                        NEW g \in calls'[i].after, ToldIn(g, calls[i].path, reader)'
                 PROVE  \E j \in CallIds :
                          /\ ShutOut(j, calls[i].path, reader)'
                          /\ j \notin calls'[g].after /\ i \notin calls'[j].after
        BY DEF AbsencesExplained
    <2>1. i # c /\ calls'[i] = calls[i]
        BY <1>1, <1>8
    <2>2. g \in CallIds /\ g # c /\ calls'[g] = calls[g]
        BY <1>1, <1>3, <2>1
    <2>3. PICK j \in CallIds :
              /\ ShutOut(j, calls[i].path, reader)
              /\ j \notin calls[g].after /\ i \notin calls[j].after
        BY <2>1, <2>2 DEF IInv, AbsencesExplained
    <2>4. ShutOut(j, calls[i].path, reader)'
        BY <1>1, <2>3
    <2>5. calls'[j].after = calls[j].after
        BY <1>1
    <2> QED
        BY <2>1, <2>2, <2>3, <2>4, <2>5
<1> QED
    BY <1>4, <1>5, <1>6, <1>7, <1>9, <1>10 DEF IInv

\* The service reads rights: each is explained, each absence too.
LEMMA ReadKeeps ==
    ASSUME IInv, NEW c \in CallIds, ReadRights(c)
    PROVE  IInv'
<1>0. TypeOK /\ Progress
    BY DEF IInv
<1>1. /\ Kept(c) /\ ~calls[c].done /\ calls'[c].done
      /\ calls[c].status = "open" /\ calls'[c].status = "open" /\ calls[c].op = "info"
      /\ calls'[c].reported = rights[calls[c].path]
      /\ UNCHANGED rights
    BY <1>0, ReadFrame
<1> USE DEF Sent, LetsIn, ShutsOut, Concerns, LetIn, ShutOut, Did, ToldIn, ToldOut, TookOut,
        InfoOut, Kept
<1>2. \A d \in CallIds : Sent(d) =>
          /\ calls[d].after \subseteq CallIds \ {c, d}
          /\ \A e \in calls[d].after : Sent(e) /\ calls[e].status = "answered" /\ calls[e].done
    BY <1>0, <1>1, SentType
<1>3. calls[c].path \in Paths /\ c \notin calls[c].after
    BY <1>1, <1>2 DEF Calls
<1>4. TypeOK'
    BY <1>0, <1>1 DEF TypeOK
<1>5. Progress'
    BY <1>0, <1>1, <1>2 DEF Progress
<1>6. RightsExplained'
    <2> SUFFICES ASSUME NEW path \in Paths, NEW reader \in rights[path]
                 PROVE  \E g \in CallIds :
                          /\ LetIn(g, path, reader)'
                          /\ \A j \in CallIds :
                                TookOut(j, path, reader)' => g \notin calls'[j].after
        BY <1>1 DEF RightsExplained
    <2>1. PICK g \in CallIds :
              /\ LetIn(g, path, reader)
              /\ \A j \in CallIds : TookOut(j, path, reader) => g \notin calls[j].after
        BY DEF IInv, RightsExplained
    <2> QED
        BY <1>1, <2>1 DEF Revokes
<1>7. LossesExplained'
    <2> SUFFICES ASSUME NEW g \in CallIds, NEW reader \in Recipients,
                        Sent(g)', calls'[g].done, calls'[g].op \in Grants,
                        reader \in calls'[g].reported,
                        reader \notin rights[calls'[g].path]
                 PROVE  \E j \in CallIds :
                          /\ ShutOut(j, calls[g].path, reader)'
                          /\ j \notin calls'[g].after
        BY <1>1 DEF LossesExplained
    <2>1. g # c /\ calls'[g] = calls[g]
        BY <1>1 DEF Grants
    <2>2. PICK j \in CallIds :
              ShutOut(j, calls[g].path, reader) /\ j \notin calls[g].after
        BY <1>1, <2>1 DEF IInv, LossesExplained
    <2> QED
        BY <1>1, <2>1, <2>2
<1>8. ReadersExplained'
    <2> SUFFICES ASSUME NEW i \in CallIds, InfoOut(i)', NEW reader \in calls'[i].reported
                 PROVE  \E g \in CallIds :
                          /\ LetIn(g, calls[i].path, reader)'
                          /\ \A j \in calls'[i].after :
                                ToldOut(j, calls[i].path, reader)' => g \notin calls'[j].after
        BY DEF ReadersExplained
    <2>1. calls[i].after \subseteq CallIds \ {c} /\ Sent(i)
        BY <1>1, <1>2
    <2>2. \A j \in calls[i].after : Sent(j) /\ calls[j].done /\ calls'[j] = calls[j]
        BY <1>1, <1>2, <2>1
    <2>3. \E g \in CallIds :
              /\ LetIn(g, calls[i].path, reader)
              /\ \A j \in calls[i].after :
                    ToldOut(j, calls[i].path, reader) => g \notin calls[j].after
        <3>1. CASE i = c
            <4>1. reader \in rights[calls[c].path]
                BY <1>1, <3>1
            <4>2. PICK g \in CallIds :
                      /\ LetIn(g, calls[c].path, reader)
                      /\ \A j \in CallIds :
                            TookOut(j, calls[c].path, reader) => g \notin calls[j].after
                BY <1>3, <4>1 DEF IInv, RightsExplained
            <4> QED
                BY <2>1, <2>2, <3>1, <4>2
        <3>2. CASE i # c
            <4>1. calls'[i] = calls[i]
                BY <1>1, <3>2
            <4> QED
                BY <4>1 DEF IInv, ReadersExplained
        <3> QED
            BY <3>1, <3>2
    <2>4. calls'[i].path = calls[i].path /\ calls'[i].after = calls[i].after
        BY <1>1
    <2>5. PICK g \in CallIds :
              /\ LetIn(g, calls[i].path, reader)
              /\ \A j \in calls[i].after :
                    ToldOut(j, calls[i].path, reader) => g \notin calls[j].after
        BY <2>3
    <2>6. LetIn(g, calls[i].path, reader)'
        BY <1>1, <2>5 DEF Grants
    <2> QED
        BY <2>2, <2>4, <2>5, <2>6
<1>9. AbsencesExplained'
    <2> SUFFICES ASSUME NEW i \in CallIds, InfoOut(i)',
                        NEW reader \in Recipients \ calls'[i].reported,
                        NEW g \in calls'[i].after, ToldIn(g, calls[i].path, reader)'
                 PROVE  \E j \in CallIds :
                          /\ ShutOut(j, calls[i].path, reader)'
                          /\ j \notin calls'[g].after /\ i \notin calls'[j].after
        BY DEF AbsencesExplained
    <2>1. /\ calls'[i].path = calls[i].path /\ calls'[i].after = calls[i].after
          /\ calls[i].status # "none"
        BY <1>1
    <2>2. g \in CallIds /\ g # c /\ calls'[g] = calls[g] /\ calls[g].done
        BY <1>1, <1>2, <2>1
    <2>3. \E j \in CallIds :
              /\ ShutOut(j, calls[i].path, reader)
              /\ j \notin calls[g].after /\ i \notin calls[j].after
        <3>1. CASE i = c
            <4>1. reader \notin rights[calls[g].path] /\ calls[g].path = calls[c].path
                BY <1>1, <2>1, <2>2, <3>1
            <4>2. PICK j \in CallIds :
                      ShutOut(j, calls[g].path, reader) /\ j \notin calls[g].after
                BY <2>2, <4>1 DEF IInv, LossesExplained
            <4>3. c \notin calls[j].after
                BY <1>2, <4>2
            <4> QED
                BY <3>1, <4>1, <4>2, <4>3
        <3>2. CASE i # c
            <4>1. calls'[i] = calls[i]
                BY <1>1, <3>2
            <4> QED
                BY <2>2, <4>1 DEF IInv, AbsencesExplained
        <3> QED
            BY <3>1, <3>2
    <2>4. PICK j \in CallIds :
              /\ ShutOut(j, calls[i].path, reader)
              /\ j \notin calls[g].after /\ i \notin calls[j].after
        BY <2>3
    <2>5. ShutOut(j, calls[i].path, reader)' /\ calls'[j].after = calls[j].after
        BY <1>1, <2>4
    <2> QED
        BY <2>1, <2>2, <2>4, <2>5
<1> QED
    BY <1>4, <1>5, <1>6, <1>7, <1>8, <1>9 DEF IInv

\* The caller's side of a call: nothing that was sent comes after a call that is open,
\* so no explanation speaks of what this step changes.
LEMMA ReturnKeeps ==
    ASSUME IInv, NEW c \in CallIds, HandleResponse(c) \/ TimeOut(c)
    PROVE  IInv'
<1>0. TypeOK /\ Progress
    BY DEF IInv
<1>1. /\ Kept(c) /\ calls[c].status = "open" /\ UNCHANGED rights
      /\ calls'[c].done = calls[c].done
      /\ \/ calls'[c].status = "raised"
         \/ calls'[c].status = "answered" /\ calls'[c].done /\ calls'[c].accepted
      /\ \/ calls'[c].reported = calls[c].reported /\ calls'[c].accepted = calls[c].accepted
         \/ calls'[c].reported = {} /\ calls'[c].status = "raised" /\ ~calls'[c].accepted
    <2>1. CASE HandleResponse(c)
        BY <1>0, <2>1, HandleFrame DEF Kept, Calls
    <2>2. CASE TimeOut(c)
        BY <1>0, <2>2, TimeOutFrame
    <2> QED
        BY <2>1, <2>2
<1> USE DEF Sent, LetsIn, ShutsOut, Concerns, LetIn, ShutOut, Did, ToldIn, ToldOut, TookOut,
        InfoOut, Kept
<1>2. \A d \in CallIds : Sent(d) =>
          /\ calls[d].after \subseteq CallIds \ {c, d}
          /\ \A e \in calls[d].after : calls[e].status = "answered"
    BY <1>0, <1>1, SentType
<1>3. \A d \in CallIds : calls'[d].status # "none" => calls[d].status # "none"
    BY <1>1
<1>4. TypeOK'
    BY <1>0, <1>1 DEF TypeOK
<1>5. Progress'
    BY <1>0, <1>1, <1>2 DEF Progress
<1>6. RightsExplained'
    <2> SUFFICES ASSUME NEW path \in Paths, NEW reader \in rights[path]
                 PROVE  \E g \in CallIds :
                          /\ LetIn(g, path, reader)'
                          /\ \A j \in CallIds :
                                TookOut(j, path, reader)' => g \notin calls'[j].after
        BY <1>1 DEF RightsExplained
    <2>1. PICK g \in CallIds :
              /\ LetIn(g, path, reader)
              /\ \A j \in CallIds : TookOut(j, path, reader) => g \notin calls[j].after
        BY DEF IInv, RightsExplained
    <2> QED
        BY <1>1, <2>1
<1>7. LossesExplained'
    <2> SUFFICES ASSUME NEW g \in CallIds, NEW reader \in Recipients,
                        Sent(g)', calls'[g].done, calls'[g].op \in Grants,
                        reader \in calls'[g].reported,
                        reader \notin rights[calls'[g].path]
                 PROVE  \E j \in CallIds :
                          /\ ShutOut(j, calls[g].path, reader)'
                          /\ j \notin calls'[g].after
        BY <1>1 DEF LossesExplained
    <2>1. PICK j \in CallIds :
              ShutOut(j, calls[g].path, reader) /\ j \notin calls[g].after
        BY <1>1 DEF IInv, LossesExplained
    <2> QED
        BY <1>1, <2>1
<1>8. \A i \in CallIds : InfoOut(i)' =>
          /\ InfoOut(i) /\ calls'[i].reported = calls[i].reported
          /\ calls'[i].path = calls[i].path /\ calls'[i].after = calls[i].after
          /\ calls[i].after \subseteq CallIds \ {c}
          /\ \A j \in calls[i].after : calls'[j] = calls[j]
    BY <1>1, <1>2
<1>9. ReadersExplained'
    <2> SUFFICES ASSUME NEW i \in CallIds, InfoOut(i)', NEW reader \in calls'[i].reported
                 PROVE  \E g \in CallIds :
                          /\ LetIn(g, calls[i].path, reader)'
                          /\ \A j \in calls'[i].after :
                                ToldOut(j, calls[i].path, reader)' => g \notin calls'[j].after
        BY DEF ReadersExplained
    <2>1. PICK g \in CallIds :
              /\ LetIn(g, calls[i].path, reader)
              /\ \A j \in calls[i].after :
                    ToldOut(j, calls[i].path, reader) => g \notin calls[j].after
        BY <1>8 DEF IInv, ReadersExplained
    <2>2. LetIn(g, calls[i].path, reader)'
        BY <1>1, <1>8, <2>1
    <2> QED
        BY <1>8, <2>1, <2>2
<1>10. AbsencesExplained'
    <2> SUFFICES ASSUME NEW i \in CallIds, InfoOut(i)',
                        NEW reader \in Recipients \ calls'[i].reported,
                        NEW g \in calls'[i].after, ToldIn(g, calls[i].path, reader)'
                 PROVE  \E j \in CallIds :
                          /\ ShutOut(j, calls[i].path, reader)'
                          /\ j \notin calls'[g].after /\ i \notin calls'[j].after
        BY DEF AbsencesExplained
    <2>1. g \in calls[i].after /\ calls'[g] = calls[g]
        BY <1>8
    <2>2. PICK j \in CallIds :
              /\ ShutOut(j, calls[i].path, reader)
              /\ j \notin calls[g].after /\ i \notin calls[j].after
        BY <1>8, <2>1 DEF IInv, AbsencesExplained
    <2>3. ShutOut(j, calls[i].path, reader)' /\ calls'[j].after = calls[j].after
        BY <1>1, <1>8, <2>2
    <2> QED
        BY <2>1, <2>2, <2>3
<1> QED
    BY <1>4, <1>5, <1>6, <1>7, <1>9, <1>10 DEF IInv

---------------------------------------------------------------------------
LEMMA InitIInv == Init => IInv
<1> SUFFICES ASSUME Init PROVE IInv
    OBVIOUS
<1>1. \A c \in CallIds : calls[c].status = "none"
    BY DEF Init, Unsent
<1>2. TypeOK
    BY <1>1 DEF Init, TypeOK
<1>3. Progress /\ RightsExplained
    BY <1>1 DEF Init, Progress, RightsExplained, Sent
<1>4. LossesExplained /\ ReadersExplained /\ AbsencesExplained
    BY <1>1 DEF LossesExplained, ReadersExplained, AbsencesExplained, Sent, InfoOut
<1> QED
    BY <1>2, <1>3, <1>4 DEF IInv

LEMMA NextIInv == IInv /\ [Next]_vars => IInv'
<1> SUFFICES ASSUME IInv, [Next]_vars PROVE IInv'
    OBVIOUS
<1>1. CASE Catalog \/ UNCHANGED vars
    <2>1. UNCHANGED <<rights, calls>>
        BY <1>1 DEF Catalog, DropDatabase, CreateNamespace, SaveTable, RemoveTable, vars
    <2>2. TypeOK'
        <3>1. /\ home' \in [Namespaces -> Targets \cup {NoTarget}]
              /\ tables' \subseteq Namespaces \X Tables
              /\ \A place \in tables' : home'[place[1]] # NoTarget
            <4> USE SharingAssumption DEF IInv, TypeOK
            <4>1. CASE \E ns \in Namespaces : DropDatabase(ns)
                BY <4>1 DEF DropDatabase
            <4>2. CASE \E ns \in Namespaces, target \in Targets : CreateNamespace(target, ns)
                BY <4>2 DEF CreateNamespace
            <4>3. CASE \E ns \in Namespaces, table \in Tables : SaveTable(ns, table)
                BY <4>3 DEF SaveTable
            <4>4. CASE \E ns \in Namespaces, table \in Tables : RemoveTable(ns, table)
                BY <4>4 DEF RemoveTable
            <4>5. CASE UNCHANGED vars
                BY <4>5 DEF vars
            <4> QED
                BY <1>1, <4>1, <4>2, <4>3, <4>4, <4>5 DEF Catalog
        <3> QED
            BY <2>1, <3>1 DEF IInv, TypeOK
    <2> QED
        BY <2>1, <2>2, CatalogKeeps DEF IInv
<1>2. ASSUME NEW c \in CallIds, Call(c) PROVE IInv'
    <2>1. /\ \A whom \in Lists : whom \in SUBSET Recipients
          /\ {Everyone} \in SUBSET Recipients /\ {} \in SUBSET Recipients
        BY SharingAssumption DEF Recipients
    <2>2. \E user \in Users, op \in Operations, argument \in Arguments, table \in Tables,
             whom \in SUBSET Recipients : Send(c, user, op, argument, table, whom)
        BY <1>2, <2>1 DEF Call, ShareTable, UnshareTable, MakeTablePublic, MakeTablePrivate,
                          GetTableAccessInfo, Operations
    <2> QED
        BY <2>2, SendKeeps
<1>3. ASSUME NEW c \in CallIds, Serve(c) PROVE IInv'
    <2>1. CASE ReadRights(c)
        BY <2>1, ReadKeeps
    <2>2. ASSUME NEW moved \in SUBSET Recipients, NEW accepted \in BOOLEAN,
                 ChangeRights(c, moved, accepted)
          PROVE  IInv'
        BY <2>2, ChangeKeeps, Zenon
    <2> QED
        BY <1>3, <2>1, <2>2, Zenon DEF Serve
<1>4. ASSUME NEW c \in CallIds, HandleResponse(c) \/ TimeOut(c) PROVE IInv'
    BY <1>4, ReturnKeeps
<1> QED
    BY <1>1, <1>2, <1>3, <1>4 DEF Next

\* The strengthened invariant holds throughout.
THEOREM SharingInvariant == Spec => []IInv
<1> QED
    BY InitIInv, NextIInv, PTL DEF Spec

\* Every variable keeps its type, and an answer is one of success, in every behaviour.
THEOREM SharingTypeOK == Spec => []TypeOK
<1>1. IInv => TypeOK
    BY DEF IInv
<1> QED
    BY <1>1, SharingInvariant, PTL

\* Whoever can read a table was let in by its owner, by a call that no answered
\* unshare_table or make_table_private came after.
THEOREM OnlyAskedReaders == Spec => []ReadersWereLetIn
<1>1. IInv => ReadersWereLetIn
    <2> SUFFICES ASSUME IInv, NEW place \in Namespaces \X Tables, InUserWarehouse(place),
                        NEW reader \in rights[Location(place)]
                 PROVE  \E g \in CallIds :
                          /\ LetsIn(g, Location(place), reader)
                          /\ \A j \in CallIds :
                                ToldOut(j, Location(place), reader) => g \notin calls[j].after
        BY DEF ReadersWereLetIn
    <2>1. Location(place) \in Paths
        BY DEF Location, Paths, InUserWarehouse
    <2>2. \A j \in CallIds :
              ToldOut(j, Location(place), reader) => TookOut(j, Location(place), reader)
        BY DEF IInv, Progress, ToldOut, TookOut, Sent
    <2> QED
        BY <2>1, <2>2 DEF IInv, RightsExplained, LetIn
<1> QED
    BY <1>1, SharingInvariant, PTL

\* What the answer of share_table or make_table_public says stays true until the caller
\* sends something that may undo it.
THEOREM SharesLast == Spec => []SharesReachTheTable
<1>1. IInv => SharesReachTheTable
    <2> SUFFICES ASSUME IInv, NEW place \in Namespaces \X Tables, NEW g \in CallIds,
                        NEW reader \in Recipients,
                        ToldIn(g, Location(place), reader),
                        reader \notin rights[Location(place)]
                 PROVE  \E j \in CallIds :
                          ShutsOut(j, Location(place), reader) /\ j \notin calls[g].after
        BY DEF SharesReachTheTable
    <2> QED
        BY DEF IInv, Progress, LossesExplained, ToldIn, Sent, ShutOut
<1> QED
    BY <1>1, SharingInvariant, PTL

\* get_table_access_info is a regular read of the rights on the caller's path.
THEOREM AccessInfoCorrect == Spec => []AccessInfoIsRegular
<1>1. IInv => AccessInfoIsRegular
    <2> SUFFICES ASSUME IInv, NEW i \in CallIds, InfoOut(i), NEW reader \in Recipients
                 PROVE  IF reader \in calls[i].reported
                        THEN \E g \in CallIds :
                                /\ LetsIn(g, calls[i].path, reader)
                                /\ \A j \in calls[i].after :
                                      ToldOut(j, calls[i].path, reader) => g \notin calls[j].after
                        ELSE \A g \in calls[i].after : ToldIn(g, calls[i].path, reader) =>
                                \E j \in CallIds :
                                    /\ ShutsOut(j, calls[i].path, reader)
                                    /\ j \notin calls[g].after /\ i \notin calls[j].after
        BY DEF AccessInfoIsRegular, InfoOut, IInv, Progress, Sent
    <2> QED
        BY DEF IInv, ReadersExplained, AbsencesExplained, LetIn, ShutOut
<1> QED
    BY <1>1, SharingInvariant, PTL
---------------------------------------------------------------------------
(* What a user can rely on who waits for each answer.                      *)

ChangesPath(c, path) == Sent(c) /\ calls[c].path = path /\ calls[c].op # "info"

\* Each call that changes rights on the path was answered before the next was sent.
OneAtATime(path) ==
    \A c, d \in CallIds : ChangesPath(c, path) /\ ChangesPath(d, path) =>
        /\ calls[c].status = "answered"
        /\ c = d \/ c \in calls[d].after \/ d \in calls[c].after

\* A reader has the right if an answer gave it and nothing that may take it away was
\* sent since, and has it only if an answer gave it and none took it away since.  The
\* two differ for make_table_private alone, which may take shares away or not.
RightsAreAsAnswered ==
    \A path \in Paths, reader \in Recipients : OneAtATime(path) =>
        /\ (\E g \in CallIds :
               /\ ToldIn(g, path, reader)
               /\ \A j \in CallIds : ShutsOut(j, path, reader) => j \in calls[g].after)
           => reader \in rights[path]
        /\ reader \in rights[path] =>
             \E g \in CallIds :
                /\ ToldIn(g, path, reader)
                /\ \A j \in CallIds : ToldOut(j, path, reader) => j \in calls[g].after

\* Where nothing was lost, late or at once with something else, the rights of a table
\* are what the answers of share_table, unshare_table and the two others say.
THEOREM AnswersTellTheRights == Spec => []RightsAreAsAnswered
<1>1. IInv => RightsAreAsAnswered
    <2> SUFFICES ASSUME IInv, NEW path \in Paths, NEW reader \in Recipients, OneAtATime(path)
                 PROVE  /\ (\E g \in CallIds :
                               /\ ToldIn(g, path, reader)
                               /\ \A j \in CallIds :
                                     ShutsOut(j, path, reader) => j \in calls[g].after)
                           => reader \in rights[path]
                        /\ reader \in rights[path] =>
                             \E g \in CallIds :
                                /\ ToldIn(g, path, reader)
                                /\ \A j \in CallIds :
                                      ToldOut(j, path, reader) => j \in calls[g].after
        BY DEF RightsAreAsAnswered
    <2>1. ASSUME NEW g \in CallIds, ToldIn(g, path, reader),
                 \A j \in CallIds : ShutsOut(j, path, reader) => j \in calls[g].after
          PROVE  reader \in rights[path]
        BY <2>1 DEF IInv, Progress, LossesExplained, ToldIn, Sent, ShutOut
    <2>2. ASSUME reader \in rights[path]
          PROVE  \E g \in CallIds :
                    /\ ToldIn(g, path, reader)
                    /\ \A j \in CallIds : ToldOut(j, path, reader) => j \in calls[g].after
        <3>1. PICK g \in CallIds :
                  /\ LetIn(g, path, reader)
                  /\ \A j \in CallIds : TookOut(j, path, reader) => g \notin calls[j].after
            BY <2>2 DEF IInv, RightsExplained
        <3>2. ChangesPath(g, path)
            BY <3>1 DEF LetIn, LetsIn, ChangesPath, Sent, Grants
        <3>3. calls[g].status = "answered" /\ calls[g].accepted
            BY <3>2 DEF OneAtATime, IInv, TypeOK
        <3>4. ToldIn(g, path, reader)
            BY <3>1, <3>3 DEF LetIn, LetsIn, Concerns, ToldIn
        <3>5. ASSUME NEW j \in CallIds, ToldOut(j, path, reader) PROVE j \in calls[g].after
            <4>1. TookOut(j, path, reader) /\ ChangesPath(j, path) /\ j # g
                BY <3>1, <3>5 DEF IInv, Progress, ToldOut, TookOut, ChangesPath, Sent, LetIn,
                   LetsIn, Grants, Revokes
            <4> QED
                BY <3>1, <3>2, <4>1 DEF OneAtATime
        <3> QED
            BY <3>4, <3>5
    <2> QED
        BY <2>1, <2>2
<1> QED
    BY <1>1, SharingInvariant, PTL

=============================================================================
