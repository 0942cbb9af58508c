------------------------ MODULE AdministrationProofs ------------------------
(***************************************************************************)
(* Theorems about what administrators maintain, for every number of them   *)
(* and of the records they edit, and about what runs beside the requests:  *)
(* a start of the server, cut off anywhere and begun anew, loses no        *)
(* presence and counts no default status twice (Startup); the reminders    *)
(* worker reminds nobody twice of the same thing and forgets nobody whom   *)
(* nothing happened to, whatever the forced run, the edits and the         *)
(* acknowledgements do meanwhile (Reminders).                              *)
(***************************************************************************)
EXTENDS Desks, Directory, News, PlanImages, TeamRoster, Startup, Reminders,
        FiniteSetTheorems, WellFoundedInduction, TLAPS

-----------------------------------------------------------------------------
(* Sites, domains, statuses and the records linked to them.                *)

(* A request links only what its owner may have.                           *)
TasksFit ==
    \A a \in Admins : admin[a].op = "attach" =>
        \A c \in admin[a].todo : Linkable(c, admin[a].owner)

(* A deletion that has a kind of record behind it has detached or counted  *)
(* that kind, and a row goes after all of them.                            *)
DetachedFirst ==
    /\ \A a \in Admins : admin[a].op = "delete" =>
          \A k \in LinkedKinds(KindOf[admin[a].owner]) \ admin[a].kinds :
              <<k, admin[a].owner>> \in detached
    /\ \A o \in Owners : ownerRows[o] = "gone" =>
          \A k \in LinkedKinds(KindOf[o]) : <<k, o>> \in detached

(* Whatever is linked to an owner that its kind is detached from was       *)
(* linked later.                                                           *)
LinkedAfter ==
    \A c \in Owned : link[c] # Unlinked /\ <<KindOf[c], link[c]>> \in detached
                        => c \in linkedLate

DirectoryInv == DirectoryTypeOK /\ TasksFit /\ DetachedFirst /\ LinkedAfter

LEMMA InitDirectory == DirectoryInit => DirectoryInv
  BY DirectoryAssumption
  DEF DirectoryInit, DirectoryInv, DirectoryTypeOK, TasksFit, DetachedFirst, LinkedAfter, NoTask

LEMMA DirectorySuffices == DirectoryInv => DanglingWasLate
  BY DEF DirectoryInv, DirectoryTypeOK, DetachedFirst, LinkedAfter, DanglingWasLate, Linkable

LEMMA KindsFit ==
    \A o \in Owners : /\ LinkedKinds(KindOf[o]) \subseteq OwnedKinds
                      /\ KindOf[o] = "site" => LinkedKinds(KindOf[o]) = {"user", "plan"}
                      /\ KindOf[o] = "domain" => LinkedKinds(KindOf[o]) = {"team"}
                      /\ KindOf[o] = "status" => LinkedKinds(KindOf[o]) = {"presence"}
  BY DirectoryAssumption DEF LinkedKinds, OwnedKinds, OwnerKinds

(* One UPDATE of links keeps them fit and the late ones known.             *)
LEMMA LinkAllKeeps ==
    ASSUME DirectoryInv, NEW cs \in SUBSET Owned, NEW o \in Owners \cup {Unlinked},
           LinkAll(cs, o), o # Unlinked => \A c \in cs : Linkable(c, o)
    PROVE  /\ link' \in [Owned -> Owners \cup {Unlinked}]
           /\ \A c \in Owned : link'[c] = Unlinked \/ Linkable(c, link'[c])
           /\ linkedLate' \subseteq Owned
           /\ \A c \in Owned : link'[c] # Unlinked /\ <<KindOf[c], link'[c]>> \in detached
                                  => c \in linkedLate'
  <1>1. /\ link \in [Owned -> Owners \cup {Unlinked}] /\ linkedLate \subseteq Owned
        /\ \A c \in Owned : link[c] = Unlinked \/ Linkable(c, link[c])
    BY DEF DirectoryInv, DirectoryTypeOK
  <1>2. \A c \in Owned : link'[c] = IF c \in cs THEN o ELSE link[c]
    BY DEF LinkAll
  <1>3. \A c \in Owned : link'[c] # Unlinked /\ <<KindOf[c], link'[c]>> \in detached
                             => c \in linkedLate'
    BY <1>2 DEF LinkAll, DirectoryInv, LinkedAfter
  <1>4. QED
    BY <1>1, <1>2, <1>3 DEF LinkAll

(* What a request may turn to: no task, or one that links fit records, and *)
(* whose kinds no longer to detach are detached.                           *)
TaskGoesOn(t) ==
    \/ t = NoTask
    \/ /\ t \in Task
       /\ t.op = "attach" => \A c \in t.todo : Linkable(c, t.owner)
       /\ t.op = "delete" => \A k \in LinkedKinds(KindOf[t.owner]) \ t.kinds :
                                 <<k, t.owner>> \in detached'

(* The links change as LinkAll says, or not at all; nothing is deleted.    *)
LEMMA LinkingKeeps ==
    ASSUME DirectoryInv, NEW a \in Admins,
           /\ UNCHANGED detached /\ failures' \in 0 .. MaxDirectoryFaults
           /\ \/ ownerRows' = ownerRows
              \/ \E o \in Owners : ownerRows' = [ownerRows EXCEPT ![o] = "there"]
           /\ \/ UNCHANGED <<link, linkedLate>>
              \/ \E cs \in SUBSET Owned, o \in Owners \cup {Unlinked} :
                    LinkAll(cs, o) /\ (o # Unlinked => \A c \in cs : Linkable(c, o))
           /\ \/ admin' = admin
              \/ \E t : admin' = [admin EXCEPT ![a] = t] /\ TaskGoesOn(t)
    PROVE  DirectoryInv'
  <1>1. /\ link' \in [Owned -> Owners \cup {Unlinked}]
        /\ \A c \in Owned : link'[c] = Unlinked \/ Linkable(c, link'[c])
        /\ linkedLate' \subseteq Owned /\ LinkedAfter'
    <2>1. CASE UNCHANGED <<link, linkedLate>>
      BY <2>1 DEF DirectoryInv, DirectoryTypeOK, LinkedAfter
    <2>2. CASE \E cs \in SUBSET Owned, o \in Owners \cup {Unlinked} :
                    LinkAll(cs, o) /\ (o # Unlinked => \A c \in cs : Linkable(c, o))
      <3>1. PICK cs \in SUBSET Owned, o \in Owners \cup {Unlinked} :
                    LinkAll(cs, o) /\ (o # Unlinked => \A c \in cs : Linkable(c, o))
        BY <2>2
      <3>2. QED
        BY <3>1, LinkAllKeeps DEF LinkedAfter
    <2>3. QED
      BY <2>1, <2>2
  <1>2. /\ admin' \in [Admins -> Task \cup {NoTask}] /\ TasksFit'
        /\ \A b \in Admins : admin'[b].op = "delete" =>
              \A k \in LinkedKinds(KindOf[admin'[b].owner]) \ admin'[b].kinds :
                  <<k, admin'[b].owner>> \in detached'
    <2>1. CASE admin' = admin
      BY <2>1 DEF DirectoryInv, DirectoryTypeOK, TasksFit, DetachedFirst
    <2>2. ASSUME NEW t, admin' = [admin EXCEPT ![a] = t], TaskGoesOn(t)
          PROVE  /\ admin' \in [Admins -> Task \cup {NoTask}] /\ TasksFit'
                 /\ \A b \in Admins : admin'[b].op = "delete" =>
                       \A k \in LinkedKinds(KindOf[admin'[b].owner]) \ admin'[b].kinds :
                           <<k, admin'[b].owner>> \in detached'
      <3>1. t \in Task \cup {NoTask} /\ admin \in [Admins -> Task \cup {NoTask}]
        BY <2>2 DEF TaskGoesOn, DirectoryInv, DirectoryTypeOK
      <3>2. \A b \in Admins : admin'[b] = IF b = a THEN t ELSE admin[b]
        BY <2>2, <3>1
      <3>3. /\ t.op = "attach" => \A c \in t.todo : Linkable(c, t.owner)
            /\ t.op = "delete" => \A k \in LinkedKinds(KindOf[t.owner]) \ t.kinds :
                                      <<k, t.owner>> \in detached'
        BY <2>2 DEF TaskGoesOn, NoTask
      <3>4. QED
        BY <2>2, <3>1, <3>2, <3>3 DEF DirectoryInv, TasksFit, DetachedFirst
    <2>3. QED
      BY <2>1, <2>2
  <1>3. /\ ownerRows' \in [Owners -> {"unborn", "there", "gone"}]
        /\ \A o \in Owners : ownerRows'[o] = "gone" => ownerRows[o] = "gone"
    BY DEF DirectoryInv, DirectoryTypeOK
  <1>4. QED
    BY <1>1, <1>2, <1>3 DEF DirectoryInv, DirectoryTypeOK, DetachedFirst

LEMMA SavesKeep ==
    ASSUME DirectoryInv, NEW a \in Admins, NEW o \in Owners, NEW cs \in SUBSET Owned,
           Create(a, o, cs) \/ UpdateSite(a, o, cs) \/ UpdateDomain(a, o, cs)
    PROVE  DirectoryInv'
  <1>1. \A c \in cs : Linkable(c, o)
    BY KindsFit DEF Create, UpdateSite, UpdateDomain, Linkable
  <1>2. TaskGoesOn(Attach(o, cs))
    BY <1>1 DEF TaskGoesOn, Attach, Task
  <1>3. \/ admin' = admin
        \/ \E t : admin' = [admin EXCEPT ![a] = t] /\ TaskGoesOn(t)
    BY <1>2 DEF Create, UpdateSite, UpdateDomain, BeginTask
  <1>4. \/ UNCHANGED <<link, linkedLate>>
        \/ \E ds \in SUBSET Owned, p \in Owners \cup {Unlinked} :
              LinkAll(ds, p) /\ (p # Unlinked => \A c \in ds : Linkable(c, p))
    BY DEF Create, UpdateSite, UpdateDomain, Of
  <1>5. /\ UNCHANGED <<detached, failures>>
        /\ \/ ownerRows' = ownerRows
           \/ ownerRows' = [ownerRows EXCEPT ![o] = "there"]
    BY DEF Create, UpdateSite, UpdateDomain
  <1>6. failures' \in 0 .. MaxDirectoryFaults
    BY <1>5 DEF DirectoryInv, DirectoryTypeOK
  <1>7. QED
    BY <1>3, <1>4, <1>5, <1>6, LinkingKeeps

LEMMA FailsCounted ==
    ASSUME DirectoryInv, UNCHANGED failures \/ Fails
    PROVE  failures' \in 0 .. MaxDirectoryFaults
  BY DirectoryAssumption DEF DirectoryInv, DirectoryTypeOK, Fails

LEMMA AttachingKeeps ==
    ASSUME DirectoryInv, NEW a \in Admins, AttachOne(a) \/ AttachedAll(a) \/ DetachOne(a)
    PROVE  DirectoryInv'
  <1> DEFINE t == admin[a]
  <1>1. /\ t.op \in {"attach", "detach"} /\ UNCHANGED <<detached, ownerRows>>
        /\ UNCHANGED failures \/ Fails
    BY DEF AttachOne, AttachedAll, DetachOne
  <1>2. t \in Task
    BY <1>1 DEF DirectoryInv, DirectoryTypeOK, NoTask
  <1>3. failures' \in 0 .. MaxDirectoryFaults
    BY <1>1, FailsCounted
  <1>4. \A todo \in SUBSET t.todo : TaskGoesOn([t EXCEPT !.todo = todo])
    BY <1>1, <1>2 DEF TaskGoesOn, Task, DirectoryInv, TasksFit
  <1>5. \A todo \in SUBSET Owned : TaskGoesOn([t EXCEPT !.op = "detach", !.todo = todo])
    BY <1>2 DEF TaskGoesOn, Task
  <1>6. TaskGoesOn(NoTask)
    BY DEF TaskGoesOn
  <1>7. CASE AttachOne(a)
    <2>1. PICK c \in t.todo :
             /\ \/ LinkAll({c}, t.owner)
                \/ UNCHANGED <<link, linkedLate>>
             /\ Done(a) \/ admin' = [admin EXCEPT ![a] = [t EXCEPT !.todo = t.todo \ {c}]]
      BY <1>7 DEF AttachOne
    <2>2. Linkable(c, t.owner) /\ t.owner \in Owners /\ {c} \in SUBSET Owned
      BY <1>2, <1>7 DEF AttachOne, DirectoryInv, TasksFit, Task
    <2>3. \/ UNCHANGED <<link, linkedLate>>
          \/ \E cs \in SUBSET Owned, o \in Owners \cup {Unlinked} :
                LinkAll(cs, o) /\ (o # Unlinked => \A d \in cs : Linkable(d, o))
      BY <2>1, <2>2
    <2>4. \E next : admin' = [admin EXCEPT ![a] = next] /\ TaskGoesOn(next)
      BY <1>4, <1>6, <2>1 DEF Done
    <2>5. QED
      BY <1>1, <1>3, <2>3, <2>4, LinkingKeeps
  <1>8. CASE AttachedAll(a)
    <2>1. \/ Done(a)
          \/ admin' = [admin EXCEPT ![a] = [t EXCEPT !.op = "detach",
                                                     !.todo = Of("team", t.owner) \ t.wanted]]
      BY <1>8 DEF AttachedAll
    <2>2. \E next : admin' = [admin EXCEPT ![a] = next] /\ TaskGoesOn(next)
      BY <1>5, <1>6, <2>1 DEF Done, Of
    <2>3. UNCHANGED <<link, linkedLate>>
      BY <1>8 DEF AttachedAll
    <2>4. QED
      BY <1>1, <1>3, <2>2, <2>3, LinkingKeeps
  <1>9. CASE DetachOne(a)
    <2>1. PICK c \in t.todo :
             /\ LinkAll({c}, Unlinked) \/ UNCHANGED <<link, linkedLate>>
             /\ Done(a) \/ admin' = [admin EXCEPT ![a] = [t EXCEPT !.todo = t.todo \ {c}]]
      BY <1>9 DEF DetachOne
    <2>2. {c} \in SUBSET Owned
      BY <1>2 DEF Task
    <2>3. \E next : admin' = [admin EXCEPT ![a] = next] /\ TaskGoesOn(next)
      BY <1>4, <1>6, <2>1 DEF Done
    <2>4. \/ UNCHANGED <<link, linkedLate>>
          \/ \E cs \in SUBSET Owned, o \in Owners \cup {Unlinked} :
                LinkAll(cs, o) /\ (o # Unlinked => \A d \in cs : Linkable(d, o))
      BY <2>1, <2>2
    <2>5. QED
      BY <1>1, <1>3, <2>3, <2>4, LinkingKeeps
  <1>10. QED
    BY <1>7, <1>8, <1>9

LEMMA SetLinksKeep ==
    ASSUME DirectoryInv, NEW c \in Owned, NEW o \in Owners \cup {Unlinked},
           SetLink(c, o) \/ Declare(c, o)
    PROVE  DirectoryInv'
  <1>1. LinkAll({c}, o) /\ UNCHANGED <<ownerRows, admin, detached, failures>>
    BY DEF SetLink, Declare
  <1>2. o # Unlinked => Linkable(c, o)
    BY KindsFit DEF SetLink, Declare, Linkable
  <1>3. /\ link' \in [Owned -> Owners \cup {Unlinked}]
        /\ \A d \in Owned : link'[d] = Unlinked \/ Linkable(d, link'[d])
        /\ linkedLate' \subseteq Owned /\ LinkedAfter'
    <2>1. {c} \in SUBSET Owned /\ (o # Unlinked => \A d \in {c} : Linkable(d, o))
      BY <1>2
    <2>2. QED
      BY <1>1, <2>1, LinkAllKeeps DEF LinkedAfter
  <1>4. QED
    BY <1>1, <1>3 DEF DirectoryInv, DirectoryTypeOK, TasksFit, DetachedFirst

LEMMA BeginDeleteKeeps ==
    ASSUME DirectoryInv, NEW a \in Admins, NEW o \in Owners, BeginDelete(a, o)
    PROVE  DirectoryInv'
  <1> DEFINE t == [op |-> "delete", owner |-> o, todo |-> {}, wanted |-> {},
                   kinds |-> LinkedKinds(KindOf[o])]
  <1>1. admin' = [admin EXCEPT ![a] = t]
        /\ UNCHANGED <<ownerRows, link, detached, linkedLate, failures>>
    BY DEF BeginDelete, BeginTask
  <1>2. TaskGoesOn(t)
    BY KindsFit DEF TaskGoesOn, Task
  <1>3. failures' \in 0 .. MaxDirectoryFaults
    BY <1>1, FailsCounted
  <1> HIDE DEF t
  <1>4. QED
    BY <1>1, <1>2, <1>3, LinkingKeeps

LEMMA CreateStatusKeeps ==
    ASSUME DirectoryInv, NEW o \in Owners, CreateStatus(o)
    PROVE  DirectoryInv'
  <1>1. /\ UNCHANGED <<link, admin, detached, linkedLate, failures>>
        /\ ownerRows' = [ownerRows EXCEPT ![o] = "there"]
    BY DEF CreateStatus
  <1>2. /\ ownerRows' \in [Owners -> {"unborn", "there", "gone"}]
        /\ \A p \in Owners : ownerRows'[p] = "gone" => ownerRows[p] = "gone"
    BY <1>1 DEF DirectoryInv, DirectoryTypeOK
  <1>3. QED
    BY <1>1, <1>2
    DEF DirectoryInv, DirectoryTypeOK, TasksFit, DetachedFirst, LinkedAfter

(* A deletion with one kind fewer to detach has just detached it.          *)
LEMMA OneKindFewer ==
    ASSUME DirectoryInv, NEW a \in Admins, admin[a].op = "delete",
           NEW kind \in admin[a].kinds,
           detached' = detached \cup {<<kind, admin[a].owner>>},
           admin' = [admin EXCEPT ![a] = [admin[a] EXCEPT !.kinds = admin[a].kinds \ {kind}]]
    PROVE  /\ admin' \in [Admins -> Task \cup {NoTask}] /\ TasksFit'
           /\ detached' \subseteq OwnedKinds \X Owners
           /\ \A b \in Admins : admin'[b].op = "delete" =>
                 \A k \in LinkedKinds(KindOf[admin'[b].owner]) \ admin'[b].kinds :
                     <<k, admin'[b].owner>> \in detached'
  <1> DEFINE t == admin[a]
  <1> DEFINE n == [t EXCEPT !.kinds = t.kinds \ {kind}]
  <1>1. t \in Task /\ admin \in [Admins -> Task \cup {NoTask}]
        /\ detached \subseteq OwnedKinds \X Owners
    BY DEF DirectoryInv, DirectoryTypeOK, NoTask
  <1>2. /\ n \in Task /\ n.op = "delete" /\ n.owner = t.owner /\ n.kinds = t.kinds \ {kind}
        /\ kind \in OwnedKinds /\ t.owner \in Owners
    BY <1>1 DEF Task
  <1> HIDE DEF n
  <1>3. \A b \in Admins : admin'[b] = IF b = a THEN n ELSE admin[b]
    BY <1>1 DEF n
  <1>4. \A b \in Admins \ {a} : admin[b].op = "delete" =>
            \A k \in LinkedKinds(KindOf[admin[b].owner]) \ admin[b].kinds :
                <<k, admin[b].owner>> \in detached'
    BY DEF DirectoryInv, DetachedFirst
  <1>5. \A k \in LinkedKinds(KindOf[n.owner]) \ n.kinds : <<k, n.owner>> \in detached'
    BY <1>2 DEF DirectoryInv, DetachedFirst
  <1>6. TasksFit'
    BY <1>2, <1>3 DEF DirectoryInv, TasksFit
  <1>7. admin' \in [Admins -> Task \cup {NoTask}]
    BY <1>1, <1>2 DEF n
  <1>8. detached' \subseteq OwnedKinds \X Owners
    BY <1>1, <1>2
  <1>9. QED
    BY <1>3, <1>4, <1>5, <1>6, <1>7, <1>8

LEMMA DetachKeeps ==
    ASSUME DirectoryInv, NEW a \in Admins, Detach(a)
    PROVE  DirectoryInv'
  <1> DEFINE o == admin[a].owner
  <1>1. admin[a] \in Task /\ admin[a].op = "delete" /\ o \in Owners /\ ownerRows' = ownerRows
    BY DEF Detach, DirectoryInv, DirectoryTypeOK, NoTask, Task
  <1>2. UNCHANGED failures \/ Fails
    BY DEF Detach
  <1>3. failures' \in 0 .. MaxDirectoryFaults
    BY <1>2, FailsCounted
  <1>4. PICK kind \in admin[a].kinds :
           \/ /\ LinkAll(Of(kind, o), Unlinked)
              /\ detached' = detached \cup {<<kind, o>>}
              /\ admin' = [admin EXCEPT ![a] = [admin[a] EXCEPT !.kinds = admin[a].kinds \ {kind}]]
           \/ /\ Done(a) /\ UNCHANGED <<link, detached, linkedLate>>
           \/ /\ UNCHANGED link
              /\ admin' = [admin EXCEPT ![a] = [admin[a] EXCEPT !.kinds = admin[a].kinds \ {kind}]]
              /\ detached' = detached \cup {<<kind, o>>}
              /\ linkedLate' = linkedLate \cup Of(kind, o)
    BY DEF Detach
  <1>5. CASE Done(a) /\ UNCHANGED <<link, detached, linkedLate>>
    <2>1. TaskGoesOn(NoTask)
      BY DEF TaskGoesOn
    <2>2. QED
      BY <1>1, <1>3, <1>5, <2>1, LinkingKeeps DEF Done
  <1>6. ASSUME detached' = detached \cup {<<kind, o>>},
               admin' = [admin EXCEPT ![a] = [admin[a] EXCEPT !.kinds = admin[a].kinds \ {kind}]],
               link' \in [Owned -> Owners \cup {Unlinked}],
               \A c \in Owned : link'[c] = Unlinked \/ Linkable(c, link'[c]),
               linkedLate' \subseteq Owned, LinkedAfter'
        PROVE  DirectoryInv'
    <2>1. /\ admin' \in [Admins -> Task \cup {NoTask}] /\ TasksFit'
          /\ detached' \subseteq OwnedKinds \X Owners
          /\ \A b \in Admins : admin'[b].op = "delete" =>
                \A k \in LinkedKinds(KindOf[admin'[b].owner]) \ admin'[b].kinds :
                    <<k, admin'[b].owner>> \in detached'
      BY <1>1, <1>6, OneKindFewer
    <2>2. QED
      BY <1>1, <1>3, <1>6, <2>1 DEF DirectoryInv, DirectoryTypeOK, DetachedFirst
  <1>7. CASE /\ LinkAll(Of(kind, o), Unlinked)
             /\ detached' = detached \cup {<<kind, o>>}
             /\ admin' = [admin EXCEPT ![a] = [admin[a] EXCEPT !.kinds = admin[a].kinds \ {kind}]]
    <2>1. Of(kind, o) \in SUBSET Owned /\ Unlinked \in Owners \cup {Unlinked}
      BY DEF Of
    <2>2. /\ link' \in [Owned -> Owners \cup {Unlinked}]
          /\ \A c \in Owned : link'[c] = Unlinked \/ Linkable(c, link'[c])
          /\ linkedLate' \subseteq Owned
          /\ \A c \in Owned : link'[c] # Unlinked /\ <<KindOf[c], link'[c]>> \in detached
                                 => c \in linkedLate'
      BY <1>7, <2>1, LinkAllKeeps
    <2>3. \A c \in Owned : link'[c] # Unlinked => <<KindOf[c], link'[c]>> # <<kind, o>>
      BY <1>7 DEF LinkAll, Of
    <2>4. LinkedAfter'
      BY <1>7, <2>2, <2>3 DEF LinkedAfter
    <2>5. QED
      BY <1>6, <1>7, <2>2, <2>4
  <1>8. CASE /\ UNCHANGED link
             /\ admin' = [admin EXCEPT ![a] = [admin[a] EXCEPT !.kinds = admin[a].kinds \ {kind}]]
             /\ detached' = detached \cup {<<kind, o>>}
             /\ linkedLate' = linkedLate \cup Of(kind, o)
    <2>1. LinkedAfter' /\ linkedLate' \subseteq Owned
      BY <1>8 DEF LinkedAfter, DirectoryInv, DirectoryTypeOK, Of
    <2>2. QED
      BY <1>6, <1>8, <2>1 DEF DirectoryInv, DirectoryTypeOK
  <1>9. QED
    BY <1>4, <1>5, <1>7, <1>8

LEMMA CountPresencesKeeps ==
    ASSUME DirectoryInv, NEW a \in Admins, CountPresences(a)
    PROVE  DirectoryInv'
  <1> DEFINE o == admin[a].owner
  <1>1. /\ admin[a].op = "delete" /\ "presence" \in admin[a].kinds
        /\ UNCHANGED <<ownerRows, link, linkedLate, failures>>
    BY DEF CountPresences
  <1>2. failures' \in 0 .. MaxDirectoryFaults
    BY <1>1, FailsCounted
  <1>3. CASE Done(a) /\ UNCHANGED detached
    <2>1. TaskGoesOn(NoTask)
      BY DEF TaskGoesOn
    <2>2. QED
      BY <1>1, <1>2, <1>3, <2>1, LinkingKeeps DEF Done
  <1>4. CASE /\ admin' = [admin EXCEPT ![a] = [admin[a] EXCEPT !.kinds = {}]]
             /\ detached' = detached \cup {<<"presence", o>>}
             /\ Of("presence", o) = {}
    <2>1. admin[a].kinds \ {"presence"} = {}
      BY DEF CountPresences
    <2>2. /\ admin' \in [Admins -> Task \cup {NoTask}] /\ TasksFit'
          /\ detached' \subseteq OwnedKinds \X Owners
          /\ \A b \in Admins : admin'[b].op = "delete" =>
                \A k \in LinkedKinds(KindOf[admin'[b].owner]) \ admin'[b].kinds :
                    <<k, admin'[b].owner>> \in detached'
      <3>1. admin' = [admin EXCEPT ![a] = [admin[a] EXCEPT !.kinds = admin[a].kinds \ {"presence"}]]
        BY <1>4, <2>1
      <3>2. QED
        BY <1>1, <1>4, <3>1, OneKindFewer
    <2>3. LinkedAfter'
      BY <1>1, <1>4 DEF LinkedAfter, DirectoryInv, Of
    <2>4. QED
      BY <1>1, <1>2, <1>4, <2>2, <2>3 DEF DirectoryInv, DirectoryTypeOK, DetachedFirst
  <1>5. QED
    BY <1>3, <1>4 DEF CountPresences

LEMMA DeleteRowKeeps ==
    ASSUME DirectoryInv, NEW a \in Admins, DeleteRow(a)
    PROVE  DirectoryInv'
  <1> DEFINE o == admin[a].owner
  <1>1. /\ admin[a].op = "delete" /\ admin[a].kinds = {} /\ UNCHANGED <<link, detached, linkedLate>>
        /\ UNCHANGED failures \/ Fails
        /\ ownerRows' \in {ownerRows, [ownerRows EXCEPT ![o] = "gone"]}
        /\ admin' = [admin EXCEPT ![a] = NoTask]
    BY DEF DeleteRow, Done
  <1>2. failures' \in 0 .. MaxDirectoryFaults
    BY <1>1, FailsCounted
  <1>3. \A k \in LinkedKinds(KindOf[o]) : <<k, o>> \in detached
    BY <1>1 DEF DirectoryInv, DetachedFirst
  <1>4. /\ ownerRows' \in [Owners -> {"unborn", "there", "gone"}]
        /\ \A p \in Owners : ownerRows'[p] = "gone" => ownerRows[p] = "gone" \/ p = o
    BY <1>1 DEF DirectoryInv, DirectoryTypeOK
  <1>5. admin' \in [Admins -> Task \cup {NoTask}]
        /\ \A b \in Admins : admin'[b] = NoTask \/ admin'[b] = admin[b]
    BY <1>1 DEF DirectoryInv, DirectoryTypeOK
  <1>6. QED
    BY <1>1, <1>2, <1>3, <1>4, <1>5
    DEF DirectoryInv, DirectoryTypeOK, TasksFit, DetachedFirst, LinkedAfter, NoTask

LEMMA NextDirectory == DirectoryInv /\ [DirectoryNext]_directoryVars => DirectoryInv'
  <1> SUFFICES ASSUME DirectoryInv, [DirectoryNext]_directoryVars PROVE DirectoryInv'
    OBVIOUS
  <1>1. CASE StopAdmins
    <2>1. failures' \in 0 .. MaxDirectoryFaults /\ UNCHANGED <<ownerRows, link, detached, linkedLate>>
      BY <1>1, FailsCounted DEF StopAdmins
    <2>2. QED
      BY <1>1, <2>1 DEF StopAdmins, DirectoryInv, DirectoryTypeOK, TasksFit, DetachedFirst,
                        LinkedAfter, NoTask
  <1>2. CASE UNCHANGED directoryVars
    BY <1>2 DEF directoryVars, DirectoryInv, DirectoryTypeOK, TasksFit, DetachedFirst, LinkedAfter
  <1>3. QED
    BY <1>1, <1>2, SavesKeep, AttachingKeeps, SetLinksKeep, CreateStatusKeeps, BeginDeleteKeeps,
       DetachKeeps, CountPresencesKeeps, DeleteRowKeeps DEF DirectoryNext

(* The rows, the links and the requests in flight are as the model says,   *)
(* and each link is of a kind that its owner may have.                     *)
THEOREM DirectoryWellTyped == DirectorySpec => []DirectoryTypeOK
  <1>1. DirectoryInv => DirectoryTypeOK
    BY DEF DirectoryInv
  <1>2. QED
    BY <1>1, InitDirectory, NextDirectory, PTL DEF DirectorySpec

(* Whatever names a site, a domain or a status that is deleted was linked  *)
(* after the deletion had detached or counted its kind, or was left by a   *)
(* statement that failed, however many requests attach, detach and delete  *)
(* at once and whenever the server stops.                                  *)
THEOREM DanglingWasAlwaysLate == DirectorySpec => []DanglingWasLate
  <1>1. QED
    BY InitDirectory, NextDirectory, DirectorySuffices, PTL DEF DirectorySpec

-----------------------------------------------------------------------------
(* News banners.                                                           *)

(* There is a first date.                                                  *)
LEMMA FirstOfDates == \E d \in NewsDates : \A e \in NewsDates : d <= e
  <1>1. /\ IsWellFoundedOn(OpToRel(<, Nat), Nat)
        /\ NewsDates \subseteq Nat /\ NewsDates # {}
    BY NatLessThanWellFounded, NewsAssumption
  <1>2. PICK d \in NewsDates : \A e \in NewsDates : ~(<<e, d>> \in OpToRel(<, Nat))
    BY <1>1, WFMin
  <1>3. ASSUME NEW e \in NewsDates PROVE d <= e
    <2>1. ~(e < d)
      BY <1>1, <1>2 DEF OpToRel
    <2>2. d \in Nat /\ e \in Nat
      BY <1>1
    <2>3. QED
      BY <2>1, <2>2
  <1>4. QED
    BY <1>3

(* A row and a date of now, or of a refresh, are of no time ago.           *)
NewsOfNow ==
    /\ \A b \in Banners : rowPast[b][news[b]] = 0
    /\ datePast[newsDate] = 0
    /\ refresh.stage = "rows" => datePast[refresh.date] = 0
    /\ refresh.stage = "store" => \A b \in Banners : ShownOf(b, refresh.list[b], 0)

NewsInv == NewsTypeOK /\ NewsOfNow /\ BannersAreCurrent

(* What was of some time ago still is, where no time passes.               *)
LEMMA ShownStays ==
    ASSUME NewsTypeOK, NEW b \in Banners, NEW shown, NEW ticks \in Nat, ShownOf(b, shown, ticks),
           \A w \in NewsRows : rowPast'[b][w] \in {0, rowPast[b][w]},
           \A d \in NewsDates : datePast'[d] \in {0, datePast[d]}
    PROVE  \E w \in NewsRows, d \in NewsDates :
               rowPast'[b][w] <= ticks /\ datePast'[d] <= ticks /\ shown = Banner(w, d)
  <1>1. PICK w \in NewsRows, d \in NewsDates :
            rowPast[b][w] <= ticks /\ datePast[d] <= ticks /\ shown = Banner(w, d)
    BY DEF ShownOf
  <1>2. rowPast'[b][w] <= ticks /\ datePast'[d] <= ticks
    BY <1>1
  <1>3. QED
    BY <1>1, <1>2

LEMMA InitNews == NewsInit => NewsInv
  <1> SUFFICES ASSUME NewsInit PROVE NewsInv
    OBVIOUS
  <1>1. newsDate \in NewsDates
    BY FirstOfDates DEF NewsInit
  <1>2. NewsTypeOK
    BY <1>1, NewsAssumption DEF NewsInit, NewsTypeOK, ShownList, NewsRows
  <1>3. NewsOfNow /\ BannersAreCurrent
    BY <1>1, NewsAssumption DEF NewsInit, NewsOfNow, BannersAreCurrent, NoRefresh, NewsRows
  <1>4. QED
    BY <1>2, <1>3 DEF NewsInv

LEMMA EditKeepsNews ==
    ASSUME NewsInv, NEW b \in Banners, NEW w \in Windows \cup {Withdrawn}, EditNews(b, w)
    PROVE  NewsInv'
  <1>0. NewsTypeOK /\ NewsOfNow /\ BannersAreCurrent /\ w \in NewsRows
    BY DEF NewsInv, NewsRows
  <1>1. /\ rowPast' \in [Banners -> [NewsRows -> 0 .. RefreshAge]]
        /\ \A c \in Banners, v \in NewsRows :
              rowPast'[c][v] = IF c = b /\ v = w THEN 0 ELSE rowPast[c][v]
        /\ datePast' = datePast /\ newsAge' = newsAge /\ shownNews' = shownNews
        /\ refresh' = refresh /\ newsDate' = newsDate
    BY <1>0, NewsAssumption DEF EditNews, NewsTypeOK
  <1>2. NewsTypeOK' /\ news' \in [Banners -> NewsRows]
    BY <1>0, <1>1, NewsAssumption DEF NewsTypeOK, EditNews
  <1>3. \A c \in Banners, ticks \in Nat : \A shown :
            ShownOf(c, shown, ticks) =>
                \E v \in NewsRows, d \in NewsDates :
                    rowPast'[c][v] <= ticks /\ datePast'[d] <= ticks /\ shown = Banner(v, d)
    <2> SUFFICES ASSUME NEW c \in Banners, NEW ticks \in Nat, NEW shown, ShownOf(c, shown, ticks)
                 PROVE  \E v \in NewsRows, d \in NewsDates :
                            rowPast'[c][v] <= ticks /\ datePast'[d] <= ticks /\ shown = Banner(v, d)
      OBVIOUS
    <2>1. \A v \in NewsRows : rowPast'[c][v] \in {0, rowPast[c][v]}
      BY <1>1
    <2>2. \A d \in NewsDates : datePast'[d] \in {0, datePast[d]}
      BY <1>1
    <2>3. QED
      BY <1>0, <2>1, <2>2, ShownStays
  <1>4. \A c \in Banners : rowPast'[c][news'[c]] = 0
    BY <1>0, <1>1 DEF NewsOfNow, EditNews, NewsTypeOK
  <1>5. NewsOfNow'
    <2>1. refresh.stage = "store" => \A c \in Banners : ShownOf(c, refresh.list[c], 0)'
      BY <1>0, <1>1, <1>3 DEF NewsOfNow, ShownOf, Banner, IsActive
    <2>2. QED
      BY <1>0, <1>1, <1>4, <2>1 DEF NewsOfNow
  <1>6. BannersAreCurrent'
    BY <1>0, <1>1, <1>3 DEF BannersAreCurrent, NewsTypeOK, ShownOf, Banner, IsActive
  <1>7. QED
    BY <1>2, <1>5, <1>6 DEF NewsInv

LEMMA MidnightKeepsNews ==
    ASSUME NewsInv, Midnight
    PROVE  NewsInv'
  <1>0. NewsTypeOK /\ NewsOfNow /\ BannersAreCurrent
    BY DEF NewsInv
  <1>1. /\ datePast' \in [NewsDates -> 0 .. RefreshAge]
        /\ \A d \in NewsDates : datePast'[d] = IF d = newsDate + 1 THEN 0 ELSE datePast[d]
        /\ UNCHANGED <<news, shownNews, newsAge, refresh, rowPast>>
        /\ newsDate' = newsDate + 1 /\ newsDate' \in NewsDates
    BY <1>0, NewsAssumption DEF Midnight, NewsTypeOK
  <1>2. NewsTypeOK'
    BY <1>0, <1>1 DEF NewsTypeOK, Midnight
  <1>3. \A c \in Banners, ticks \in Nat : \A shown :
            ShownOf(c, shown, ticks) =>
                \E v \in NewsRows, d \in NewsDates :
                    rowPast'[c][v] <= ticks /\ datePast'[d] <= ticks /\ shown = Banner(v, d)
    <2> SUFFICES ASSUME NEW c \in Banners, NEW ticks \in Nat, NEW shown, ShownOf(c, shown, ticks)
                 PROVE  \E v \in NewsRows, d \in NewsDates :
                            rowPast'[c][v] <= ticks /\ datePast'[d] <= ticks /\ shown = Banner(v, d)
      OBVIOUS
    <2>1. \A v \in NewsRows : rowPast'[c][v] \in {0, rowPast[c][v]}
      BY <1>1
    <2>2. \A d \in NewsDates : datePast'[d] \in {0, datePast[d]}
      BY <1>1
    <2>3. QED
      BY <1>0, <2>1, <2>2, ShownStays
  <1>4. refresh.stage = "rows" => refresh.date \in NewsDates
    BY <1>0 DEF NewsTypeOK, NoRefresh
  <1>5. NewsOfNow'
    <2>1. refresh.stage = "store" => \A c \in Banners : ShownOf(c, refresh.list[c], 0)'
      BY <1>0, <1>1, <1>3 DEF NewsOfNow, ShownOf, Banner, IsActive
    <2>2. QED
      BY <1>0, <1>1, <1>4, <2>1 DEF NewsOfNow
  <1>6. BannersAreCurrent'
    BY <1>0, <1>1, <1>3 DEF BannersAreCurrent, NewsTypeOK, ShownOf, Banner, IsActive
  <1>7. QED
    BY <1>2, <1>5, <1>6 DEF NewsInv

LEMMA BeginRefreshKeepsNews ==
    ASSUME NewsInv, BeginRefresh
    PROVE  NewsInv'
  <1>1. /\ refresh' = [stage |-> "rows", date |-> newsDate]
        /\ UNCHANGED <<news, newsDate, shownNews, newsAge, newsEditsLeft, rowPast, datePast>>
    BY DEF BeginRefresh
  <1>2. refresh'.stage = "rows" /\ refresh'.date = newsDate
    BY <1>1
  <1>3. NewsTypeOK'
    BY <1>1 DEF NewsInv, NewsTypeOK
  <1>4. NewsOfNow' /\ BannersAreCurrent'
    BY <1>1, <1>2 DEF NewsInv, NewsOfNow, BannersAreCurrent, ShownOf
  <1>5. QED
    BY <1>3, <1>4 DEF NewsInv

LEMMA ReadNewsKeepsNews ==
    ASSUME NewsInv, ReadNews
    PROVE  NewsInv'
  <1>1. /\ NewsTypeOK /\ NewsOfNow /\ BannersAreCurrent
        /\ refresh \in [stage : {"rows"}, date : NewsDates] /\ refresh.date \in NewsDates
        /\ UNCHANGED <<news, newsDate, shownNews, newsAge, newsEditsLeft, rowPast, datePast>>
    BY DEF NewsInv, NewsTypeOK, ReadNews, NoRefresh
  <1>2. PICK list \in ShownList : /\ list = GetActiveNewsMessages(refresh.date)
                                  /\ \A b \in Banners : list[b] = Banner(news[b], refresh.date)
    <2>1. \A b \in Banners : Banner(news[b], refresh.date) \in Windows \cup {NoNews}
      BY DEF Banner
    <2>2. GetActiveNewsMessages(refresh.date) = [b \in Banners |-> Banner(news[b], refresh.date)]
      BY DEF GetActiveNewsMessages
    <2>3. [b \in Banners |-> Banner(news[b], refresh.date)] \in ShownList
      BY <2>1 DEF ShownList
    <2>4. QED
      BY <2>2, <2>3
  <1>3. \A b \in Banners : ShownOf(b, list[b], 0)
    BY <1>1, <1>2 DEF ShownOf, NewsOfNow, NewsTypeOK
  <1>4. CASE refresh' = [stage |-> "store", list |-> list]
    <2>1. refresh'.stage = "store" /\ refresh'.list = list
      BY <1>4
    <2>2. NewsTypeOK'
      BY <1>1, <1>4 DEF NewsTypeOK
    <2>3. NewsOfNow' /\ BannersAreCurrent'
      BY <1>1, <1>3, <2>1 DEF NewsOfNow, BannersAreCurrent, ShownOf
    <2>4. QED
      BY <2>2, <2>3 DEF NewsInv
  <1>5. CASE refresh' = NoRefresh
    <2>1. refresh'.stage = "none"
      BY <1>5 DEF NoRefresh
    <2>2. NewsTypeOK'
      BY <1>1, <1>5 DEF NewsTypeOK
    <2>3. NewsOfNow' /\ BannersAreCurrent'
      BY <1>1, <2>1 DEF NewsOfNow, BannersAreCurrent, ShownOf
    <2>4. QED
      BY <2>2, <2>3 DEF NewsInv
  <1>6. QED
    BY <1>2, <1>4, <1>5 DEF ReadNews

LEMMA StoreNewsKeepsNews ==
    ASSUME NewsInv, StoreNews
    PROVE  NewsInv'
  <1>1. /\ NewsTypeOK /\ NewsOfNow
        /\ refresh \in [stage : {"store"}, list : ShownList] /\ refresh.list \in ShownList
        /\ UNCHANGED <<news, newsDate, newsEditsLeft, rowPast, datePast>>
        /\ shownNews' = refresh.list /\ newsAge' = 0 /\ refresh' = NoRefresh
    BY DEF NewsInv, NewsTypeOK, StoreNews, NoRefresh
  <1>2. \A b \in Banners : ShownOf(b, shownNews[b], newsAge)'
    BY <1>1 DEF NewsOfNow, ShownOf, Banner, IsActive
  <1>3. NewsTypeOK'
    BY <1>1, NewsAssumption DEF NewsTypeOK
  <1>4. refresh'.stage = "none"
    BY <1>1 DEF NoRefresh
  <1>5. NewsOfNow' /\ BannersAreCurrent'
    BY <1>1, <1>2, <1>4 DEF NewsOfNow, BannersAreCurrent
  <1>6. QED
    BY <1>3, <1>5 DEF NewsInv

(* A tick ages the list and all that is no more alike.                     *)
LEMMA TickKeepsNews ==
    ASSUME NewsInv, NewsTick
    PROVE  NewsInv'
  <1>0. /\ NewsTypeOK /\ NewsOfNow /\ BannersAreCurrent /\ RefreshAge \in Nat \ {0}
        /\ newsAge \in 0 .. RefreshAge
    BY NewsAssumption DEF NewsInv, NewsTypeOK
  <1>1. /\ newsAge' \in 0 .. RefreshAge
        /\ newsAge' < RefreshAge => newsAge' = newsAge + 1
    BY <1>0 DEF NewsTick, Older
  <1>2. /\ rowPast' \in [Banners -> [NewsRows -> 0 .. RefreshAge]]
        /\ \A b \in Banners, w \in NewsRows :
              /\ rowPast'[b][w] <= rowPast[b][w] + 1
              /\ w = news[b] => rowPast'[b][w] = 0
    <2>1. \A b \in Banners, w \in NewsRows : rowPast[b][w] \in 0 .. RefreshAge
      BY <1>0 DEF NewsTypeOK
    <2>2. \A b \in Banners, w \in NewsRows :
              rowPast'[b][w] = IF w = news[b] THEN 0 ELSE Older(rowPast[b][w])
      BY DEF NewsTick
    <2>3. \A n \in 0 .. RefreshAge : Older(n) \in 0 .. RefreshAge /\ Older(n) <= n + 1
      BY <1>0 DEF Older
    <2>4. \A b \in Banners, w \in NewsRows : rowPast'[b][w] \in 0 .. RefreshAge
      BY <1>0, <2>1, <2>2, <2>3
    <2>5. rowPast' \in [Banners -> [NewsRows -> 0 .. RefreshAge]]
      BY <1>0, <2>1, <2>3 DEF NewsTick
    <2>6. QED
      BY <1>0, <2>1, <2>2, <2>3, <2>5
  <1>3. /\ datePast' \in [NewsDates -> 0 .. RefreshAge]
        /\ \A d \in NewsDates : /\ datePast'[d] <= datePast[d] + 1
                                /\ d = newsDate => datePast'[d] = 0
    <2>1. \A d \in NewsDates : datePast[d] \in 0 .. RefreshAge
      BY <1>0 DEF NewsTypeOK
    <2>2. \A n \in 0 .. RefreshAge : Older(n) \in 0 .. RefreshAge /\ Older(n) <= n + 1
      BY <1>0 DEF Older
    <2>3. QED
      BY <1>0, <2>1, <2>2 DEF NewsTick
  <1>4. NewsTypeOK'
    BY <1>0, <1>1, <1>2, <1>3 DEF NewsTypeOK, NewsTick
  <1>5. NewsOfNow'
    <2>1. refresh'.stage = "none" /\ UNCHANGED <<news, newsDate>>
      BY DEF NewsTick, NoRefresh
    <2>2. (\A b \in Banners : news[b] \in NewsRows) /\ newsDate \in NewsDates
      BY <1>0 DEF NewsTypeOK
    <2>3. QED
      BY <1>2, <1>3, <2>1, <2>2 DEF NewsOfNow
  <1>6. BannersAreCurrent'
    <2> SUFFICES ASSUME newsAge' < RefreshAge, NEW b \in Banners
                 PROVE  ShownOf(b, shownNews[b], newsAge)'
      BY DEF BannersAreCurrent
    <2>1. newsAge < RefreshAge /\ newsAge' = newsAge + 1 /\ shownNews' = shownNews
      BY <1>0, <1>1 DEF NewsTick
    <2>2. PICK w \in NewsRows, d \in NewsDates :
              rowPast[b][w] <= newsAge /\ datePast[d] <= newsAge /\ shownNews[b] = Banner(w, d)
      BY <1>0, <2>1 DEF BannersAreCurrent, ShownOf
    <2>3. /\ rowPast[b][w] \in Nat /\ datePast[d] \in Nat
          /\ rowPast'[b][w] \in Nat /\ datePast'[d] \in Nat
      BY <1>0, <1>2, <1>3 DEF NewsTypeOK
    <2>4. rowPast'[b][w] <= newsAge' /\ datePast'[d] <= newsAge'
      BY <1>0, <1>2, <1>3, <2>1, <2>2, <2>3
    <2>5. QED
      BY <2>1, <2>2, <2>4 DEF ShownOf, Banner, IsActive
  <1>7. QED
    BY <1>4, <1>5, <1>6 DEF NewsInv

LEMMA StepNews == NewsInv /\ [NewsNext]_newsVars => NewsInv'
  <1> SUFFICES ASSUME NewsInv, [NewsNext]_newsVars PROVE NewsInv'
    OBVIOUS
  <1>1. CASE Midnight
    BY <1>1, MidnightKeepsNews
  <1>2. CASE BeginRefresh \/ ReadNews \/ StoreNews
    BY <1>2, BeginRefreshKeepsNews, ReadNewsKeepsNews, StoreNewsKeepsNews
  <1>3. CASE NewsTick
    BY <1>3, TickKeepsNews
  <1>4. ASSUME NEW b \in Banners, DeleteNews(b) PROVE NewsInv'
    BY <1>4, EditKeepsNews DEF DeleteNews
  <1>5. ASSUME NEW b \in Banners, NEW w \in Windows, CreateNews(b, w) \/ UpdateNews(b, w)
        PROVE  NewsInv'
    BY <1>5, EditKeepsNews DEF CreateNews, UpdateNews
  <1>6. CASE UNCHANGED newsVars
    BY <1>6 DEF newsVars, NewsInv, NewsTypeOK, NewsOfNow, BannersAreCurrent, ShownOf
  <1>7. QED
    BY <1>1, <1>2, <1>3, <1>4, <1>5, <1>6 DEF NewsNext

(* Types are kept, and a page shows of each banner what its row and the    *)
(* date were no longer ago than the age of the list it is given            *)
(* (getCachedActiveNews), for every set of banners, windows and dates.     *)
THEOREM BannersStayCurrent == NewsSpec => []NewsTypeOK /\ []BannersAreCurrent
  <1>1. NewsInv => NewsTypeOK /\ BannersAreCurrent
    BY DEF NewsInv
  <1>2. QED
    BY <1>1, InitNews, StepNews, PTL DEF NewsSpec

-----------------------------------------------------------------------------
(* Images of floor plans.                                                  *)

(* How far the one request on the image has come.                          *)
StageHolds(r) ==
    /\ plan # NoPlanRow
    /\ r.stage \in {"read", "remove"} => files = {plan} \cap Formats
    /\ r.stage = "remove" => r.old = plan /\ plan \in Formats
    /\ r.stage \in {"create", "favorites", "delete"} => files = {}
    /\ r.stage \in {"copy", "name"} => files = {r.format}

OneOnImage ==
    /\ \A p, q \in Uploads : OnImage(p) /\ OnImage(q) => p = q
    /\ \A q \in Uploads : OnImage(q) => StageHolds(uploads[q])
    /\ NoneOnImage => files = {plan} \cap Formats

(* Stars are told until the plan's deletion takes them away.               *)
StarsTold ==
    /\ plan = NoPlanRow => crossed = Fans
    /\ \A q \in Uploads : uploads[q].stage = "delete" => crossed = Fans
    /\ \A u \in Fans \ crossed : answered[u] <=> u \in favorites

ImageInv == PlanImagesTypeOK /\ (~spoiled => OneOnImage) /\ StarsTold

ImageStages == {"read", "remove", "create", "copy", "name", "favorites", "delete"}

LEMMA RequestKinds ==
    /\ \A r \in ImageRequest : /\ r.stage \in ImageStages /\ r.op \in {"upload", "delete"}
                               /\ r.format \in Formats /\ r.old \in Formats \cup {NoImage}
    /\ \A r \in ToggleRequest : r.stage = "insert" /\ r.op = "toggle" /\ r.user \in Fans
    /\ Request0.stage = "idle"
  BY DEF ImageRequest, ToggleRequest, Request0, UploadStage, ImageStages

LEMMA Busy ==
    ASSUME PlanImagesTypeOK, NEW q \in Uploads
    PROVE  /\ uploads[q] \in ImageRequest \cup ToggleRequest \cup {Request0}
           /\ OnImage(q) <=> uploads[q] \in ImageRequest
           /\ uploads[q].stage \in ImageStages => uploads[q] \in ImageRequest
           /\ uploads[q].stage = "insert" => uploads[q] \in ToggleRequest
  <1>1. uploads[q] \in ImageRequest \cup ToggleRequest \cup {Request0}
    BY DEF PlanImagesTypeOK
  <1>2. CASE uploads[q] \in ImageRequest
    BY <1>1, <1>2, RequestKinds DEF OnImage, ImageStages
  <1>3. CASE uploads[q] \in ToggleRequest
    BY <1>1, <1>3, RequestKinds DEF OnImage, ImageStages
  <1>4. CASE uploads[q] = Request0
    BY <1>1, <1>4, RequestKinds DEF OnImage, ImageStages
  <1>5. QED
    BY <1>1, <1>2, <1>3, <1>4

(* A step of a request on the image.                                       *)
LEMMA ImageStep ==
    ASSUME ImageInv, NEW q \in Uploads, uploads[q] \in ImageRequest,
           NEW r \in ImageRequest \cup {Request0}, Put(q, r),
           plan' \in Formats \cup {NoImage, NoPlanRow}, files' \subseteq Formats,
           spoiled' \in BOOLEAN, UNCHANGED <<stepsLeft, answered>>,
           \/ UNCHANGED <<favorites, crossed>>
           \/ favorites' = {} /\ crossed' = Fans,
           plan' = NoPlanRow => crossed' = Fans,
           r.stage = "delete" => crossed' = Fans,
           ~spoiled' => ~spoiled,
           ~spoiled' /\ r = Request0 => files' = {plan'} \cap Formats,
           ~spoiled' /\ r # Request0 => StageHolds(r)'
    PROVE  ImageInv'
  <1>0. PlanImagesTypeOK /\ StarsTold /\ (~spoiled => OneOnImage)
    BY DEF ImageInv
  <1>1. /\ uploads' \in [Uploads -> ImageRequest \cup ToggleRequest \cup {Request0}]
        /\ uploads'[q] = r /\ \A p \in Uploads : p # q => uploads'[p] = uploads[p]
    BY <1>0 DEF Put, PlanImagesTypeOK
  <1>2. PlanImagesTypeOK'
    BY <1>0, <1>1 DEF PlanImagesTypeOK
  <1>3. StarsTold'
    BY <1>0, <1>1 DEF StarsTold
  <1>4. ASSUME ~spoiled' PROVE OneOnImage'
    <2>1. OneOnImage /\ OnImage(q)
      BY <1>0, <1>4, Busy
    <2>2. \A p \in Uploads : p # q => ~OnImage(p) /\ ~OnImage(p)'
      BY <1>1, <2>1 DEF OneOnImage, OnImage
    <2>3. OnImage(q)' <=> r # Request0
      <3>1. r \in ImageRequest => r.stage # "idle" /\ r.op # "toggle"
        BY RequestKinds DEF ImageStages
      <3>2. Request0.stage = "idle"
        BY RequestKinds
      <3>3. CASE r = Request0
        BY <1>1, <3>2, <3>3 DEF OnImage
      <3>4. CASE r # Request0
        BY <1>1, <3>1, <3>4 DEF OnImage
      <3>5. QED
        BY <3>3, <3>4
    <2>4. OnImage(q)' => StageHolds(uploads[q])'
      BY <1>1, <1>4, <2>3
    <2>5. NoneOnImage' => files' = {plan'} \cap Formats
      BY <1>4, <2>3 DEF NoneOnImage
    <2>6. QED
      BY <2>2, <2>4, <2>5 DEF OneOnImage
  <1>5. QED
    BY <1>2, <1>3, <1>4 DEF ImageInv

LEMMA InitImages == PlanImagesInit => ImageInv
  <1> SUFFICES ASSUME PlanImagesInit PROVE ImageInv
    OBVIOUS
  <1>1. PlanImagesTypeOK
    <2>1. MaxPlanSteps \in 0 .. MaxPlanSteps
      BY PlanImagesAssumption
    <2>2. uploads \in [Uploads -> ImageRequest \cup ToggleRequest \cup {Request0}]
      BY DEF PlanImagesInit
    <2>3. QED
      BY <2>1, <2>2 DEF PlanImagesInit, PlanImagesTypeOK
  <1>2. \A q \in Uploads : uploads[q].stage = "idle" /\ ~OnImage(q)
    BY RequestKinds DEF PlanImagesInit, OnImage
  <1>3. OneOnImage
    BY <1>2, PlanImagesAssumption DEF PlanImagesInit, OneOnImage, NoneOnImage
  <1>4. StarsTold
    <2>1. plan # NoPlanRow
      <3>1. NoImage # NoPlanRow
        BY DEF NoImage, NoPlanRow
      <3>2. QED
        BY <3>1 DEF PlanImagesInit
    <2>2. QED
      BY <1>2, <2>1 DEF PlanImagesInit, StarsTold
  <1>5. QED
    BY <1>1, <1>3, <1>4 DEF ImageInv

(* A request on the image, at one of its stages.                           *)
LEMMA AtImage ==
    ASSUME ImageInv, NEW q \in Uploads, uploads[q].stage \in ImageStages
    PROVE  /\ uploads[q] \in ImageRequest /\ uploads[q].format \in Formats
           /\ ~spoiled => OneOnImage /\ StageHolds(uploads[q])
           /\ plan \in Formats \cup {NoImage, NoPlanRow} /\ files \subseteq Formats
           /\ spoiled \in BOOLEAN /\ (plan = NoPlanRow => crossed = Fans)
  BY Busy, RequestKinds DEF ImageInv, PlanImagesTypeOK, StarsTold, OneOnImage

LEMMA Staged ==
    ASSUME NEW y \in ImageRequest, NEW later \in ImageStages
    PROVE  \E r \in ImageRequest : /\ r = [y EXCEPT !.stage = later] /\ r # Request0
                                   /\ r.stage = later /\ r.format = y.format /\ r.old = y.old
  <1> DEFINE r == [y EXCEPT !.stage = later]
  <1>1. r \in ImageRequest /\ r.stage = later /\ r.format = y.format /\ r.old = y.old
    BY DEF ImageRequest, UploadStage, ImageStages
  <1> HIDE DEF r
  <1>2. r # Request0
    BY <1>1, RequestKinds DEF ImageStages
  <1>3. QED
    BY <1>1, <1>2 DEF r

LEMMA ReadImageStep ==
    ASSUME ImageInv, NEW q \in Uploads, ReadImage(q)
    PROVE  ImageInv'
  <1>1. PICK y \in ImageRequest : /\ y = uploads[q] /\ y.stage = "read"
                                  /\ ~spoiled => StageHolds(y)
    BY AtImage DEF ReadImage, ImageStages
  <1>2. CASE /\ plan \in Formats /\ Put(q, [uploads[q] EXCEPT !.stage = "remove", !.old = plan])
             /\ UNCHANGED spoiled
    <2> DEFINE r == [y EXCEPT !.stage = "remove", !.old = plan]
    <2>1. r \in ImageRequest /\ r.stage = "remove" /\ r.old = plan
      BY <1>2 DEF ImageRequest, UploadStage
    <2>2. Put(q, r)
      BY <1>1, <1>2
    <2> HIDE DEF r
    <2>3. PICK z \in ImageRequest : z = r
      BY <2>1
    <2>4. z # Request0 /\ (~spoiled' => StageHolds(z)')
      BY <1>1, <1>2, <2>1, <2>3, RequestKinds DEF StageHolds, ReadImage
    <2>5. /\ UNCHANGED <<plan, files, favorites, stepsLeft, spoiled, answered, crossed>>
          /\ spoiled \in BOOLEAN /\ plan \in Formats \cup {NoImage, NoPlanRow} /\ files \subseteq Formats
          /\ (plan = NoPlanRow => crossed = Fans) /\ z.stage # "delete"
      BY <1>1, <1>2, <2>1, <2>3, AtImage DEF ReadImage, ImageStages
    <2>6. QED
      BY <1>1, <2>2, <2>3, <2>4, <2>5, ImageStep
  <1>3. ASSUME NEW later \in {"create", "favorites"}, AtStage(q, later),
               spoiled' = (spoiled \/ plan \in Formats)
        PROVE  ImageInv'
    <2>0. later \in ImageStages
      BY DEF ImageStages
    <2>1. PICK r \in ImageRequest : /\ r = [y EXCEPT !.stage = later] /\ r # Request0
                                    /\ r.stage = later
      BY <2>0, Staged
    <2>2. Put(q, r)
      BY <1>1, <1>3, <2>1 DEF AtStage
    <2>3. ~spoiled' => StageHolds(r)'
      BY <1>1, <1>3, <2>1 DEF StageHolds, ReadImage
    <2>4. QED
      BY <1>1, <1>3, <2>1, <2>2, <2>3, AtImage, ImageStep DEF ReadImage, ImageStages
  <1>4. QED
    BY <1>2, <1>3 DEF ReadImage

LEMMA RemoveOldStep ==
    ASSUME ImageInv, NEW q \in Uploads, RemoveOld(q)
    PROVE  ImageInv'
  <1>1. PICK y \in ImageRequest : /\ y = uploads[q] /\ y.stage = "remove"
                                  /\ ~spoiled => StageHolds(y)
    BY AtImage DEF RemoveOld, ImageStages
  <1>2. PICK later \in {"create", "favorites"} : AtStage(q, later)
    BY DEF RemoveOld
  <1>3. later \in ImageStages
    BY DEF ImageStages
  <1>4. PICK r \in ImageRequest : /\ r = [y EXCEPT !.stage = later] /\ r # Request0
                                  /\ r.stage = later
    BY <1>3, Staged
  <1>5. Put(q, r)
    BY <1>1, <1>2, <1>4 DEF AtStage
  <1>6. ~spoiled' => StageHolds(r)'
    BY <1>1, <1>4 DEF StageHolds, RemoveOld
  <1>7. /\ UNCHANGED <<plan, favorites, stepsLeft, answered, crossed>>
        /\ spoiled' \in BOOLEAN /\ (~spoiled' => ~spoiled) /\ files' \subseteq Formats
        /\ plan \in Formats \cup {NoImage, NoPlanRow} /\ (plan = NoPlanRow => crossed = Fans)
    <2>1. /\ plan \in Formats \cup {NoImage, NoPlanRow} /\ files \subseteq Formats
          /\ spoiled \in BOOLEAN /\ (plan = NoPlanRow => crossed = Fans)
      BY <1>1, AtImage DEF ImageStages
    <2>2. spoiled' \in BOOLEAN /\ (~spoiled' => ~spoiled)
      BY <2>1 DEF RemoveOld
    <2>3. QED
      BY <2>1, <2>2 DEF RemoveOld
  <1>8. QED
    BY <1>1, <1>4, <1>5, <1>6, <1>7, ImageStep

LEMMA CreateImageStep ==
    ASSUME ImageInv, NEW q \in Uploads, CreateImage(q)
    PROVE  ImageInv'
  <1>1. PICK y \in ImageRequest : /\ y = uploads[q] /\ y.stage = "create" /\ y.format \in Formats
                                  /\ ~spoiled => StageHolds(y)
    BY AtImage DEF CreateImage, ImageStages
  <1>2. CASE files' = files \cup {uploads[q].format} /\ AtStage(q, "copy") /\ UNCHANGED spoiled
    <2>1. PICK r \in ImageRequest : /\ r = [y EXCEPT !.stage = "copy"] /\ r # Request0
                                    /\ r.stage = "copy" /\ r.format = y.format
      BY Staged DEF ImageStages
    <2>2. Put(q, r)
      BY <1>1, <1>2, <2>1 DEF AtStage
    <2>3. ~spoiled' => StageHolds(r)'
      BY <1>1, <1>2, <2>1 DEF StageHolds, CreateImage
    <2>4. QED
      BY <1>1, <1>2, <2>1, <2>2, <2>3, AtImage, ImageStep DEF CreateImage, ImageStages
  <1>3. CASE UNCHANGED files /\ ImageDone(q) /\ spoiled' = TRUE
    BY <1>1, <1>3, AtImage, ImageStep, RequestKinds DEF CreateImage, ImageStages, ImageDone
  <1>4. QED
    BY <1>2, <1>3 DEF CreateImage

LEMMA CopyImageStep ==
    ASSUME ImageInv, NEW q \in Uploads, CopyImage(q)
    PROVE  ImageInv'
  <1>1. PICK y \in ImageRequest : /\ y = uploads[q] /\ y.stage = "copy" /\ y.format \in Formats
                                  /\ ~spoiled => StageHolds(y)
    BY AtImage DEF CopyImage, ImageStages
  <1>2. CASE AtStage(q, "name") /\ UNCHANGED <<files, spoiled>>
    <2>1. PICK r \in ImageRequest : /\ r = [y EXCEPT !.stage = "name"] /\ r # Request0
                                    /\ r.stage = "name" /\ r.format = y.format
      BY Staged DEF ImageStages
    <2>2. Put(q, r)
      BY <1>1, <1>2, <2>1 DEF AtStage
    <2>3. ~spoiled' => StageHolds(r)'
      BY <1>1, <1>2, <2>1 DEF StageHolds, CopyImage
    <2>4. QED
      BY <1>1, <1>2, <2>1, <2>2, <2>3, AtImage, ImageStep DEF CopyImage, ImageStages
  <1>3. CASE files' = files \ {uploads[q].format} /\ ImageDone(q) /\ spoiled' = TRUE
    BY <1>1, <1>3, AtImage, ImageStep, RequestKinds DEF CopyImage, ImageStages, ImageDone
  <1>4. QED
    BY <1>2, <1>3 DEF CopyImage

LEMMA NameImageStep ==
    ASSUME ImageInv, NEW q \in Uploads, NameImage(q)
    PROVE  ImageInv'
  <1>1. PICK y \in ImageRequest : /\ y = uploads[q] /\ y.stage = "name" /\ y.format \in Formats
                                  /\ ~spoiled => StageHolds(y)
    BY AtImage DEF NameImage, ImageStages
  <1>2. y.format # NoPlanRow
    BY <1>1, PlanImagesAssumption
  <1>3. ~spoiled' => ~spoiled /\ files' = {plan'} \cap Formats
    BY <1>1 DEF StageHolds, NameImage
  <1>4. /\ plan' \in Formats \cup {NoImage, NoPlanRow} /\ spoiled' \in BOOLEAN
        /\ plan' = NoPlanRow => plan = NoPlanRow
    BY <1>1, <1>2, AtImage DEF NameImage, ImageStages
  <1>5. QED
    BY <1>1, <1>3, <1>4, AtImage, ImageStep, RequestKinds DEF NameImage, ImageStages, ImageDone

LEMMA DeleteFavoritesStep ==
    ASSUME ImageInv, NEW q \in Uploads, DeleteFavorites(q)
    PROVE  ImageInv'
  <1>1. PICK y \in ImageRequest : /\ y = uploads[q] /\ y.stage = "favorites"
                                  /\ ~spoiled => StageHolds(y)
    BY AtImage DEF DeleteFavorites, ImageStages
  <1>2. PICK r \in ImageRequest : /\ r = [y EXCEPT !.stage = "delete"] /\ r # Request0
                                  /\ r.stage = "delete"
    BY Staged DEF ImageStages
  <1>3. Put(q, r)
    BY <1>1, <1>2 DEF DeleteFavorites, AtStage
  <1>4. ~spoiled' => StageHolds(r)'
    BY <1>1, <1>2 DEF StageHolds, DeleteFavorites
  <1>5. QED
    BY <1>1, <1>2, <1>3, <1>4, AtImage, ImageStep DEF DeleteFavorites, ImageStages

LEMMA DeletePlanRowStep ==
    ASSUME ImageInv, NEW q \in Uploads, DeletePlanRow(q)
    PROVE  ImageInv'
  <1>1. PICK y \in ImageRequest : /\ y = uploads[q] /\ y.stage = "delete"
                                  /\ ~spoiled => StageHolds(y)
    BY AtImage DEF DeletePlanRow, ImageStages
  <1>2. crossed = Fans
    BY <1>1 DEF ImageInv, StarsTold
  <1>3. ~spoiled' => ~spoiled /\ files' = {plan'} \cap Formats
    BY <1>1, PlanImagesAssumption DEF StageHolds, DeletePlanRow
  <1>4. QED
    BY <1>1, <1>2, <1>3, AtImage, ImageStep, RequestKinds DEF DeletePlanRow, ImageStages, ImageDone

LEMMA BeginImageStep ==
    ASSUME ImageInv, NEW q \in Uploads, NEW format \in Formats, NEW op \in {"upload", "delete"},
           BeginImage(q, op, format)
    PROVE  ImageInv'
  <1> DEFINE r == [stage |-> "read", op |-> op, format |-> format, old |-> NoImage]
  <1>1. r \in ImageRequest /\ r.stage = "read"
    BY DEF ImageRequest, UploadStage
  <1>2. uploads[q] = Request0 /\ Put(q, r) /\ stepsLeft > 0 /\ stepsLeft' = stepsLeft - 1
    BY DEF BeginImage, NewRequest
  <1> HIDE DEF r
  <1>3. /\ uploads' \in [Uploads -> ImageRequest \cup ToggleRequest \cup {Request0}]
        /\ uploads'[q] = r /\ \A p \in Uploads : p # q => uploads'[p] = uploads[p]
    BY <1>1, <1>2 DEF Put, ImageInv, PlanImagesTypeOK
  <1>4. stepsLeft' \in 0 .. MaxPlanSteps
    BY <1>2, PlanImagesAssumption DEF ImageInv, PlanImagesTypeOK
  <1>5. PlanImagesTypeOK'
    BY <1>3, <1>4 DEF ImageInv, PlanImagesTypeOK, BeginImage
  <1>6. StarsTold'
    BY <1>1, <1>3 DEF ImageInv, StarsTold, BeginImage
  <1>7. ASSUME ~spoiled' PROVE OneOnImage'
    <2>1. OneOnImage /\ NoneOnImage /\ plan # NoPlanRow
      BY <1>7 DEF ImageInv, BeginImage
    <2>2. \A p \in Uploads : p # q => ~OnImage(p)'
      BY <1>3, <2>1 DEF NoneOnImage, OnImage
    <2>3. StageHolds(uploads[q])'
      BY <1>1, <1>3, <2>1 DEF StageHolds, OneOnImage, BeginImage
    <2>4. OnImage(q)'
      BY <1>1, <1>3, RequestKinds DEF OnImage
    <2>5. QED
      BY <2>2, <2>3, <2>4 DEF OneOnImage, NoneOnImage
  <1>8. QED
    BY <1>5, <1>6, <1>7 DEF ImageInv

(* A step of a toggle, which leaves the image alone.                       *)
LEMMA ToggleStep ==
    ASSUME ImageInv, NEW q \in Uploads, uploads[q] \notin ImageRequest,
           NEW r \in ToggleRequest \cup {Request0}, Put(q, r),
           UNCHANGED <<plan, files, spoiled>>, stepsLeft' \in 0 .. MaxPlanSteps,
           favorites' \subseteq Fans, answered' \in [Fans -> BOOLEAN],
           crossed' \subseteq Fans, crossed \subseteq crossed',
           \A u \in Fans \ crossed : answered'[u] <=> u \in favorites'
    PROVE  ImageInv'
  <1>1. /\ uploads' \in [Uploads -> ImageRequest \cup ToggleRequest \cup {Request0}]
        /\ uploads'[q] = r /\ \A p \in Uploads : p # q => uploads'[p] = uploads[p]
    BY DEF Put, ImageInv, PlanImagesTypeOK
  <1>2. PlanImagesTypeOK'
    BY <1>1 DEF ImageInv, PlanImagesTypeOK
  <1>3. r.stage \in {"insert", "idle"} /\ (r.stage = "idle" \/ r.op = "toggle")
    BY RequestKinds
  <1>4. StarsTold'
    <2>1. crossed = Fans => crossed' = Fans
      BY DEF ImageInv, PlanImagesTypeOK
    <2>2. \A p \in Uploads : uploads'[p].stage = "delete" => crossed' = Fans
      BY <1>1, <1>3, <2>1 DEF ImageInv, StarsTold
    <2>3. plan' = NoPlanRow => crossed' = Fans
      BY <2>1 DEF ImageInv, StarsTold
    <2>4. QED
      BY <2>2, <2>3 DEF StarsTold
  <1>5. ~OnImage(q) /\ ~OnImage(q)'
    <2>1. ~OnImage(q)
      BY Busy DEF ImageInv
    <2>2. ~OnImage(q)'
      BY <1>1, <1>3 DEF OnImage
    <2>3. QED
      BY <2>1, <2>2
  <1>6. \A p \in Uploads : /\ OnImage(p) <=> OnImage(p)'
                           /\ OnImage(p) => uploads'[p] = uploads[p]
    BY <1>1, <1>5 DEF OnImage
  <1>7. ASSUME OneOnImage PROVE OneOnImage'
    <2>1. \A p \in Uploads : OnImage(p)' => StageHolds(uploads[p])'
      BY <1>6, <1>7 DEF OneOnImage, StageHolds
    <2>2. NoneOnImage <=> NoneOnImage'
      BY <1>6 DEF NoneOnImage
    <2>3. QED
      BY <1>6, <1>7, <2>1, <2>2 DEF OneOnImage
  <1>8. QED
    BY <1>2, <1>4, <1>7 DEF ImageInv

LEMMA DeleteFavoriteStep ==
    ASSUME ImageInv, NEW q \in Uploads, NEW u \in Fans, DeleteFavorite(q, u)
    PROVE  ImageInv'
  <1>1. /\ crossed' \subseteq Fans /\ crossed \subseteq crossed'
        /\ stepsLeft' \in 0 .. MaxPlanSteps /\ UNCHANGED <<plan, files, spoiled>>
    BY PlanImagesAssumption DEF DeleteFavorite, NewRequest, ImageInv, PlanImagesTypeOK
  <1>2. uploads[q] = Request0 /\ uploads[q] \notin ImageRequest
    BY RequestKinds DEF DeleteFavorite, NewRequest, ImageStages
  <1>3. /\ favorites' \subseteq Fans /\ answered' \in [Fans -> BOOLEAN]
        /\ \A v \in Fans \ crossed : answered'[v] <=> v \in favorites'
    <2>1. CASE u \in favorites
      <3>1. answered' = [answered EXCEPT ![u] = FALSE] /\ favorites' = favorites \ {u}
        BY <2>1 DEF DeleteFavorite
      <3>2. \A v \in Fans : answered'[v] = IF v = u THEN FALSE ELSE answered[v]
        BY <3>1 DEF ImageInv, PlanImagesTypeOK
      <3>3. answered' \in [Fans -> BOOLEAN]
        BY <3>1 DEF ImageInv, PlanImagesTypeOK
      <3>4. QED
        BY <3>1, <3>2, <3>3 DEF ImageInv, PlanImagesTypeOK, StarsTold
    <2>2. CASE u \notin favorites
      BY <2>2 DEF DeleteFavorite, ImageInv, PlanImagesTypeOK, StarsTold
    <2>3. QED
      BY <2>1, <2>2
  <1>4. CASE u \in favorites
    <2>1. Put(q, Request0)
      BY <1>2, <1>4 DEF DeleteFavorite, Put, ImageInv, PlanImagesTypeOK
    <2>2. QED
      BY <1>1, <1>2, <1>3, <2>1, ToggleStep
  <1>5. CASE u \notin favorites
    <2> DEFINE r == [stage |-> "insert", op |-> "toggle", user |-> u]
    <2>1. r \in ToggleRequest /\ Put(q, r)
      BY <1>5 DEF ToggleRequest, DeleteFavorite, NewRequest
    <2> HIDE DEF r
    <2>2. QED
      BY <1>1, <1>2, <1>3, <2>1, ToggleStep
  <1>6. QED
    BY <1>4, <1>5

LEMMA InsertFavoriteStep ==
    ASSUME ImageInv, NEW q \in Uploads, InsertFavorite(q)
    PROVE  ImageInv'
  <1>1. uploads[q] \in ToggleRequest /\ uploads[q] \notin ImageRequest
    BY Busy, RequestKinds DEF InsertFavorite, ImageInv, ImageStages
  <1>2. PICK u \in Fans : u = uploads[q].user
    BY <1>1, RequestKinds
  <1>3. /\ favorites' \subseteq Fans /\ answered' \in [Fans -> BOOLEAN]
        /\ \A v \in Fans \ crossed : answered'[v] <=> v \in favorites'
    <2>1. CASE u \notin favorites
      <3>1. answered' = [answered EXCEPT ![u] = TRUE] /\ favorites' = favorites \cup {u}
        BY <1>2, <2>1 DEF InsertFavorite
      <3>2. \A v \in Fans : answered'[v] = IF v = u THEN TRUE ELSE answered[v]
        BY <3>1 DEF ImageInv, PlanImagesTypeOK
      <3>3. answered' \in [Fans -> BOOLEAN]
        BY <3>1 DEF ImageInv, PlanImagesTypeOK
      <3>4. QED
        BY <3>1, <3>2, <3>3 DEF ImageInv, PlanImagesTypeOK, StarsTold
    <2>2. CASE u \in favorites
      BY <1>2, <2>2 DEF InsertFavorite, ImageInv, PlanImagesTypeOK, StarsTold
    <2>3. QED
      BY <2>1, <2>2
  <1>4. Put(q, Request0) /\ UNCHANGED <<plan, files, stepsLeft, spoiled, crossed>>
    BY DEF InsertFavorite, ImageDone
  <1>5. stepsLeft' \in 0 .. MaxPlanSteps /\ crossed' \subseteq Fans /\ crossed \subseteq crossed'
    BY <1>4 DEF ImageInv, PlanImagesTypeOK
  <1>6. QED
    BY <1>1, <1>3, <1>4, <1>5, ToggleStep

LEMMA StopUploadsStep ==
    ASSUME ImageInv, StopUploads
    PROVE  ImageInv'
  <1>1. uploads' \in [Uploads -> ImageRequest \cup ToggleRequest \cup {Request0}]
    BY DEF StopUploads
  <1>2. PlanImagesTypeOK'
    BY <1>1 DEF StopUploads, ImageInv, PlanImagesTypeOK
  <1>3. \A q \in Uploads : uploads'[q].stage = "idle" /\ ~OnImage(q)'
    BY RequestKinds DEF StopUploads, OnImage
  <1>4. StarsTold'
    BY <1>3 DEF StopUploads, ImageInv, StarsTold
  <1>5. ~spoiled' => OneOnImage'
    BY <1>3 DEF StopUploads, ImageInv, OneOnImage, NoneOnImage
  <1>6. QED
    BY <1>2, <1>4, <1>5 DEF ImageInv

LEMMA StepImages == ImageInv /\ [PlanImagesNext]_planVars => ImageInv'
  <1> SUFFICES ASSUME ImageInv, [PlanImagesNext]_planVars PROVE ImageInv'
    OBVIOUS
  <1>1. CASE StopUploads
    BY <1>1, StopUploadsStep
  <1>2. ASSUME NEW q \in Uploads,
               \/ \E format \in Formats, op \in {"upload", "delete"} : BeginImage(q, op, format)
               \/ ReadImage(q) \/ RemoveOld(q) \/ CreateImage(q) \/ CopyImage(q) \/ NameImage(q)
               \/ DeleteFavorites(q) \/ DeletePlanRow(q)
               \/ \E u \in Fans : DeleteFavorite(q, u)
               \/ InsertFavorite(q)
        PROVE  ImageInv'
    BY <1>2, BeginImageStep, ReadImageStep, RemoveOldStep, CreateImageStep, CopyImageStep,
       NameImageStep, DeleteFavoritesStep, DeletePlanRowStep, DeleteFavoriteStep,
       InsertFavoriteStep
  <1>3. CASE UNCHANGED planVars
    BY <1>3 DEF planVars, ImageInv, PlanImagesTypeOK, OneOnImage, StarsTold, OnImage,
                NoneOnImage, StageHolds
  <1>4. QED
    BY <1>1, <1>2, <1>3 DEF PlanImagesNext

(* The plan's files and the row that names one of them agree between       *)
(* requests that neither failed nor overlapped, and a user's star is what  *)
(* the last toggle answered, whatever the number of requests and formats   *)
(* (UploadFloorplanImage, DeleteFloorplan, ToggleFloorplanFavorite).       *)
THEOREM ImagesAreKept == PlanImagesSpec => []PlanImagesTypeOK /\ []ImageKept
  <1>1. ImageInv => PlanImagesTypeOK /\ ImageKept
    BY PlanImagesAssumption DEF ImageInv, OneOnImage, StarsTold, ImageKept, LeadsList
  <1>2. QED
    BY <1>1, InitImages, StepImages, PTL DEF PlanImagesSpec

-----------------------------------------------------------------------------
(* Desks.                                                                  *)

(* What foreign keys keep: a desk's plan is there, and a reservation's     *)
(* desk is on a plan.                                                      *)
RowsReferred ==
    /\ \A s \in Desks \ unenforced : seatPlan[s] \in Plans => planRow[seatPlan[s]] = "there"
    /\ \A r \in taken : r.desk \notin unenforced => seatPlan[r.desk] \in Plans

DesksInv == DesksTypeOK /\ RowsReferred

LEMMA InitDesks == DesksInit => DesksInv
  BY DesksAssumption DEF DesksInit, DesksInv, DesksTypeOK, RowsReferred

LEMMA TakenFits ==
    ASSUME DesksTypeOK, NEW r \in taken
    PROVE  /\ r.desk \in Desks /\ r.user \in Sitters /\ r.date \in DeskDates
           /\ r.half \in Half /\ r.guest \in Visitors \cup {"self"}
  BY DEF DesksTypeOK, TakenRow

LEMMA PlansStep ==
    ASSUME DesksInv, NEW p \in Plans,
           CreatePlan(p) \/ DeletePlan(p) \/ \E s \in Desks : CreateSeat(s, p)
    PROVE  DesksInv'
  <1>1. CASE CreatePlan(p)
    BY <1>1 DEF CreatePlan, DesksInv, DesksTypeOK, RowsReferred
  <1>2. ASSUME NEW s \in Desks, CreateSeat(s, p) PROVE DesksInv'
    <2>1. \A r \in taken : r.desk \notin unenforced => r.desk # s
      BY <1>2, DesksAssumption DEF CreateSeat, DesksInv, RowsReferred
    <2>2. QED
      BY <1>2, <2>1, TakenFits DEF CreateSeat, DesksInv, DesksTypeOK, RowsReferred
  <1>3. CASE DeletePlan(p)
    <2> DEFINE ss == {s \in Desks : seatPlan[s] = p}
    <2>1. DesksTypeOK'
      BY <1>3 DEF DeletePlan, DesksInv, DesksTypeOK
    <2>2. CASE /\ seatPlan' = [s \in Desks |-> IF s \in ss THEN Deleted ELSE seatPlan[s]]
               /\ taken' = taken \ RowsOf(ss) /\ UNCHANGED unenforced
      BY <1>3, <2>1, <2>2, TakenFits, DesksAssumption
         DEF DeletePlan, DesksInv, DesksTypeOK, RowsReferred, RowsOf
    <2>3. CASE unenforced' = unenforced \cup ss /\ UNCHANGED <<seatPlan, taken>>
      BY <1>3, <2>1, <2>3, TakenFits DEF DeletePlan, DesksInv, DesksTypeOK, RowsReferred
    <2>4. QED
      BY <1>3, <2>2, <2>3 DEF DeletePlan
  <1>4. QED
    BY <1>1, <1>2, <1>3

LEMMA DeleteSeatStep ==
    ASSUME DesksInv, NEW s \in Desks, DeleteSeat(s)
    PROVE  DesksInv'
  BY TakenFits, DesksAssumption DEF DeleteSeat, DesksInv, DesksTypeOK, RowsReferred, RowsOf

LEMMA ReserveStep ==
    ASSUME DesksInv, NEW u \in Sitters, NEW s \in Desks, NEW d \in DeskDates, NEW half \in Half,
           NEW g \in Visitors \cup {"self"}, Reserve(u, s, d, half, g)
    PROVE  DesksInv'
  <1> DEFINE r == [desk |-> s, user |-> u, date |-> d, half |-> half, guest |-> g]
  <1>1. r \in TakenRow /\ r.desk = s /\ taken' = taken \cup {r}
    BY DEF Reserve, TakenRow
  <1> HIDE DEF r
  <1>2. QED
    BY <1>1 DEF Reserve, DesksInv, DesksTypeOK, RowsReferred

LEMMA StepDesks == DesksInv /\ [DesksNext]_deskVars => DesksInv'
  <1> SUFFICES ASSUME DesksInv, [DesksNext]_deskVars PROVE DesksInv'
    OBVIOUS
  <1>1. CASE UNCHANGED deskVars
    BY <1>1 DEF deskVars, DesksInv, DesksTypeOK, RowsReferred
  <1>2. ASSUME NEW r \in taken, CancelOne(r) PROVE DesksInv'
    BY <1>2 DEF CancelOne, DesksInv, DesksTypeOK, RowsReferred
  <1>3. ASSUME NEW s \in Desks, UpdateSeat(s) PROVE DesksInv'
    BY <1>1, <1>3 DEF UpdateSeat
  <1>4. QED
    BY <1>1, <1>2, <1>3, PlansStep, DeleteSeatStep, ReserveStep DEF DesksNext

(* A seat of the picker is free when no row conflicts.                     *)
LEMMA ResultStatus ==
    ASSUME NEW rs, NEW u, NEW x \in SeatResult(rs, u)
    PROVE  /\ rs = {} => x.status = "free"
           /\ rs # {} /\ {r \in rs : r.user = u} = {} => x.status = "taken"
           /\ {r \in rs : r.user = u} # {} => x.status \in {"mine", "mine_guest"}
  BY DEF SeatResult, SeatShown, Free

LEMMA StatusShown ==
    ASSUME NEW s, NEW u, NEW d, NEW half, NEW x \in SeatStatus(s, u, d, half),
           NEW rs, rs = Conflicting(s, {d}, half)
    PROVE  /\ rs = {} => x.status = "free"
           /\ rs # {} /\ {r \in rs : r.user = u} = {} => x.status = "taken"
           /\ {r \in rs : r.user = u} # {} => x.status \in {"mine", "mine_guest"}
  BY DEF SeatStatus, SeatShown, Free, Mine

LEMMA PickerAlwaysAgrees == PickerAgrees
  <1> SUFFICES ASSUME NEW p \in Plans, NEW s \in SeatsOfPlan(p), NEW u \in Sitters,
                      NEW half \in Half, NEW dates \in (SUBSET DeskDates) \ {{}},
                      NEW offered \in ListSeatsWithStatusForDatesAPI(p, u, dates, half)[s]
               PROVE  /\ offered.status = "free" <=> \A d \in dates : ~SeatTaken(s, d, half)
                      /\ \A d \in dates : \A seen \in FloorplanPage(p, u, d, half, TRUE)[s] :
                            dates = {d} => \/ seen.status = offered.status
                                           \/ {seen.status, offered.status} = {"mine", "mine_guest"}
    BY DEF PickerAgrees
  <1> DEFINE rs == Conflicting(s, dates, half)
             own == {r \in rs : r.user = u}
  <1>1. offered \in SeatResult(rs, u)
    BY DEF ListSeatsWithStatusForDatesAPI, SeatStatusForDates
  <1>2. /\ rs = {} => offered.status = "free"
        /\ rs # {} /\ own = {} => offered.status = "taken"
        /\ own # {} => offered.status \in {"mine", "mine_guest"}
    BY <1>1, ResultStatus
  <1>3. rs = {} <=> \A d \in dates : ~SeatTaken(s, d, half)
    BY DEF Conflicting, SeatTaken
  <1>4. offered.status = "free" <=> rs = {}
    BY <1>2
  <1>5. ASSUME NEW d \in dates, NEW seen \in FloorplanPage(p, u, d, half, TRUE)[s], dates = {d}
        PROVE  \/ seen.status = offered.status
               \/ {seen.status, offered.status} = {"mine", "mine_guest"}
    <2>1. seen \in SeatStatus(s, u, d, half)
      BY DEF FloorplanPage
    <2>2. /\ rs = {} => seen.status = "free"
          /\ rs # {} /\ own = {} => seen.status = "taken"
          /\ own # {} => seen.status \in {"mine", "mine_guest"}
      BY <1>5, <2>1, StatusShown
    <2>3. QED
      BY <1>2, <2>2
  <1>6. QED
    BY <1>3, <1>4, <1>5

LEMMA RefusalsAlwaysShown == DesksInv => RefusalsAreShown
  <1> SUFFICES ASSUME DesksInv, NEW u \in Sitters, NEW d \in DeskDates
               PROVE  /\ d \in ReservationDates(u) <=> AlreadySeated(u, d, "full", "self")
                      /\ ReservationDetails(u, d).hasSelf <=> d \in UsersReservationDates(Sitters)[u]
                      /\ \A r \in taken : r.user = u /\ r.date = d /\ r.desk \notin unenforced =>
                            \E p \in ListedPlans :
                                /\ r.desk \in SeatsOfPlan(p)
                                /\ \E seen \in SeatsAPI(p, u, d, r.half, TRUE)[r.desk] : seen.row = r
    BY DEF RefusalsAreShown
  <1>1. d \in ReservationDates(u) <=> AlreadySeated(u, d, "full", "self")
    BY DEF ReservationDates, AlreadySeated, HalfOverlaps
  <1>2. ReservationDetails(u, d).hasSelf <=> d \in UsersReservationDates(Sitters)[u]
    BY DEF ReservationDetails, UsersReservationDates
  <1>3. ASSUME NEW r \in taken, r.user = u, r.date = d, r.desk \notin unenforced
        PROVE  \E p \in ListedPlans :
                  /\ r.desk \in SeatsOfPlan(p)
                  /\ \E seen \in SeatsAPI(p, u, d, r.half, TRUE)[r.desk] : seen.row = r
    <2>1. PICK p \in ListedPlans : r.desk \in SeatsOfPlan(p)
      BY <1>3, TakenFits DEF DesksInv, RowsReferred, ListedPlans, SeatsOfPlan
    <2>2. SeatsAPI(p, u, d, r.half, TRUE)[r.desk] = SeatStatus(r.desk, u, d, r.half)
      BY <2>1 DEF SeatsAPI
    <2>3. r \in Conflicting(r.desk, {d}, r.half)
      BY <1>3 DEF Conflicting, HalfOverlaps
    <2>4. Mine(r) \in SeatStatus(r.desk, u, d, r.half) /\ Mine(r).row = r
      BY <1>3, <2>3 DEF SeatStatus, Mine, SeatShown
    <2>5. QED
      BY <2>1, <2>2, <2>4
  <1>4. QED
    BY <1>1, <1>2, <1>3

(* What refuses a desk is on a floor plan, under the row that cancels it,  *)
(* and the picker agrees with the plan, for every number of plans, desks,  *)
(* users, guests and dates (ReserveSeat, GetSeatsWithStatus and            *)
(* GetSeatsWithStatusForDates).                                            *)
THEOREM DesksAreTold == DesksSpec => []DesksTypeOK /\ []DesksTold
  <1>1. DesksInv => DesksTypeOK /\ DesksTold
    BY PickerAlwaysAgrees, RefusalsAlwaysShown DEF DesksInv, DesksTold
  <1>2. QED
    BY <1>1, InitDesks, StepDesks, PTL DEF DesksSpec

-----------------------------------------------------------------------------
(* Teams and their members.                                                *)

(* A request that met no interference wrote the membership it is about to  *)
(* clear the departure date of.                                            *)
InsertedIfClean ==
    \A a \in Stewards : steward[a].stage = "reset" /\ steward[a].clean =>
        \E p \in Squads \X Ids : p = <<steward[a].team, steward[a].id>> /\ member[p] # NoMember

(* Only a statement without foreign keys leaves leaders of a deleted team. *)
LeadersReferred == \A p \in leads : p[1] \in orphaning \/ There(p[1])

TeamsInv == TeamsTypeOK /\ AnswersHold /\ InsertedIfClean /\ LeadersReferred

ChainStages == {"find", "create", "insert", "reset"}

LEMMA ChainKinds ==
    /\ \A r \in Chain : /\ r.stage \in ChainStages /\ r.id \in Ids \cup {NoId}
                        /\ r.email \in Emails \cup {NoEmail} /\ r.lines \subseteq Emails
                        /\ r.teams \subseteq Squads /\ r.todo \subseteq Squads
                        /\ r.team \in Squads \cup {Teamless} /\ r.clean \in BOOLEAN
    /\ AtRest.stage = "rest"
  BY DEF Chain, AtRest, ChainStages

LEMMA InChain ==
    ASSUME TeamsTypeOK, NEW a \in Stewards
    PROVE  /\ steward[a] \in Chain \cup {AtRest}
           /\ steward[a].stage \in ChainStages => steward[a] \in Chain
  BY ChainKinds DEF TeamsTypeOK, ChainStages

LEMMA MemberFits ==
    ASSUME TeamsTypeOK, NEW p \in Squads \X Ids
    PROVE  /\ member[p] \in {NoMember, Current} \cup Days
           /\ p[1] \in Squads /\ p[2] \in Ids /\ p = <<p[1], p[2]>>
  BY DEF TeamsTypeOK

LEMMA MarksDiffer ==
    /\ Current \in Nat /\ Unsure \in Nat /\ Current # NoMember /\ Unsure # NoMember
    /\ Current # Unsure /\ \A d \in Days : d # Unsure /\ d # NoMember /\ d <= Current
  BY TeamsAssumption DEF Current, Unsure, NoMember, Days

LEMMA InitTeams == TeamsInit => TeamsInv
  <1> SUFFICES ASSUME TeamsInit PROVE TeamsInv
    OBVIOUS
  <1>1. TeamsTypeOK
    BY TeamsAssumption DEF TeamsInit, TeamsTypeOK
  <1>2. \A a \in Stewards : steward[a].stage = "rest"
    BY ChainKinds DEF TeamsInit
  <1>3. QED
    BY <1>1, <1>2 DEF TeamsInit, TeamsInv, AnswersHold, InsertedIfClean, LeadersReferred

(* A request goes on, and nothing else changes a membership.               *)
LEMMA GiveKeeps ==
    ASSUME TeamsTypeOK, InsertedIfClean, NEW a \in Stewards, NEW r \in Chain \cup {AtRest},
           Give(a, r), NEW m \in [Squads \X Ids -> {NoMember, Current} \cup Days],
           member' = m, \A p \in Squads \X Ids : member[p] # NoMember => m[p] # NoMember,
           r.stage = "reset" /\ r.clean =>
               \E p \in Squads \X Ids : p = <<r.team, r.id>> /\ m[p] # NoMember
    PROVE  steward' \in [Stewards -> Chain \cup {AtRest}] /\ InsertedIfClean'
  <1>1. /\ steward' \in [Stewards -> Chain \cup {AtRest}]
        /\ steward'[a] = r /\ \A b \in Stewards : b # a => steward'[b] = steward[b]
    BY DEF Give, TeamsTypeOK
  <1>2. QED
    BY <1>1 DEF InsertedIfClean

(* A statement on memberships tells the requests in the middle of one.     *)
LEMMA DisturbKeeps ==
    ASSUME TeamsTypeOK, InsertedIfClean, NEW ps \in SUBSET (Squads \X Ids), Disturb(ps),
           \A p \in (Squads \X Ids) \ ps : member'[p] = member[p]
    PROVE  steward' \in [Stewards -> Chain \cup {AtRest}] /\ InsertedIfClean'
  <1>1. ASSUME NEW a \in Stewards
        PROVE  /\ steward'[a] \in Chain \cup {AtRest}
               /\ steward'[a].stage = "reset" /\ steward'[a].clean =>
                    /\ steward'[a] = steward[a] /\ <<steward[a].team, steward[a].id>> \notin ps
    <2>1. CASE Writes(a) \cap ps # {}
      <3>1. steward'[a] = [steward[a] EXCEPT !.clean = FALSE]
        BY <2>1 DEF Disturb
      <3>2. steward[a] \in Chain
        BY <2>1, InChain DEF Writes, ChainStages
      <3>3. QED
        BY <3>1, <3>2 DEF Chain
    <2>2. CASE Writes(a) \cap ps = {}
      BY <2>2, InChain DEF Disturb, Writes
    <2>3. QED
      BY <2>1, <2>2
  <1>2. steward' \in [Stewards -> Chain \cup {AtRest}]
    BY <1>1 DEF Disturb
  <1>3. ASSUME NEW a \in Stewards, steward'[a].stage = "reset", steward'[a].clean
        PROVE  \E p \in Squads \X Ids :
                  p = <<steward'[a].team, steward'[a].id>> /\ member'[p] # NoMember
    <2>1. steward'[a] = steward[a] /\ <<steward[a].team, steward[a].id>> \notin ps
      BY <1>1, <1>3
    <2>2. PICK p \in Squads \X Ids : /\ p = <<steward[a].team, steward[a].id>>
                                     /\ member[p] # NoMember
      BY <1>3, <2>1 DEF InsertedIfClean
    <2>3. member'[p] = member[p]
      BY <2>1, <2>2
    <2>4. QED
      BY <2>1, <2>2, <2>3
  <1>4. QED
    BY <1>2, <1>3 DEF InsertedIfClean

LEMMA CreateUserStep ==
    ASSUME TeamsInv, NEW e \in Emails, CreateUser(e)
    PROVE  TeamsInv'
  <1>1. TeamsTypeOK'
    BY TeamsAssumption DEF CreateUser, InsertUser, TeamsInv, TeamsTypeOK, Ids
  <1>2. QED
    BY <1>1 DEF CreateUser, TeamsInv, AnswersHold, InsertedIfClean, LeadersReferred, There

LEMMA CascadeStep ==
    ASSUME TeamsInv, NEW ps \in SUBSET (Squads \X Ids), CascadeOrNot(ps),
           idOf' \in [Emails -> Ids \cup {NoId}], UNCHANGED lastId,
           squadRow' \in [Squads -> {"unborn", "there", "gone"}],
           editsLeft' \in 0 .. MaxTeamEdits,
           \A p \in (Squads \X Ids) \ ps : There(p[1]) => There(p[1])'
    PROVE  TeamsInv'
  <1>1. /\ member' \in [Squads \X Ids -> {NoMember, Current} \cup Days]
        /\ \A p \in (Squads \X Ids) \ ps : member'[p] = member[p]
    BY DEF CascadeOrNot, TeamsInv, TeamsTypeOK
  <1>2. steward' \in [Stewards -> Chain \cup {AtRest}] /\ InsertedIfClean'
    <2>1. TeamsTypeOK /\ InsertedIfClean /\ Disturb(ps)
      BY DEF CascadeOrNot, TeamsInv
    <2>2. QED
      BY <1>1, <2>1, DisturbKeeps
  <1>3. /\ answerOf' \in [Squads \X Ids -> {NoMember, Current, Unsure} \cup Days]
        /\ \A p \in ps : answerOf'[p] = Unsure
        /\ \A p \in (Squads \X Ids) \ ps : answerOf'[p] = answerOf[p]
    BY DEF CascadeOrNot, UnsureOf, TeamsInv, TeamsTypeOK
  <1>4. AnswersHold'
    BY <1>1, <1>3 DEF TeamsInv, AnswersHold
  <1>5. leads' \subseteq leads /\ orphaning \subseteq orphaning' /\ orphaning' \subseteq Squads
    <2>1. \A p \in ps : p[1] \in Squads
      OBVIOUS
    <2>2. QED
      BY <2>1 DEF CascadeOrNot, TeamsInv, TeamsTypeOK
  <1>6. LeadersReferred'
    <2> SUFFICES ASSUME NEW p \in leads', p[1] \notin orphaning' PROVE There(p[1])'
      BY DEF LeadersReferred
    <2>1. p \in leads /\ p \in Squads \X Ids /\ p[1] \notin orphaning
      BY <1>5 DEF TeamsInv, TeamsTypeOK
    <2>2. p \notin ps
      BY <2>1 DEF CascadeOrNot
    <2>3. QED
      BY <2>1, <2>2 DEF TeamsInv, LeadersReferred
  <1>7. TeamsTypeOK'
    BY <1>1, <1>2, <1>3, <1>5 DEF TeamsInv, TeamsTypeOK
  <1>8. QED
    BY <1>2, <1>4, <1>6, <1>7 DEF TeamsInv

LEMMA AskCounts ==
    ASSUME TeamsTypeOK, Ask
    PROVE  editsLeft' \in 0 .. MaxTeamEdits
  BY TeamsAssumption DEF Ask, TeamsTypeOK

LEMMA DeleteUserStep ==
    ASSUME TeamsInv, NEW e \in Emails, DeleteUser(e)
    PROVE  TeamsInv'
  <1> DEFINE ps == {p \in Squads \X Ids : p[2] = idOf[e]}
  <1>1. ps \in SUBSET (Squads \X Ids) /\ CascadeOrNot(ps)
    BY DEF DeleteUser
  <1> HIDE DEF ps
  <1>2. /\ idOf' \in [Emails -> Ids \cup {NoId}] /\ UNCHANGED <<lastId, squadRow>>
        /\ editsLeft' \in 0 .. MaxTeamEdits
    BY AskCounts DEF DeleteUser, TeamsInv, TeamsTypeOK
  <1>3. QED
    BY <1>1, <1>2, CascadeStep DEF TeamsInv, TeamsTypeOK, There

LEMMA DeleteTeamStep ==
    ASSUME TeamsInv, NEW t \in Squads, DeleteTeam(t)
    PROVE  TeamsInv'
  <1> DEFINE ps == {p \in Squads \X Ids : p[1] = t}
  <1>1. /\ ps \in SUBSET (Squads \X Ids) /\ CascadeOrNot(ps)
        /\ \A p \in (Squads \X Ids) \ ps : p[1] \in Squads /\ p[1] # t
    BY DEF DeleteTeam
  <1> HIDE DEF ps
  <1>2. /\ squadRow' \in [Squads -> {"unborn", "there", "gone"}] /\ UNCHANGED <<idOf, lastId>>
        /\ \A s \in Squads : s # t => squadRow'[s] = squadRow[s]
        /\ editsLeft' \in 0 .. MaxTeamEdits
    BY AskCounts DEF DeleteTeam, TeamsInv, TeamsTypeOK
  <1>3. QED
    BY <1>1, <1>2, CascadeStep DEF TeamsInv, TeamsTypeOK, There

LEMMA CreateTeamStep ==
    ASSUME TeamsInv, NEW t \in Squads, CreateTeam(t)
    PROVE  TeamsInv'
  <1>1. TeamsTypeOK' /\ \A s \in Squads : There(s) => There(s)'
    BY DEF CreateTeam, TeamsInv, TeamsTypeOK, There
  <1>2. \A p \in leads : p[1] \in Squads
    BY DEF TeamsInv, TeamsTypeOK
  <1>3. QED
    BY <1>1, <1>2 DEF CreateTeam, TeamsInv, AnswersHold, InsertedIfClean, LeadersReferred

LEMMA SetTeamLeadersStep ==
    ASSUME TeamsInv, NEW t \in Squads, NEW ids \in SUBSET Ids, SetTeamLeaders(t, ids)
    PROVE  TeamsInv'
  <1>1. TeamsTypeOK'
    BY AskCounts DEF SetTeamLeaders, TeamsInv, TeamsTypeOK
  <1>2. LeadersReferred'
    <2> SUFFICES ASSUME NEW p \in leads', p[1] \notin orphaning' PROVE There(p[1])
      BY DEF LeadersReferred, There, SetTeamLeaders
    <2>1. CASE p[1] = t
      BY <2>1 DEF SetTeamLeaders
    <2>2. CASE p[1] # t
      BY <2>2 DEF SetTeamLeaders, TeamsInv, LeadersReferred
    <2>3. QED
      BY <2>1, <2>2
  <1>3. QED
    BY <1>1, <1>2 DEF SetTeamLeaders, TeamsInv, AnswersHold, InsertedIfClean

(* One statement on a membership.                                          *)
LEMMA SettleStep ==
    ASSUME TeamsInv, NEW p \in Squads \X Ids, NEW m \in {NoMember, Current} \cup Days,
           Settle(p, m)
    PROVE  TeamsInv'
  <1>1. /\ member' \in [Squads \X Ids -> {NoMember, Current} \cup Days]
        /\ \A q \in (Squads \X Ids) \ {p} : member'[q] = member[q]
    BY DEF Settle, TeamsInv, TeamsTypeOK
  <1>2. /\ answerOf' \in [Squads \X Ids -> {NoMember, Current, Unsure} \cup Days]
        /\ \A q \in (Squads \X Ids) \ {p} : answerOf'[q] = answerOf[q]
        /\ answerOf'[p] = Unsure \/ answerOf'[p] = member'[p]
    BY DEF Settle, Answered, TeamsInv, TeamsTypeOK
  <1>3. steward' \in [Stewards -> Chain \cup {AtRest}] /\ InsertedIfClean'
    <2>1. {p} \in SUBSET (Squads \X Ids) /\ Disturb({p})
      BY DEF Settle
    <2>2. QED
      BY <1>1, <2>1, DisturbKeeps DEF TeamsInv
  <1>4. TeamsTypeOK'
    BY <1>1, <1>2, <1>3, AskCounts DEF Settle, TeamsInv, TeamsTypeOK
  <1>5. AnswersHold'
    BY <1>1, <1>2 DEF TeamsInv, AnswersHold
  <1>6. LeadersReferred'
    BY DEF Settle, TeamsInv, LeadersReferred, There
  <1>7. QED
    BY <1>3, <1>4, <1>5, <1>6 DEF TeamsInv

(* What becomes of a request that goes on to another line or team.         *)
LEMMA ChainsGoOn ==
    ASSUME NEW r \in Chain, NEW i \in Ids \cup {NoId}
    PROVE  /\ NextLine(r) \in Chain \cup {AtRest} /\ NextLine(r).stage # "reset"
           /\ NextTeam(r) \in Chain \cup {AtRest} /\ NextTeam(r).stage # "reset"
           /\ KnownAs(r, i) \in Chain \cup {AtRest} /\ KnownAs(r, i).stage # "reset"
  <1>1. ASSUME NEW s \in Chain
        PROVE  NextLine(s) \in Chain \cup {AtRest} /\ NextLine(s).stage # "reset"
    BY ChainKinds DEF NextLine, Chain
  <1>2. ASSUME NEW s \in Chain
        PROVE  NextTeam(s) \in Chain \cup {AtRest} /\ NextTeam(s).stage # "reset"
    <2>1. CASE s.todo = {}
      BY <1>1, <2>1 DEF NextTeam
    <2>2. CASE s.todo # {}
      BY <2>2 DEF NextTeam, Chain
    <2>3. QED
      BY <2>1, <2>2
  <1>3. [r EXCEPT !.id = i, !.email = NoEmail, !.todo = r.teams] \in Chain
    BY DEF Chain
  <1>4. QED
    BY <1>1, <1>2, <1>3 DEF KnownAs

(* A step of a request that writes no membership.                          *)
LEMMA RequestStep ==
    ASSUME TeamsInv, NEW a \in Stewards, NEW r \in Chain \cup {AtRest}, Give(a, r),
           r.stage # "reset",
           UNCHANGED <<squadRow, member, leads, answerOf, orphaning>>,
           editsLeft' \in 0 .. MaxTeamEdits, lastId' \in 0 .. MaxIds,
           idOf' \in [Emails -> Ids \cup {NoId}]
    PROVE  TeamsInv'
  <1>1. steward' \in [Stewards -> Chain \cup {AtRest}] /\ InsertedIfClean'
    <2>1. member \in [Squads \X Ids -> {NoMember, Current} \cup Days] /\ member' = member
      BY DEF TeamsInv, TeamsTypeOK
    <2>2. QED
      BY <2>1, GiveKeeps DEF TeamsInv
  <1>2. QED
    BY <1>1 DEF TeamsInv, TeamsTypeOK, AnswersHold, LeadersReferred, There

LEMMA BeginChainStep ==
    ASSUME TeamsInv, NEW a \in Stewards, NEW op \in {"add", "member", "user", "batch"},
           NEW lines \in SUBSET Emails, NEW later \in {"find", "insert"},
           NEW i \in Ids \cup {NoId}, NEW ts \in SUBSET Squads,
           BeginChain(a, Chained(op, lines, later, i, ts))
    PROVE  TeamsInv'
  <1>1. Chained(op, lines, later, i, ts) \in Chain /\ Chained(op, lines, later, i, ts).stage = later
    BY DEF Chained, Chain
  <1> DEFINE r == Chained(op, lines, later, i, ts)
  <1>2. r \in Chain \cup {AtRest} /\ r.stage # "reset" /\ Give(a, r)
    BY <1>1 DEF BeginChain
  <1> HIDE DEF r
  <1>3. QED
    BY <1>2, AskCounts, RequestStep DEF BeginChain, TeamsInv, TeamsTypeOK

LEMMA FindUserStep ==
    ASSUME TeamsInv, NEW a \in Stewards, FindUser(a)
    PROVE  TeamsInv'
  <1>1. steward[a] \in Chain
    BY InChain DEF FindUser, TeamsInv, ChainStages
  <1>2. PICK e \in steward[a].lines :
            LET r == [steward[a] EXCEPT !.lines = @ \ {e}]
            IN  IF idOf[e] = NoId THEN Give(a, [r EXCEPT !.stage = "create", !.email = e])
                ELSE IF r.op = "user" THEN Rest(a) ELSE Give(a, KnownAs(r, idOf[e]))
    BY DEF FindUser
  <1> DEFINE r == [steward[a] EXCEPT !.lines = @ \ {e}]
  <1>3. e \in Emails /\ idOf[e] \in Ids \cup {NoId}
    BY <1>1, ChainKinds DEF TeamsInv, TeamsTypeOK
  <1>4. r \in Chain /\ [r EXCEPT !.stage = "create", !.email = e] \in Chain
        /\ [r EXCEPT !.stage = "create", !.email = e].stage = "create"
    BY <1>1, <1>3 DEF Chain
  <1>5. PICK s \in Chain \cup {AtRest} : Give(a, s) /\ s.stage # "reset"
    BY <1>2, <1>3, <1>4, ChainsGoOn, ChainKinds DEF Rest
  <1>6. QED
    BY <1>5, RequestStep DEF FindUser, TeamsInv, TeamsTypeOK

LEMMA InsertProvisionedStep ==
    ASSUME TeamsInv, NEW a \in Stewards, InsertProvisioned(a)
    PROVE  TeamsInv'
  <1>1. steward[a] \in Chain
    BY InChain DEF InsertProvisioned, TeamsInv, ChainStages
  <1>2. /\ idOf' \in [Emails -> Ids \cup {NoId}] /\ lastId' \in 0 .. MaxIds
        /\ lastId < MaxIds => lastId + 1 \in Ids
    BY TeamsAssumption DEF InsertProvisioned, InsertUser, TeamsInv, TeamsTypeOK, Ids
  <1>3. PICK s \in Chain \cup {AtRest} : Give(a, s) /\ s.stage # "reset"
    BY <1>1, <1>2, ChainsGoOn, ChainKinds DEF InsertProvisioned, InsertUser
  <1>4. QED
    BY <1>2, <1>3, RequestStep DEF InsertProvisioned, TeamsInv, TeamsTypeOK

LEMMA InsertMemberStep ==
    ASSUME TeamsInv, NEW a \in Stewards, InsertMember(a)
    PROVE  TeamsInv'
  <1>1. steward[a] \in Chain
    BY InChain DEF InsertMember, TeamsInv, ChainStages
  <1> DEFINE r(t) == [steward[a] EXCEPT !.stage = "reset", !.team = t, !.todo = @ \ {t}]
             p(t) == <<t, steward[a].id>>
             live(t) == There(t) /\ steward[a].id \in LiveIds
  <1>2. PICK t \in steward[a].todo :
            /\ \/ /\ member' = [member EXCEPT ![p(t)] = IF @ = NoMember THEN Current ELSE @]
                  /\ orphaning' = IF live(t) THEN orphaning ELSE orphaning \cup {t}
                  /\ Give(a, [r(t) EXCEPT !.clean = live(t)])
               \/ Give(a, [r(t) EXCEPT !.clean = FALSE]) /\ UNCHANGED <<member, orphaning>>
            /\ Answered(p(t), Unsure)
    BY <1>1 DEF InsertMember, Chain
  <1>3. t \in Squads /\ live(t) \in BOOLEAN
    BY <1>1, ChainKinds DEF There
  <1>4. /\ member' \in [Squads \X Ids -> {NoMember, Current} \cup Days]
        /\ \A q \in Squads \X Ids : q # p(t) => member'[q] = member[q]
        /\ \A q \in Squads \X Ids : member[q] # NoMember => member'[q] # NoMember
    BY <1>2, MarksDiffer DEF TeamsInv, TeamsTypeOK
  <1>5. /\ answerOf' \in [Squads \X Ids -> {NoMember, Current, Unsure} \cup Days]
        /\ \A q \in Squads \X Ids : answerOf'[q] = IF q = p(t) THEN Unsure ELSE answerOf[q]
    BY <1>2 DEF Answered, TeamsInv, TeamsTypeOK
  <1>6. PICK s \in Chain : /\ Give(a, s) /\ s.team = t /\ s.id = steward[a].id
                           /\ s.clean => live(t) /\ (p(t) \in Squads \X Ids => member'[p(t)] # NoMember)
    <2>1. ASSUME NEW c \in BOOLEAN
          PROVE  /\ [r(t) EXCEPT !.clean = c] \in Chain
                 /\ [r(t) EXCEPT !.clean = c].team = t
                 /\ [r(t) EXCEPT !.clean = c].id = steward[a].id
                 /\ [r(t) EXCEPT !.clean = c].clean = c
      BY <1>1, <1>3 DEF Chain
    <2>2. CASE Give(a, [r(t) EXCEPT !.clean = FALSE])
      BY <2>1, <2>2
    <2>3. CASE /\ member' = [member EXCEPT ![p(t)] = IF @ = NoMember THEN Current ELSE @]
               /\ Give(a, [r(t) EXCEPT !.clean = live(t)])
      <3>1. p(t) \in Squads \X Ids => member'[p(t)] # NoMember
        BY <2>3, MarksDiffer DEF TeamsInv, TeamsTypeOK
      <3>2. QED
        BY <1>3, <2>1, <2>3, <3>1
    <2>4. QED
      BY <1>2, <2>2, <2>3
  <1>7. steward' \in [Stewards -> Chain \cup {AtRest}] /\ InsertedIfClean'
    <2>1. PICK m \in [Squads \X Ids -> {NoMember, Current} \cup Days] : member' = m
      BY <1>4
    <2>2. live(t) => p(t) \in Squads \X Ids
      BY <1>3 DEF LiveIds, TeamsInv, TeamsTypeOK
    <2>3. s.clean => \E q \in Squads \X Ids : q = <<s.team, s.id>> /\ m[q] # NoMember
      BY <1>6, <2>1, <2>2
    <2>4. \A q \in Squads \X Ids : member[q] # NoMember => m[q] # NoMember
      BY <1>4, <2>1
    <2>5. TeamsTypeOK /\ InsertedIfClean /\ s \in Chain \cup {AtRest} /\ Give(a, s)
      BY <1>6 DEF TeamsInv
    <2>6. QED
      BY ONLY <2>1, <2>3, <2>4, <2>5, GiveKeeps, a \in Stewards
  <1>8. orphaning \subseteq orphaning' /\ orphaning' \subseteq Squads
    BY <1>2, <1>3 DEF TeamsInv, TeamsTypeOK
  <1>9. TeamsTypeOK'
    BY <1>4, <1>5, <1>7, <1>8 DEF InsertMember, TeamsInv, TeamsTypeOK
  <1>10. AnswersHold'
    BY <1>4, <1>5 DEF TeamsInv, AnswersHold
  <1>11. LeadersReferred'
    BY <1>8 DEF InsertMember, TeamsInv, LeadersReferred, There
  <1>12. QED
    BY <1>7, <1>9, <1>10, <1>11 DEF TeamsInv

LEMMA ResetDepartureStep ==
    ASSUME TeamsInv, NEW a \in Stewards, ResetDeparture(a)
    PROVE  TeamsInv'
  <1>1. steward[a] \in Chain
    BY InChain DEF ResetDeparture, TeamsInv, ChainStages
  <1> DEFINE r == steward[a]
             p == <<r.team, r.id>>
  <1>2. /\ member' \in [Squads \X Ids -> {NoMember, Current} \cup Days]
        /\ \A q \in Squads \X Ids : q # p => member'[q] = member[q]
        /\ \A q \in Squads \X Ids : member[q] # NoMember => member'[q] # NoMember
    BY MarksDiffer DEF ResetDeparture, TeamsInv, TeamsTypeOK
  <1>3. /\ answerOf' \in [Squads \X Ids -> {NoMember, Current, Unsure} \cup Days]
        /\ \A q \in Squads \X Ids : q # p => answerOf'[q] = answerOf[q]
        /\ p \in Squads \X Ids => answerOf'[p] = Unsure \/ answerOf'[p] = member'[p]
    <2>1. r.clean /\ p \in Squads \X Ids => member[p] # NoMember
      BY DEF ResetDeparture, TeamsInv, InsertedIfClean
    <2>2. QED
      BY <2>1 DEF ResetDeparture, Answered, TeamsInv, TeamsTypeOK
  <1>4. PICK s \in Chain \cup {AtRest} : Give(a, s) /\ s.stage # "reset"
    BY <1>1, ChainsGoOn, ChainKinds DEF ResetDeparture
  <1>5. steward' \in [Stewards -> Chain \cup {AtRest}] /\ InsertedIfClean'
    <2>1. PICK m \in [Squads \X Ids -> {NoMember, Current} \cup Days] : member' = m
      BY <1>2
    <2>2. QED
      BY <1>2, <1>4, <2>1, GiveKeeps DEF TeamsInv
  <1>6. TeamsTypeOK'
    BY <1>2, <1>3, <1>5 DEF ResetDeparture, TeamsInv, TeamsTypeOK
  <1>7. AnswersHold'
    BY <1>2, <1>3 DEF TeamsInv, AnswersHold
  <1>8. LeadersReferred'
    BY DEF ResetDeparture, TeamsInv, LeadersReferred, There
  <1>9. QED
    BY <1>5, <1>6, <1>7, <1>8 DEF TeamsInv

LEMMA StopStewardsStep ==
    ASSUME TeamsInv, StopStewards
    PROVE  TeamsInv'
  <1>1. steward' \in [Stewards -> Chain \cup {AtRest}] /\ InsertedIfClean'
    BY ChainKinds DEF StopStewards, InsertedIfClean
  <1>2. QED
    BY <1>1 DEF StopStewards, TeamsInv, TeamsTypeOK, AnswersHold, LeadersReferred, There

LEMMA StepTeams == TeamsInv /\ [TeamsNext]_teamVars => TeamsInv'
  <1> SUFFICES ASSUME TeamsInv, [TeamsNext]_teamVars PROVE TeamsInv'
    OBVIOUS
  <1>1. CASE UNCHANGED teamVars
    BY <1>1 DEF teamVars, TeamsInv, TeamsTypeOK, AnswersHold, InsertedIfClean, LeadersReferred,
                There
  <1>2. ASSUME NEW p \in Squads \X Ids,
               \/ RemoveTeamMember(p)
               \/ \E left \in {Current} \cup Days : SetTeamMemberLeftAt(p, left)
        PROVE  TeamsInv'
    <2>1. PICK m \in {NoMember, Current} \cup Days : Settle(p, m)
      BY <1>2 DEF RemoveTeamMember, SetTeamMemberLeftAt
    <2>2. QED
      BY <2>1, SettleStep
  <1>3. ASSUME NEW a \in Stewards, NEW t \in Squads,
               \/ \E i \in Ids : AddTeamMember(a, t, i)
               \/ \E e \in Emails : PreprovisionTeamMember(a, t, e)
        PROVE  TeamsInv'
    BY <1>3, BeginChainStep DEF AddTeamMember, PreprovisionTeamMember
  <1>4. ASSUME NEW a \in Stewards, NEW ts \in SUBSET Squads,
               \/ \E e \in Emails : PreprovisionUser(a, e, ts)
               \/ \E es \in SUBSET Emails : BatchPreprovisionUsers(a, es, ts)
        PROVE  TeamsInv'
    BY <1>4, BeginChainStep DEF PreprovisionUser, BatchPreprovisionUsers
  <1>5. QED
    BY <1>1, <1>2, <1>3, <1>4, CreateUserStep, DeleteUserStep, CreateTeamStep, DeleteTeamStep,
       SetTeamLeadersStep, FindUserStep, InsertProvisionedStep, InsertMemberStep,
       ResetDepartureStep, StopStewardsStep DEF TeamsNext

(* Who may act for a member is listed on every page that tells of it.      *)
LEMMA AuthorityAlwaysListed == TeamsInv => AuthorityIsListed
  <1> SUFFICES ASSUME TeamsInv, NEW i \in LiveIds, NEW target \in LiveIds,
                      IsTeamLeaderOf(i, target), GetLedTeamIDs(i) \cap orphaning = {}
               PROVE  /\ LeaderMayMove(i, target)
                      /\ \E t \in GetLedTeams(i) :
                            /\ i \in ListTeamLeaders(t) /\ target \in GetTeamMembers(t)
                            /\ i \in GetTeamLeaderIDs(t) /\ t \in HydrateUsersTeams[target]
                            /\ \A start \in Days : target \in GetTeamsMembersAt({t}, start)
                            /\ \A manages \in BOOLEAN :
                                  LET shown == TeamsPage(manages, i)[t]
                                  IN  <<target, Current>> \in shown.members /\ i \in shown.leaders
    BY DEF AuthorityIsListed
  <1>1. PICK t \in Squads : <<t, i>> \in leads /\ member[<<t, target>>] = Current
    BY DEF IsTeamLeaderOf
  <1>2. i \in Ids /\ target \in Ids
    BY DEF LiveIds, TeamsInv, TeamsTypeOK
  <1>3. t \in GetLedTeamIDs(i) /\ There(t)
    BY <1>1 DEF GetLedTeamIDs, TeamsInv, LeadersReferred
  <1>4. LeaderMayMove(i, target) /\ t \in GetLedTeams(i)
    BY <1>1, <1>3 DEF LeaderMayMove, GetUserTeams, GetLedTeams
  <1>5. i \in ListTeamLeaders(t) /\ target \in GetTeamMembers(t) /\ i \in GetTeamLeaderIDs(t)
    BY <1>1, <1>2 DEF ListTeamLeaders, GetTeamMembers, GetTeamLeaderIDs
  <1>6. t \in HydrateUsersTeams[target] /\ target \in GetAllTeamMembers(t)
    BY <1>1, <1>3, MarksDiffer DEF HydrateUsersTeams, GetAllTeamMembers
  <1>7. ASSUME NEW start \in Days PROVE target \in GetTeamsMembersAt({t}, start)
    BY <1>1, <1>6, MarksDiffer DEF GetTeamsMembersAt, GetTeamMembersAt
  <1>8. ASSUME NEW manages \in BOOLEAN
        PROVE  <<target, Current>> \in TeamsPage(manages, i)[t].members
               /\ i \in TeamsPage(manages, i)[t].leaders
    <2>1. TeamsPage(manages, i)[t] =
             [members |-> IF t \in DOMAIN GetAllTeamsMembers THEN GetAllTeamsMembers[t] ELSE {},
              leaders |-> IF t \in DOMAIN GetAllTeamsLeaders THEN GetAllTeamsLeaders[t] ELSE {}]
      BY <1>3 DEF TeamsPage
    <2>2. <<target, Current>> \in GetAllTeamsMembers[t] /\ t \in DOMAIN GetAllTeamsMembers
      BY <1>1, <1>6 DEF GetAllTeamsMembers
    <2>3. i \in GetAllTeamsLeaders[t] /\ t \in DOMAIN GetAllTeamsLeaders
      BY <1>5 DEF GetAllTeamsLeaders
    <2>4. QED
      BY <2>1, <2>2, <2>3
  <1>9. QED
    BY <1>4, <1>5, <1>6, <1>7, <1>8

(* What requests answered of a membership holds, and whoever may act for a *)
(* member is listed as the leader of one of the member's teams, for every  *)
(* number of users, teams and requests in progress (AddTeamMember,         *)
(* PreprovisionUser, DeleteTeam, IsTeamLeaderOf).                          *)
THEOREM MembershipsAreKept == TeamsSpec => []TeamsTypeOK /\ []MembershipsKept
  <1>1. TeamsInv => TeamsTypeOK /\ MembershipsKept
    BY AuthorityAlwaysListed DEF TeamsInv, MembershipsKept
  <1>2. QED
    BY <1>1, InitTeams, StepTeams, PTL DEF TeamsSpec

-----------------------------------------------------------------------------
(* Starts of the server.                                                   *)

(* The stages that migrate the table of presences, and those after them.   *)
Migrating == {"staging", "copy", "drop", "rename"}
Migrated == {"legacy", "renameApp", "count", "seed", "running"}

(* What holds of the tables whatever failed.                               *)
TablesFit ==
    /\ staging.exists => staging.half
    /\ ~staging.exists => staging = NoTable
    /\ ~presences.exists => presences = NoTable
    /\ appDB.there /\ presences.exists => presences.half

(* Nothing went wrong that loses rows.                                     *)
Unharmed ==
    /\ failed \cap {"half", "staging", "copy", "rename", "legacy"} = {}
    /\ appDB.rows = {} \/ appDB.half
    /\ "rename" \notin torn

ToCopy == IF appDB.there THEN appDB.rows ELSE {}

(* Where the rows are then that no user removed: a table of before has all *)
(* of them, and the new one, once they are copied, has as many.            *)
RowsHeld ==
    /\ IF stage = "rename" /\ ~presences.exists
       THEN Rows \subseteq staging.rows \cup removed \cup ToCopy
       ELSE Rows \subseteq presences.rows \cup removed \cup ToCopy
    /\ stage \in Migrated \ {"legacy"} => Rows \subseteq presences.rows \cup removed
    /\ stage \in Migrated => presences.exists
    /\ stage \in {"staging", "copy", "drop"} => presences.exists /\ ~presences.half
    /\ stage = "rename" => ~presences.half
    /\ stage \in {"copy", "drop", "rename"} => staging.exists
    /\ presences.exists /\ ~presences.half =>
           staging.rows = {} \/ presences.rows \subseteq staging.rows
    /\ stage = "drop" => presences.rows \subseteq staging.rows

(* Nothing went wrong that brings rows back: app.db is copied once, and no *)
(* table that users have removed rows from is migrated.                    *)
Untouched == failed \cap {"renameApp", "drop", "half"} = {}

NothingBack ==
    /\ stage \in {"count", "seed", "running"} => ~appDB.there
    /\ stage \in {"staging", "copy", "drop"} => ~presences.half
    /\ stage = "rename" => ~presences.exists
    /\ stage \in Migrated /\ presences.exists => presences.half
    /\ removed # {} => ~appDB.there /\ presences.half
    /\ presences.rows \cap removed = {}

(* The default statuses, and the leaders by role.                          *)
SeedsCounted ==
    /\ stage \notin {"stopped", "seed", "running"} => seeded = 0
    /\ stage = "seed" => seeded < Defaults /\ seeded <= statuses
    /\ "count" \notin failed => IF stage = "seed" THEN statuses = seeded ELSE statuses <= Defaults
    /\ "seed" \notin torn /\ stage # "seed" => statuses = 0 \/ statuses >= Defaults
    /\ stage = "running" => statuses # 0

LeadersKept ==
    "leaders" \notin failed /\ stage \notin {"stopped", "leaders"} => (roleLeader => leaderRow)

StartupInv ==
    /\ StartupTypeOK /\ TablesFit
    /\ Unharmed => RowsHeld
    /\ Untouched => NothingBack
    /\ SeedsCounted /\ LeadersKept

LEMMA InitStartup == StartupInit => StartupInv
  <1> SUFFICES ASSUME StartupInit PROVE StartupInv
    OBVIOUS
  <1>1. /\ stage = "stopped" /\ staging = NoTable /\ removed = {} /\ seeded = 0
        /\ staging.rows = {} /\ ~staging.exists /\ staging \in Tables
    BY DEF StartupInit, NoTable, Tables
  <1> DEFINE Begun == /\ presences \in Tables /\ (~presences.exists => presences = NoTable)
                      /\ statuses \in {0, Defaults} /\ RowsHeld
                      /\ appDB \in [there : BOOLEAN, half : BOOLEAN, rows : SUBSET Rows]
                      /\ appDB.there => presences = NoTable
  <1>2. Begun
    <2>1. ASSUME NEW half \in BOOLEAN, presences = Table(half, Rows), statuses = Defaults,
                 appDB = [there |-> FALSE, half |-> FALSE, rows |-> {}]
          PROVE  Begun
      BY <1>1, <2>1 DEF Table, Tables, RowsHeld, Migrated, ToCopy
    <2>2. ASSUME NEW half \in BOOLEAN, presences = NoTable, statuses = 0,
                 appDB = [there |-> TRUE, half |-> half, rows |-> Rows]
          PROVE  Begun
      BY <1>1, <2>2 DEF NoTable, Tables, RowsHeld, Migrated, ToCopy
    <2>3. QED
      BY <2>1, <2>2 DEF StartupInit
  <1>3. StartupTypeOK
    <2>1. statuses \in Nat /\ seeded \in 0 .. Defaults /\ starts \in 0 .. MaxStarts
      BY <1>2, StartupAssumption DEF StartupInit
    <2>2. /\ stage \in Stages /\ removed \subseteq Rows
          /\ failed \subseteq Statements /\ torn \subseteq {"rename", "seed"}
      BY DEF StartupInit, Stages
    <2>3. roleLeader \in BOOLEAN /\ leaderRow \in BOOLEAN
      BY DEF StartupInit
    <2>4. QED
      BY <1>1, <1>2, <2>1, <2>2, <2>3 DEF StartupTypeOK
  <1>4. TablesFit /\ NothingBack /\ SeedsCounted /\ LeadersKept
    BY <1>1, <1>2, StartupAssumption
       DEF TablesFit, NothingBack, SeedsCounted, LeadersKept, Migrated, NoTable
  <1>5. QED
    BY <1>2, <1>3, <1>4 DEF StartupInv

LEMMA StartStep ==
    ASSUME StartupInv, Start
    PROVE  StartupInv'
  <1>1. StartupTypeOK'
    BY StartupAssumption DEF Start, Advance, StartupInv, StartupTypeOK, TablesFit, Stages,
                             Statements
  <1>2. TablesFit'
    BY DEF Start, Advance, StartupInv, StartupTypeOK, TablesFit
  <1>3. SeedsCounted' /\ LeadersKept'
    BY StartupAssumption DEF Start, Advance, StartupInv, StartupTypeOK, SeedsCounted,
                             LeadersKept
  <1>4. Untouched' => NothingBack'
    BY DEF Start, Advance, StartupInv, StartupTypeOK, TablesFit, Untouched, NothingBack,
           Migrated
  <1>5. Unharmed' => RowsHeld'
    BY DEF Start, Advance, StartupInv, StartupTypeOK, TablesFit, Unharmed, RowsHeld, Migrated,
           ToCopy
  <1>6. QED
    BY <1>1, <1>2, <1>3, <1>4, <1>5 DEF StartupInv

LEMMA InsertLeadersStep ==
    ASSUME StartupInv, InsertLeaders
    PROVE  StartupInv'
  <1>1. StartupTypeOK'
    BY StartupAssumption DEF InsertLeaders, Advance, Drops, StartupInv, StartupTypeOK,
                             TablesFit, Stages, Statements
  <1>2. TablesFit'
    BY DEF InsertLeaders, Advance, Drops, StartupInv, StartupTypeOK, TablesFit
  <1>3. SeedsCounted' /\ LeadersKept'
    BY StartupAssumption DEF InsertLeaders, Advance, Drops, StartupInv, StartupTypeOK,
                             SeedsCounted, LeadersKept
  <1>4. Untouched' => NothingBack'
    BY DEF InsertLeaders, Advance, Drops, StartupInv, StartupTypeOK, TablesFit, Untouched,
           NothingBack, Migrated
  <1>5. Unharmed' => RowsHeld'
    BY DEF InsertLeaders, Advance, Drops, StartupInv, StartupTypeOK, TablesFit, Unharmed,
           RowsHeld, Migrated, ToCopy
  <1>6. QED
    BY <1>1, <1>2, <1>3, <1>4, <1>5 DEF StartupInv

LEMMA CleanRolesStep ==
    ASSUME StartupInv, CleanRoles
    PROVE  StartupInv'
  <1>1. StartupTypeOK'
    BY StartupAssumption DEF CleanRoles, Advance, StartupInv, StartupTypeOK, TablesFit,
                             Stages, Statements
  <1>2. TablesFit'
    BY DEF CleanRoles, Advance, StartupInv, StartupTypeOK, TablesFit
  <1>3. SeedsCounted' /\ LeadersKept'
    <2>1. SeedsCounted'
      BY DEF CleanRoles, Advance, StartupInv, SeedsCounted
    <2>2. roleLeader' => roleLeader
      <3>1. roleLeader' = FALSE \/ roleLeader' = roleLeader
        BY Zenon DEF CleanRoles
      <3>2. QED
        BY <3>1, Zenon
    <2>3. LeadersKept'
      BY <2>2 DEF CleanRoles, Advance, StartupInv, LeadersKept
    <2>4. QED
      BY <2>1, <2>3
  <1>4. Untouched' => NothingBack'
    BY DEF CleanRoles, Advance, StartupInv, StartupTypeOK, TablesFit, Untouched, NothingBack,
           Migrated
  <1>5. Unharmed' => RowsHeld'
    BY DEF CleanRoles, Advance, StartupInv, StartupTypeOK, TablesFit, Unharmed, RowsHeld,
           Migrated, ToCopy
  <1>6. QED
    BY <1>1, <1>2, <1>3, <1>4, <1>5 DEF StartupInv

LEMMA CreatePresencesStep ==
    ASSUME StartupInv, CreatePresences
    PROVE  StartupInv'
  <1>1. StartupTypeOK'
    BY StartupAssumption DEF CreatePresences, Drops, StartupInv, StartupTypeOK, TablesFit,
                             Stages, Statements, Table, NoTable, Tables
  <1>2. TablesFit'
    BY DEF CreatePresences, Drops, StartupInv, StartupTypeOK, TablesFit, Table, NoTable, Tables
  <1>3. SeedsCounted' /\ LeadersKept'
    BY StartupAssumption DEF CreatePresences, Drops, StartupInv, StartupTypeOK, SeedsCounted,
                             LeadersKept
  <1>4. Untouched' => NothingBack'
    BY DEF CreatePresences, Drops, StartupInv, StartupTypeOK, TablesFit, Untouched,
           NothingBack, Migrated, Table, NoTable, Tables
  <1>5. Unharmed' => RowsHeld'
    BY DEF CreatePresences, Drops, StartupInv, StartupTypeOK, TablesFit, Unharmed, RowsHeld,
           Migrated, ToCopy, Table, NoTable, Tables
  <1>6. QED
    BY <1>1, <1>2, <1>3, <1>4, <1>5 DEF StartupInv

LEMMA CreateStagingStep ==
    ASSUME StartupInv, CreateStaging
    PROVE  StartupInv'
  <1>1. StartupTypeOK'
    <2>1. staging' \in Tables
      <3>1. staging' \in {staging, Table(TRUE, {})}
        BY DEF CreateStaging
      <3>2. staging \in Tables /\ Table(TRUE, {}) \in Tables
        BY DEF StartupInv, StartupTypeOK, Table, Tables
      <3>3. QED
        BY <3>1, <3>2
    <2>2. failed' \subseteq Statements /\ stage' \in Stages
      BY DEF CreateStaging, Advance, Drops, StartupInv, StartupTypeOK, Stages, Statements
    <2>3. QED
      BY <2>1, <2>2 DEF CreateStaging, StartupInv, StartupTypeOK
  <1>2. TablesFit'
    BY DEF CreateStaging, Advance, Drops, StartupInv, StartupTypeOK, TablesFit, Table,
           NoTable, Tables
  <1>3. SeedsCounted' /\ LeadersKept'
    BY StartupAssumption DEF CreateStaging, Advance, Drops, StartupInv, StartupTypeOK,
                             SeedsCounted, LeadersKept
  <1>4. Untouched' => NothingBack'
    BY DEF CreateStaging, Advance, Drops, StartupInv, StartupTypeOK, TablesFit, Untouched,
           NothingBack, Migrated, Table, NoTable, Tables
  <1>5. Unharmed' => RowsHeld'
    BY DEF CreateStaging, Advance, Drops, StartupInv, StartupTypeOK, TablesFit, Unharmed,
           RowsHeld, Migrated, ToCopy, Table, NoTable, Tables
  <1>6. QED
    BY <1>1, <1>2, <1>3, <1>4, <1>5 DEF StartupInv

LEMMA CopyRowsStep ==
    ASSUME StartupInv, CopyRows
    PROVE  StartupInv'
  <1>1. StartupTypeOK'
    BY StartupAssumption DEF CopyRows, Advance, Drops, StartupInv, StartupTypeOK, TablesFit,
                             Stages, Statements, Table, NoTable, Tables
  <1>2. TablesFit'
    BY DEF CopyRows, Advance, Drops, StartupInv, StartupTypeOK, TablesFit, Table, NoTable,
           Tables
  <1>3. SeedsCounted' /\ LeadersKept'
    BY StartupAssumption DEF CopyRows, Advance, Drops, StartupInv, StartupTypeOK,
                             SeedsCounted, LeadersKept
  <1>4. Untouched' => NothingBack'
    BY DEF CopyRows, Advance, Drops, StartupInv, StartupTypeOK, TablesFit, Untouched,
           NothingBack, Migrated, Table, NoTable, Tables
  <1>5. Unharmed' => RowsHeld'
    BY DEF CopyRows, Advance, Drops, StartupInv, StartupTypeOK, TablesFit, Unharmed, RowsHeld,
           Migrated, ToCopy, Table, NoTable, Tables
  <1>6. QED
    BY <1>1, <1>2, <1>3, <1>4, <1>5 DEF StartupInv

LEMMA DropPresencesStep ==
    ASSUME StartupInv, DropPresences
    PROVE  StartupInv'
  <1>1. StartupTypeOK'
    <2>1. presences' \in Tables
      <3>1. presences' \in {presences, NoTable}
        BY DEF DropPresences
      <3>2. presences \in Tables /\ NoTable \in Tables
        BY DEF StartupInv, StartupTypeOK, NoTable, Tables
      <3>3. QED
        BY <3>1, <3>2
    <2>2. failed' \subseteq Statements /\ stage' \in Stages
      BY DEF DropPresences, Advance, Drops, StartupInv, StartupTypeOK, Stages, Statements
    <2>3. QED
      BY <2>1, <2>2 DEF DropPresences, StartupInv, StartupTypeOK
  <1>2. TablesFit'
    BY DEF DropPresences, Advance, Drops, StartupInv, StartupTypeOK, TablesFit, Table,
           NoTable, Tables
  <1>3. SeedsCounted' /\ LeadersKept'
    BY StartupAssumption DEF DropPresences, Advance, Drops, StartupInv, StartupTypeOK,
                             SeedsCounted, LeadersKept
  <1>4. Untouched' => NothingBack'
    BY DEF DropPresences, Advance, Drops, StartupInv, StartupTypeOK, TablesFit, Untouched,
           NothingBack, Migrated, Table, NoTable, Tables
  <1>5. Unharmed' => RowsHeld'
    BY DEF DropPresences, Advance, Drops, StartupInv, StartupTypeOK, TablesFit, Unharmed,
           RowsHeld, Migrated, ToCopy, Table, NoTable, Tables
  <1>6. QED
    BY <1>1, <1>2, <1>3, <1>4, <1>5 DEF StartupInv

LEMMA RenameStagingStep ==
    ASSUME StartupInv, RenameStaging
    PROVE  StartupInv'
  <1>1. StartupTypeOK'
    BY StartupAssumption DEF RenameStaging, Advance, Drops, StartupInv, StartupTypeOK,
                             TablesFit, Stages, Statements, Table, NoTable, Tables
  <1>2. TablesFit'
    BY DEF RenameStaging, Advance, Drops, StartupInv, StartupTypeOK, TablesFit, Table,
           NoTable, Tables
  <1>3. SeedsCounted' /\ LeadersKept'
    BY StartupAssumption DEF RenameStaging, Advance, Drops, StartupInv, StartupTypeOK,
                             SeedsCounted, LeadersKept
  <1>4. Untouched' => NothingBack'
    BY DEF RenameStaging, Advance, Drops, StartupInv, StartupTypeOK, TablesFit, Untouched,
           NothingBack, Migrated, Table, NoTable, Tables
  <1>5. Unharmed' => RowsHeld'
    BY DEF RenameStaging, Advance, Drops, StartupInv, StartupTypeOK, TablesFit, Unharmed,
           RowsHeld, Migrated, ToCopy, Table, NoTable, Tables
  <1>6. QED
    BY <1>1, <1>2, <1>3, <1>4, <1>5 DEF StartupInv

LEMMA CopyLegacyStep ==
    ASSUME StartupInv, CopyLegacy
    PROVE  StartupInv'
  <1>1. StartupTypeOK'
    BY StartupAssumption DEF CopyLegacy, Drops, StartupInv, StartupTypeOK, TablesFit, Stages,
                             Statements, Table, NoTable, Tables
  <1>2. TablesFit'
    BY DEF CopyLegacy, Drops, StartupInv, StartupTypeOK, TablesFit, Table, NoTable, Tables
  <1>3. SeedsCounted' /\ LeadersKept'
    BY StartupAssumption DEF CopyLegacy, Drops, StartupInv, StartupTypeOK, SeedsCounted,
                             LeadersKept
  <1>4. Untouched' => NothingBack'
    BY DEF CopyLegacy, Drops, StartupInv, StartupTypeOK, TablesFit, Untouched, NothingBack,
           Migrated, Table, NoTable, Tables
  <1>5. Unharmed' => RowsHeld'
    BY DEF CopyLegacy, Drops, StartupInv, StartupTypeOK, TablesFit, Unharmed, RowsHeld,
           Migrated, ToCopy, Table, NoTable, Tables
  <1>6. QED
    BY <1>1, <1>2, <1>3, <1>4, <1>5 DEF StartupInv

LEMMA RenameAppDBStep ==
    ASSUME StartupInv, RenameAppDB
    PROVE  StartupInv'
  <1>1. StartupTypeOK'
    BY StartupAssumption DEF RenameAppDB, Advance, Drops, StartupInv, StartupTypeOK,
                             TablesFit, Stages, Statements, Table, NoTable, Tables
  <1>2. TablesFit'
    BY DEF RenameAppDB, Advance, Drops, StartupInv, StartupTypeOK, TablesFit, Table, NoTable,
           Tables
  <1>3. SeedsCounted' /\ LeadersKept'
    BY StartupAssumption DEF RenameAppDB, Advance, Drops, StartupInv, StartupTypeOK,
                             SeedsCounted, LeadersKept
  <1>4. Untouched' => NothingBack'
    BY DEF RenameAppDB, Advance, Drops, StartupInv, StartupTypeOK, TablesFit, Untouched,
           NothingBack, Migrated, Table, NoTable, Tables
  <1>5. Unharmed' => RowsHeld'
    BY DEF RenameAppDB, Advance, Drops, StartupInv, StartupTypeOK, TablesFit, Unharmed,
           RowsHeld, Migrated, ToCopy, Table, NoTable, Tables
  <1>6. QED
    BY <1>1, <1>2, <1>3, <1>4, <1>5 DEF StartupInv

LEMMA CountStatusesStep ==
    ASSUME StartupInv, CountStatuses
    PROVE  StartupInv'
  <1>1. StartupTypeOK'
    BY StartupAssumption DEF CountStatuses, Drops, StartupInv, StartupTypeOK, TablesFit,
                             Stages, Statements
  <1>2. TablesFit'
    BY DEF CountStatuses, Drops, StartupInv, StartupTypeOK, TablesFit
  <1>3. SeedsCounted' /\ LeadersKept'
    BY StartupAssumption DEF CountStatuses, Drops, StartupInv, StartupTypeOK, SeedsCounted,
                             LeadersKept
  <1>4. Untouched' => NothingBack'
    BY DEF CountStatuses, Drops, StartupInv, StartupTypeOK, TablesFit, Untouched, NothingBack,
           Migrated
  <1>5. Unharmed' => RowsHeld'
    BY DEF CountStatuses, Drops, StartupInv, StartupTypeOK, TablesFit, Unharmed, RowsHeld,
           Migrated, ToCopy
  <1>6. QED
    BY <1>1, <1>2, <1>3, <1>4, <1>5 DEF StartupInv

LEMMA SeedStatusStep ==
    ASSUME StartupInv, SeedStatus
    PROVE  StartupInv'
  <1>1. StartupTypeOK'
    <2>1. stage' \in Stages /\ statuses' \in Nat /\ seeded' \in 0 .. Defaults
      BY StartupAssumption DEF SeedStatus, StartupInv, StartupTypeOK, SeedsCounted, Stages
    <2>2. QED
      BY <2>1 DEF SeedStatus, StartupInv, StartupTypeOK
  <1>2. TablesFit'
    BY DEF SeedStatus, StartupInv, StartupTypeOK, TablesFit
  <1>3. SeedsCounted' /\ LeadersKept'
    BY StartupAssumption DEF SeedStatus, StartupInv, StartupTypeOK, SeedsCounted, LeadersKept
  <1>4. Untouched' => NothingBack'
    BY DEF SeedStatus, StartupInv, StartupTypeOK, TablesFit, Untouched, NothingBack, Migrated
  <1>5. Unharmed' => RowsHeld'
    BY DEF SeedStatus, StartupInv, StartupTypeOK, TablesFit, Unharmed, RowsHeld, Migrated,
           ToCopy
  <1>6. QED
    BY <1>1, <1>2, <1>3, <1>4, <1>5 DEF StartupInv

LEMMA RemoveRowStep ==
    ASSUME StartupInv, NEW r \in Rows, RemoveRow(r)
    PROVE  StartupInv'
  <1>1. StartupTypeOK'
    BY StartupAssumption DEF RemoveRow, StartupInv, StartupTypeOK, TablesFit, Stages,
                             Statements, Table, NoTable, Tables
  <1>2. TablesFit'
    BY DEF RemoveRow, StartupInv, StartupTypeOK, TablesFit, Table, NoTable, Tables
  <1>3. SeedsCounted' /\ LeadersKept'
    BY StartupAssumption DEF RemoveRow, StartupInv, StartupTypeOK, SeedsCounted, LeadersKept
  <1>4. Untouched' => NothingBack'
    BY DEF RemoveRow, StartupInv, StartupTypeOK, TablesFit, Untouched, NothingBack, Migrated,
           Table, NoTable, Tables
  <1>5. Unharmed' => RowsHeld'
    BY DEF RemoveRow, StartupInv, StartupTypeOK, TablesFit, Unharmed, RowsHeld, Migrated,
           ToCopy, Table, NoTable, Tables
  <1>6. QED
    BY <1>1, <1>2, <1>3, <1>4, <1>5 DEF StartupInv

LEMMA StopStep ==
    ASSUME StartupInv, Stop
    PROVE  StartupInv'
  <1>1. StartupTypeOK'
    BY StartupAssumption DEF Stop, StartupInv, StartupTypeOK, TablesFit, Stages, Statements
  <1>2. TablesFit'
    BY DEF Stop, StartupInv, StartupTypeOK, TablesFit
  <1>3. SeedsCounted' /\ LeadersKept'
    <2>1. CASE stage = "seed"
      BY <2>1, StartupAssumption DEF Stop, StartupInv, StartupTypeOK, SeedsCounted, LeadersKept
    <2>2. CASE stage # "seed"
      <3>1. "seed" \notin torn' => "seed" \notin torn
        BY DEF Stop
      <3>2. QED
        BY <2>2, <3>1 DEF Stop, StartupInv, StartupTypeOK, SeedsCounted, LeadersKept
    <2>3. QED
      BY <2>1, <2>2
  <1>4. Untouched' => NothingBack'
    BY DEF Stop, StartupInv, StartupTypeOK, TablesFit, Untouched, NothingBack, Migrated
  <1>5. Unharmed' => RowsHeld'
    BY DEF Stop, StartupInv, StartupTypeOK, TablesFit, Unharmed, RowsHeld, Migrated, ToCopy
  <1>6. QED
    BY <1>1, <1>2, <1>3, <1>4, <1>5 DEF StartupInv

LEMMA StepStartup == StartupInv /\ [StartupNext]_startupVars => StartupInv'
  <1> SUFFICES ASSUME StartupInv, [StartupNext]_startupVars PROVE StartupInv'
    OBVIOUS
  <1>1. CASE UNCHANGED startupVars
    BY <1>1 DEF startupVars, StartupInv, StartupTypeOK, TablesFit, Unharmed, RowsHeld,
                Untouched, NothingBack, SeedsCounted, LeadersKept, ToCopy
  <1>2. CASE StartupNext
    BY <1>2, StartStep, InsertLeadersStep, CleanRolesStep, CreatePresencesStep,
       CreateStagingStep, CopyRowsStep, DropPresencesStep, RenameStagingStep, CopyLegacyStep,
       RenameAppDBStep, CountStatusesStep, SeedStatusStep, RemoveRowStep, StopStep
       DEF StartupNext
  <1>3. QED
    BY <1>1, <1>2

(* However often a start is stopped and tried again, and whatever          *)
(* statements fail, a running server has the presences rows of before, its *)
(* statuses and its leaders, and no row that a user removed comes back,    *)
(* but where the failures and stops the properties name say otherwise      *)
(* (migrateCore, migratePresence, migrateLegacy, SeedDefaults), for every  *)
(* number of rows, statuses and starts.                                    *)
THEOREM StartsAreSafe == StartupSpec => []StartupTypeOK /\ []StartIsSafe
  <1>1. StartupInv => StartupTypeOK /\ StartIsSafe
    <2> SUFFICES ASSUME StartupInv PROVE StartIsSafe
      BY DEF StartupInv
    <2>1. StartKeepsRows
      BY DEF StartupInv, StartupTypeOK, SeedsCounted, LeadersKept, Unharmed, RowsHeld,
             Migrated,
             StartKeepsRows
    <2>2. RemovedStaysRemoved
      BY DEF StartupInv, Untouched, NothingBack, RemovedStaysRemoved
    <2>3. QED
      BY <2>1, <2>2 DEF StartIsSafe
  <1>2. QED
    BY <1>1, InitStartup, StepStartup, PTL DEF StartupSpec

-----------------------------------------------------------------------------
(* The reminders worker.                                                   *)

(* A run has nobody left of a team when it is about to open the next one.  *)
NobodyLeft == \A r \in {"worker", "forced"} : run[r].step = "team" => run[r].left = {}

(* The worker's lookup is never skipped.                                   *)
WorkerLooks == run["worker"] # NoRun => ~run["worker"].forced

(* Between a lookup that did not fail and the notification, the worker has *)
(* not sent it.                                                            *)
NotYetSent ==
    run["worker"].step \in {"read", "send"} /\ ~run["worker"].blind =>
        \A n \in notices :
            n.by = "worker" /\ n.to = run["worker"].to /\ n.kind = run["worker"].kind
                => n.date # thisDay

(* Something of a kind to complete by the measure of a team.               *)
OwedIn(t, m, kind) == m \in crew[t] /\ Lacking(m, kind, Horizon[t][kind], Vacations[m])

(* The worker has that member, team and kind still before it.              *)
Ahead(w, t, m, kind) ==
    \/ t \in w.teams
    \/ w.team = t /\ <<m, kind>> \in w.left
    \/ w.team = t /\ w.step \in {"read", "send"} /\ w.to = m /\ w.kind = kind

(* Nobody is skipped whom nothing happened to.                             *)
NobodySkipped ==
    run["worker"] # NoRun =>
        \A m \in steady \ inactive, t \in Crews, k \in Kinds :
            OwedIn(t, m, k) => Told(m, k) \/ Ahead(run["worker"], t, m, k)

RemindersInv ==
    /\ RemindersTypeOK /\ IsFiniteSet(notices)
    /\ RemindedOnceADay /\ NobodyLeft /\ WorkerLooks /\ NotYetSent /\ NobodySkipped

(* The worker's run ends with nobody forgotten.                            *)
WorkerEnds ==
    run["worker"] # NoRun /\ run'["worker"] = NoRun
       => \A m \in steady' \ inactive, k \in Kinds : Owed(m, k) => Told(m, k)'

RunNames == {"worker", "forced"}
RunSteps == {"team", "look", "read", "send"}

LEMMA RunKinds ==
    /\ \A x \in Run : /\ x.step \in RunSteps /\ x.teams \subseteq Crews
                      /\ x.left \subseteq Members \X Kinds /\ x.team \in Crews
                      /\ x.to \in Members /\ x.kind \in Kinds /\ x.blind \in BOOLEAN
    /\ NoRun.step = "idle"
  BY DEF Run, NoRun, RunSteps

LEMMA RunFits ==
    ASSUME RemindersTypeOK, NEW r \in RunNames
    PROVE  /\ run[r] \in Run \cup {NoRun}
           /\ run[r].step \in RunSteps => run[r] \in Run
  BY RunKinds DEF RemindersTypeOK, RunNames, RunSteps

LEMMA RunDomain == RemindersTypeOK => DOMAIN run = RunNames
  BY DEF RemindersTypeOK, RunNames

(* Nothing to complete is looked for on no day.                            *)
LEMMA OffIsNeverOwed ==
    ASSUME RemindersTypeOK, NEW m, NEW kind, NEW off
    PROVE  ~Lacking(m, kind, 0, off)
  <1>1. thisDay \in Nat /\ ReminderDates \subseteq Nat
    BY RemindersAssumption DEF RemindersTypeOK, ReminderDates
  <1>2. ASSUME NEW a \in Nat, NEW b \in Nat, NEW d \in a .. b, d \in WorkingDates(off)
        PROVE  ~(Cardinality(WorkingDates(off) \cap a .. b) <= 0)
    <2> DEFINE T == WorkingDates(off) \cap a .. b
    <2>1. IsFiniteSet(a .. b) /\ T \in SUBSET (a .. b)
      BY FS_Interval
    <2>2. IsFiniteSet(T) /\ d \in T
      BY <1>2, <2>1, FS_Subset
    <2>3. Cardinality(T) \in Nat /\ Cardinality(T) # 0
      BY <2>2, FS_CardinalityType, FS_EmptySet
    <2>4. QED
      BY <2>3
  <1>3. UpcomingWorkingDays(off, 0) = {}
    <2> SUFFICES ASSUME NEW d \in UpcomingWorkingDays(off, 0) PROVE FALSE
      OBVIOUS
    <2>1. /\ d \in WorkingDates(off) /\ d >= thisDay
          /\ Cardinality(WorkingDates(off) \cap thisDay .. d) <= 0
      BY DEF UpcomingWorkingDays
    <2>2. d \in Nat /\ d \in thisDay .. d
      BY <1>1, <2>1 DEF WorkingDates
    <2>3. QED
      BY <1>1, <1>2, <2>1, <2>2
  <1>4. PastWorkingDays(off, 0) = {}
    <2> SUFFICES ASSUME NEW d \in PastWorkingDays(off, 0) PROVE FALSE
      OBVIOUS
    <2>1. /\ d \in WorkingDates(off) /\ d < thisDay
          /\ Cardinality(WorkingDates(off) \cap d .. thisDay - 1) <= 0
      BY DEF PastWorkingDays
    <2>2. d \in Nat /\ thisDay - 1 \in Nat /\ d \in d .. thisDay - 1
      BY <1>1, <2>1 DEF WorkingDates
    <2>3. QED
      BY <1>2, <2>1, <2>2
  <1>5. QED
    BY <1>3, <1>4 DEF Lacking

LEMMA OwedByMeasure ==
    ASSUME RemindersTypeOK, NEW t \in Crews, NEW m \in Members, NEW k \in Kinds, OwedIn(t, m, k)
    PROVE  m \in crew[t] /\ Horizon[t][k] > 0
  <1>1. Horizon[t][k] \in Nat
    BY RemindersAssumption
  <1>2. Horizon[t][k] # 0
    BY OffIsNeverOwed DEF OwedIn
  <1>3. QED
    BY <1>1, <1>2 DEF OwedIn

(* What a member lacks changes only with the member's dates and the clock. *)
LEMMA LackingKept ==
    ASSUME NEW m \in Members, NEW kind \in Kinds, NEW n \in Nat, NEW off,
           thisDay' = thisDay, day'[m] = day[m]
    PROVE  Lacking(m, kind, n, off)' <=> Lacking(m, kind, n, off)
  BY DEF Lacking, UpcomingWorkingDays, PastWorkingDays, WorkingDates

LEMMA InitReminders == RemindersInit => RemindersInv
  <1> SUFFICES ASSUME RemindersInit PROVE RemindersInv
    OBVIOUS
  <1>1. RemindersTypeOK
    <2>1. thisDay \in ReminderDates /\ day \in [Members -> [ReminderDates -> DayState]]
      BY RemindersAssumption DEF RemindersInit
    <2>2. upsets \in 0 .. MaxUpsets
      BY RemindersAssumption DEF RemindersInit
    <2>3. QED
      BY <2>1, <2>2 DEF RemindersInit, RemindersTypeOK
  <1>2. run["worker"] = NoRun /\ \A r \in RunNames : run[r].step = "idle"
    BY RunKinds DEF RemindersInit, RunNames
  <1>3. IsFiniteSet(notices)
    BY FS_EmptySet DEF RemindersInit
  <1>4. QED
    BY <1>1, <1>2, <1>3
       DEF RemindersInit, RemindersInv, RemindedOnceADay, NobodyLeft, WorkerLooks, NotYetSent,
           NobodySkipped, RunNames

(* A step of a run, the worker's or the forced one.                        *)
LEMMA RunStep ==
    ASSUME RemindersInv, NEW r \in RunNames, run[r] \in Run,
           NEW x \in Run \cup {NoRun}, run' = [run EXCEPT ![r] = x],
           x.step = "team" => x.left = {}, x # NoRun => x.forced = run[r].forced,
           UNCHANGED <<thisDay, window, lastRunDate, crew, inactive, day>>,
           notices \subseteq notices', notices' \subseteq Notice, IsFiniteSet(notices'),
           upsets' \in 0 .. MaxUpsets, steady' \subseteq steady,
           \A n \in notices' \ notices : n.by = r,
           r = "worker" /\ x.step \in {"read", "send"} /\ ~x.blind =>
               \A n \in notices' : n.by = "worker" /\ n.to = x.to /\ n.kind = x.kind
                                       => n.date # thisDay,
           \A m \in steady' \ inactive, t \in Crews, k \in Kinds :
               OwedIn(t, m, k) /\ Ahead(run[r], t, m, k)
                   => Told(m, k)' \/ (x # NoRun /\ Ahead(x, t, m, k)),
           RemindedOnceADay'
    PROVE  RemindersInv' /\ WorkerEnds
  <1>1. /\ run' \in [RunNames -> Run \cup {NoRun}] /\ run'[r] = x
        /\ \A q \in RunNames : q # r => run'[q] = run[q]
    BY DEF RemindersInv, RemindersTypeOK, RunNames
  <1>2. RemindersTypeOK'
    BY <1>1 DEF RemindersInv, RemindersTypeOK, RunNames
  <1>3. NobodyLeft' /\ WorkerLooks'
    BY <1>1, RunKinds DEF RemindersInv, NobodyLeft, WorkerLooks, RunNames, RunSteps
  <1>4. NotYetSent'
    <2>1. CASE r = "worker"
      BY <1>1, <2>1 DEF NotYetSent
    <2>2. CASE r = "forced"
      <3>1. run'["worker"] = run["worker"]
        BY <1>1, <2>2 DEF RunNames
      <3>2. \A n \in notices' : n.by = "worker" => n \in notices
        BY <2>2
      <3>3. QED
        BY <3>1, <3>2 DEF RemindersInv, NotYetSent
    <2>3. QED
      BY <2>1, <2>2 DEF RunNames
  <1>5. \A m, k : Told(m, k) => Told(m, k)'
    BY DEF Told
  <1>6. \A m \in Members, t \in Crews, k \in Kinds : OwedIn(t, m, k)' <=> OwedIn(t, m, k)
    <2>1. ASSUME NEW m \in Members, NEW t \in Crews, NEW k \in Kinds
          PROVE  OwedIn(t, m, k)' <=> OwedIn(t, m, k)
      <3>1. Horizon[t][k] \in Nat
        BY RemindersAssumption
      <3>2. QED
        BY <3>1, LackingKept DEF OwedIn
    <2>2. QED
      BY <2>1
  <1>7. ASSUME run["worker"] # NoRun, NEW m \in steady' \ inactive, NEW t \in Crews, NEW k \in Kinds,
               OwedIn(t, m, k)
        PROVE  Told(m, k)' \/ (run'["worker"] # NoRun /\ Ahead(run'["worker"], t, m, k))
    <2>1. Told(m, k) \/ Ahead(run["worker"], t, m, k)
      BY <1>7 DEF RemindersInv, NobodySkipped
    <2>2. CASE r = "worker"
      BY <1>1, <1>5, <1>7, <2>1, <2>2
    <2>3. CASE r = "forced"
      BY <1>1, <1>5, <1>7, <2>1, <2>3 DEF RunNames
    <2>4. QED
      BY <2>2, <2>3 DEF RunNames
  <1>8. run'["worker"] # NoRun => run["worker"] # NoRun
    BY <1>1, RunKinds DEF RunNames, RunSteps
  <1>9. NobodySkipped'
    <2> SUFFICES ASSUME run'["worker"] # NoRun, NEW m \in steady' \ inactive', NEW t \in Crews,
                        NEW k \in Kinds, OwedIn(t, m, k)'
                 PROVE  Told(m, k)' \/ Ahead(run'["worker"], t, m, k)
      BY DEF NobodySkipped, Ahead
    <2>1. m \in Members /\ m \in steady' \ inactive
      BY DEF RemindersInv, RemindersTypeOK
    <2>2. OwedIn(t, m, k)
      BY <1>6, <2>1
    <2>3. QED
      BY <1>7, <1>8, <2>1, <2>2
  <1>10. WorkerEnds
    <2> SUFFICES ASSUME run["worker"] # NoRun, run'["worker"] = NoRun,
                        NEW m \in steady' \ inactive, NEW k \in Kinds, Owed(m, k)
                 PROVE  Told(m, k)'
      BY DEF WorkerEnds
    <2>1. PICK t \in Crews : OwedIn(t, m, k)
      BY DEF Owed, OwedIn
    <2>2. QED
      BY <1>7, <2>1
  <1>11. QED
    BY <1>2, <1>3, <1>4, <1>9, <1>10 DEF RemindersInv

(* Whatever else happens while the runs stay where they are.               *)
LEMMA AsideStep ==
    ASSUME RemindersInv, RemindersTypeOK', UNCHANGED <<thisDay, run>>, steady' \subseteq steady,
           IsFiniteSet(notices'), RemindedOnceADay',
           \A m \in steady' \ inactive' : /\ m \notin inactive /\ day'[m] = day[m]
                                          /\ \A t \in Crews : m \in crew'[t] => m \in crew[t],
           \A m \in steady', k \in Kinds : Told(m, k) => Told(m, k)',
           \A n \in notices' : n.by = "worker" =>
               \E o \in notices : /\ o.by = "worker" /\ o.to = n.to
                                  /\ o.kind = n.kind /\ o.date = n.date
    PROVE  RemindersInv' /\ WorkerEnds
  <1>1. NobodyLeft' /\ WorkerLooks'
    BY DEF RemindersInv, NobodyLeft, WorkerLooks
  <1>2. NotYetSent'
    BY DEF RemindersInv, NotYetSent
  <1>3. NobodySkipped'
    <2> SUFFICES ASSUME run["worker"] # NoRun, NEW m \in steady' \ inactive', NEW t \in Crews,
                        NEW k \in Kinds, OwedIn(t, m, k)'
                 PROVE  Told(m, k)' \/ Ahead(run["worker"], t, m, k)
      BY DEF NobodySkipped, Ahead
    <2>1. m \in Members /\ m \in steady \ inactive
      BY DEF RemindersInv, RemindersTypeOK
    <2>2. Horizon[t][k] \in Nat
      BY RemindersAssumption
    <2>3. OwedIn(t, m, k)
      BY <2>1, <2>2, LackingKept DEF OwedIn
    <2>4. QED
      BY <2>1, <2>3 DEF RemindersInv, NobodySkipped
  <1>4. WorkerEnds
    BY DEF WorkerEnds
  <1>5. QED
    BY <1>1, <1>2, <1>3, <1>4 DEF RemindersInv

(* A run that has nobody left of this team goes on to the next one.        *)
LEMMA OnwardFits ==
    ASSUME RemindersTypeOK, NEW r \in RunNames, run[r] \in Run,
           NEW left \in SUBSET (Members \X Kinds), Onward(r, left)
    PROVE  \E x \in Run \cup {NoRun} :
              /\ run' = [run EXCEPT ![r] = x] /\ (x.step = "team" => x.left = {})
              /\ x # NoRun => x.forced = run[r].forced
              /\ x.step \notin {"read", "send"}
              /\ \A t \in Crews, m \in Members, k \in Kinds :
                    t \in run[r].teams \/ (run[r].team = t /\ <<m, k>> \in left)
                        => x # NoRun /\ Ahead(x, t, m, k)
  <1>1. CASE left # {}
    <2> DEFINE x == [run[r] EXCEPT !.step = "look", !.left = left]
    <2>1. /\ x \in Run /\ x.step = "look" /\ x.left = left /\ x.teams = run[r].teams
          /\ x.team = run[r].team /\ x.forced = run[r].forced
      BY DEF Run
    <2>2. run' = [run EXCEPT ![r] = x]
      BY <1>1 DEF Onward, RemindersTypeOK, RunNames
    <2> HIDE DEF x
    <2>3. x # NoRun
      BY <2>1, RunKinds
    <2>4. QED
      BY <2>1, <2>2, <2>3 DEF Ahead
  <1>2. CASE left = {} /\ run[r].teams # {}
    <2> DEFINE x == [run[r] EXCEPT !.step = "team", !.left = {}]
    <2>1. /\ x \in Run /\ x.step = "team" /\ x.left = {} /\ x.teams = run[r].teams
          /\ x.forced = run[r].forced
      BY DEF Run
    <2>2. run' = [run EXCEPT ![r] = x]
      BY <1>2 DEF Onward, RemindersTypeOK, RunNames
    <2> HIDE DEF x
    <2>3. x # NoRun
      BY <2>1, RunKinds
    <2>4. QED
      BY <1>2, <2>1, <2>2, <2>3 DEF Ahead
  <1>3. CASE left = {} /\ run[r].teams = {}
    <2>1. run' = [run EXCEPT ![r] = NoRun]
      BY <1>3 DEF Onward, RemindersTypeOK, RunNames
    <2>2. QED
      BY <1>3, <2>1, RunKinds
  <1>4. QED
    BY <1>1, <1>2, <1>3

LEMMA OpenTeamStep ==
    ASSUME RemindersInv, NEW r \in RunNames, OpenTeam(r)
    PROVE  RemindersInv' /\ WorkerEnds
  <1>1. RemindersTypeOK /\ run[r] \in Run /\ run[r].left = {} /\ run[r].step = "team"
    BY RunFits DEF OpenTeam, RemindersInv, NobodyLeft, RunNames, RunSteps
  <1> DEFINE kinds(t) == {k \in Kinds : Horizon[t][k] > 0}
             rest(t) == run[r].teams \ {t}
             left(t) == (crew[t] \ inactive) \X kinds(t)
  <1>2. PICK t \in run[r].teams :
            \/ /\ run' = [run EXCEPT ![r] =
                     IF left(t) # {}
                     THEN [@ EXCEPT !.step = "look", !.team = t, !.teams = rest(t), !.left = left(t)]
                     ELSE IF rest(t) # {} THEN [@ EXCEPT !.teams = rest(t)] ELSE NoRun]
               /\ UNCHANGED <<upsets, steady>>
            \/ /\ Upset
               /\ run' = [run EXCEPT ![r] =
                     IF rest(t) # {} THEN [@ EXCEPT !.teams = rest(t)] ELSE NoRun]
               /\ steady' = steady \ crew[t]
    BY DEF OpenTeam
  <1>3. t \in Crews /\ rest(t) \subseteq Crews /\ left(t) \subseteq Members \X Kinds
    BY <1>1, RunKinds DEF RemindersTypeOK
  <1>4. \A m \in steady \ inactive, k \in Kinds : OwedIn(t, m, k) => <<m, k>> \in left(t)
    BY <1>1, <1>3, OwedByMeasure DEF RemindersTypeOK
  <1>5. \A m, k, s : OwedIn(s, m, k) /\ Ahead(run[r], s, m, k) => s = t \/ s \in rest(t)
    BY <1>1 DEF Ahead
  <1>6. upsets' \in 0 .. MaxUpsets /\ steady' \subseteq steady
    BY <1>1, <1>2, RemindersAssumption DEF Upset, RemindersTypeOK
  <1>7. UNCHANGED <<thisDay, window, lastRunDate, crew, inactive, day, notices>>
    BY DEF OpenTeam
  <1>8. ASSUME NEW x \in Run \cup {NoRun}, run' = [run EXCEPT ![r] = x],
               x.step = "team" => x.left = {}, x # NoRun => x.forced = run[r].forced,
               x.step \notin {"read", "send"},
               \A m \in steady' \ inactive, s \in Crews, k \in Kinds :
                   OwedIn(s, m, k) /\ Ahead(run[r], s, m, k) => x # NoRun /\ Ahead(x, s, m, k)
        PROVE  RemindersInv' /\ WorkerEnds
    <2>1. notices' \subseteq Notice /\ IsFiniteSet(notices') /\ RemindedOnceADay'
      BY <1>1, <1>7 DEF RemindersInv, RemindersTypeOK, RemindedOnceADay
    <2>2. QED
      BY <1>1, <1>6, <1>7, <1>8, <2>1, RunStep
  <1>9. ASSUME left(t) # {}, UNCHANGED steady,
               run' = [run EXCEPT ![r] = [@ EXCEPT !.step = "look", !.team = t,
                                                   !.teams = rest(t), !.left = left(t)]]
        PROVE  RemindersInv' /\ WorkerEnds
    <2> DEFINE x == [run[r] EXCEPT !.step = "look", !.team = t, !.teams = rest(t), !.left = left(t)]
    <2>1. /\ x \in Run /\ x.step = "look" /\ x.team = t /\ x.teams = rest(t)
          /\ x.left = left(t) /\ x.forced = run[r].forced /\ run' = [run EXCEPT ![r] = x]
      BY <1>1, <1>3, <1>9 DEF Run, RemindersTypeOK, RunNames
    <2> HIDE DEF x, rest, left
    <2>2. x # NoRun
      BY <2>1, RunKinds
    <2>3. \A m \in steady' \ inactive, s \in Crews, k \in Kinds :
             OwedIn(s, m, k) /\ Ahead(run[r], s, m, k) => x # NoRun /\ Ahead(x, s, m, k)
      BY <1>4, <1>5, <1>9, <2>1, <2>2 DEF Ahead
    <2>4. QED
      BY <1>8, <2>1, <2>3
  <1>10. ASSUME rest(t) # {}, run' = [run EXCEPT ![r] = [@ EXCEPT !.teams = rest(t)]],
                \A m \in steady' \ inactive, k \in Kinds : ~OwedIn(t, m, k)
         PROVE  RemindersInv' /\ WorkerEnds
    <2> DEFINE x == [run[r] EXCEPT !.teams = rest(t)]
    <2>1. /\ x \in Run /\ x.step = "team" /\ x.teams = rest(t) /\ x.left = {}
          /\ x.forced = run[r].forced /\ run' = [run EXCEPT ![r] = x]
      BY <1>1, <1>3, <1>10 DEF Run, RemindersTypeOK, RunNames
    <2> HIDE DEF x, rest, left
    <2>2. x # NoRun
      BY <2>1, RunKinds
    <2>3. \A m \in steady' \ inactive, s \in Crews, k \in Kinds :
             OwedIn(s, m, k) /\ Ahead(run[r], s, m, k) => x # NoRun /\ Ahead(x, s, m, k)
      BY <1>5, <1>10, <2>1, <2>2 DEF Ahead
    <2>4. QED
      BY <1>8, <2>1, <2>3
  <1>11. ASSUME rest(t) = {}, run' = [run EXCEPT ![r] = NoRun],
                \A m \in steady' \ inactive, k \in Kinds : ~OwedIn(t, m, k)
         PROVE  RemindersInv' /\ WorkerEnds
    <2>1. \A m \in steady' \ inactive, s \in Crews, k \in Kinds :
             ~(OwedIn(s, m, k) /\ Ahead(run[r], s, m, k))
      BY <1>5, <1>11
    <2>2. QED
      BY <1>8, <1>11, <2>1, RunKinds
  <1>12. CASE /\ run' = [run EXCEPT ![r] =
                     IF left(t) # {}
                     THEN [@ EXCEPT !.step = "look", !.team = t, !.teams = rest(t), !.left = left(t)]
                     ELSE IF rest(t) # {} THEN [@ EXCEPT !.teams = rest(t)] ELSE NoRun]
              /\ UNCHANGED <<upsets, steady>>
    <2>1. CASE left(t) # {}
      BY <1>9, <1>12, <2>1
    <2>2. CASE left(t) = {}
      <3>1. \A m \in steady' \ inactive, k \in Kinds : ~OwedIn(t, m, k)
        BY <1>4, <1>12, <2>2
      <3>2. QED
        BY <1>10, <1>11, <1>12, <2>2, <3>1
    <2>3. QED
      BY <2>1, <2>2
  <1>13. CASE /\ run' = [run EXCEPT ![r] =
                     IF rest(t) # {} THEN [@ EXCEPT !.teams = rest(t)] ELSE NoRun]
              /\ steady' = steady \ crew[t]
    <2>1. \A m \in steady' \ inactive, k \in Kinds : ~OwedIn(t, m, k)
      BY <1>13 DEF OwedIn
    <2>2. QED
      BY <1>10, <1>11, <1>13, <2>1
  <1>14. QED
    BY <1>2, <1>12, <1>13

(* The unchanged notifications keep what a step of a run owes them.        *)
LEMMA NoticesKept ==
    ASSUME RemindersInv, UNCHANGED notices
    PROVE  /\ notices \subseteq notices' /\ notices' \subseteq Notice /\ IsFiniteSet(notices')
           /\ RemindedOnceADay' /\ notices' \ notices = {}
           /\ \A m, k : Told(m, k) /\ UNCHANGED thisDay => Told(m, k)'
  BY DEF RemindersInv, RemindersTypeOK, RemindedOnceADay, Told

LEMMA LookUpStep ==
    ASSUME RemindersInv, NEW r \in RunNames, LookUp(r)
    PROVE  RemindersInv' /\ WorkerEnds
  <1>1. RemindersTypeOK /\ run[r] \in Run /\ run[r].step = "look"
    BY RunFits DEF LookUp, RemindersInv, RunSteps
  <1> DEFINE Reading(p, blind) ==
                [run[r] EXCEPT !.step = "read", !.to = p[1], !.kind = p[2], !.blind = blind,
                               !.left = @ \ {p}]
  <1>2. PICK p \in run[r].left :
            \/ /\ run[r].forced \/ ~HasNotificationToday(p[1], p[2])
               /\ run' = [run EXCEPT ![r] = Reading(p, FALSE)] /\ UNCHANGED upsets
            \/ /\ ~run[r].forced /\ HasNotificationToday(p[1], p[2])
               /\ Onward(r, run[r].left \ {p}) /\ UNCHANGED upsets
            \/ ~run[r].forced /\ Upset /\ run' = [run EXCEPT ![r] = Reading(p, TRUE)]
    <2>1. ASSUME NEW p \in run[r].left, NEW blind \in BOOLEAN
          PROVE  [run EXCEPT ![r].step = "read", ![r].to = p[1], ![r].kind = p[2],
                             ![r].blind = blind, ![r].left = @ \ {p}]
                    = [run EXCEPT ![r] = Reading(p, blind)]
      BY <1>1 DEF RemindersTypeOK, RunNames, Run
    <2> HIDE DEF Reading
    <2>2. QED
      BY <2>1 DEF LookUp
  <1>3. p[1] \in Members /\ p[2] \in Kinds /\ p = <<p[1], p[2]>> /\ run[r].left \subseteq Members \X Kinds
    BY <1>1, RunKinds
  <1>4. upsets' \in 0 .. MaxUpsets
    BY <1>1, <1>2, RemindersAssumption DEF Upset, RemindersTypeOK
  <1>5. UNCHANGED <<thisDay, window, lastRunDate, crew, inactive, day, notices, steady>>
    BY DEF LookUp
  <1>6. ASSUME NEW blind \in BOOLEAN, run' = [run EXCEPT ![r] = Reading(p, blind)],
               r = "worker" /\ ~blind => ~HasNotificationToday(p[1], p[2])
        PROVE  RemindersInv' /\ WorkerEnds
    <2> DEFINE x == Reading(p, blind)
    <2>1. /\ x \in Run /\ x.step = "read" /\ x.to = p[1] /\ x.kind = p[2] /\ x.blind = blind
          /\ x.left = run[r].left \ {p} /\ x.teams = run[r].teams /\ x.team = run[r].team
          /\ x.forced = run[r].forced /\ run' = [run EXCEPT ![r] = x]
      BY <1>1, <1>3, <1>6 DEF Run
    <2> HIDE DEF x
    <2>2. x # NoRun
      BY <2>1, RunKinds
    <2>3. \A m \in steady' \ inactive, t \in Crews, k \in Kinds :
             OwedIn(t, m, k) /\ Ahead(run[r], t, m, k) => x # NoRun /\ Ahead(x, t, m, k)
      BY <1>1, <1>3, <2>1, <2>2 DEF Ahead
    <2>4. r = "worker" /\ ~x.blind =>
             \A n \in notices' : n.by = "worker" /\ n.to = x.to /\ n.kind = x.kind
                                    => n.date # thisDay
      BY <1>5, <1>6, <2>1 DEF HasNotificationToday
    <2>5. QED
      BY <1>1, <1>4, <1>5, <2>1, <2>3, <2>4, NoticesKept, RunStep
  <1>7. CASE Onward(r, run[r].left \ {p}) /\ HasNotificationToday(p[1], p[2])
    <2>1. PICK x \in Run \cup {NoRun} :
              /\ run' = [run EXCEPT ![r] = x] /\ (x.step = "team" => x.left = {})
              /\ x # NoRun => x.forced = run[r].forced
              /\ x.step \notin {"read", "send"}
              /\ \A t \in Crews, m \in Members, k \in Kinds :
                    t \in run[r].teams \/ (run[r].team = t /\ <<m, k>> \in run[r].left \ {p})
                        => x # NoRun /\ Ahead(x, t, m, k)
      BY <1>1, <1>3, <1>7, OnwardFits
    <2>2. Told(p[1], p[2]) /\ \A m, k : Told(m, k) => Told(m, k)'
      BY <1>5, <1>7, NoticesKept DEF Told, HasNotificationToday
    <2>3. \A m \in steady' \ inactive, t \in Crews, k \in Kinds :
             OwedIn(t, m, k) /\ Ahead(run[r], t, m, k)
                 => Told(m, k)' \/ (x # NoRun /\ Ahead(x, t, m, k))
      <3> SUFFICES ASSUME NEW m \in steady' \ inactive, NEW t \in Crews, NEW k \in Kinds,
                          Ahead(run[r], t, m, k), ~Told(m, k)'
                   PROVE  x # NoRun /\ Ahead(x, t, m, k)
        OBVIOUS
      <3>1. m \in Members /\ <<m, k>> # p
        BY <1>3, <1>5, <2>2 DEF RemindersInv, RemindersTypeOK
      <3>2. t \in run[r].teams \/ (run[r].team = t /\ <<m, k>> \in run[r].left \ {p})
        BY <1>1, <3>1 DEF Ahead
      <3>3. QED
        BY <2>1, <3>1, <3>2
    <2>4. QED
      BY <1>1, <1>4, <1>5, <2>1, <2>3, NoticesKept, RunStep
  <1> HIDE DEF Reading
  <1>8. run[r].forced => r = "forced"
    BY <1>1, RunKinds DEF RemindersInv, WorkerLooks, RunNames
  <1>9. QED
    BY <1>2, <1>6, <1>7, <1>8 DEF RunNames

LEMMA CheckDaysStep ==
    ASSUME RemindersInv, NEW r \in RunNames, CheckDays(r)
    PROVE  RemindersInv' /\ WorkerEnds
  <1>1. RemindersTypeOK /\ run[r] \in Run /\ run[r].step = "read"
    BY RunFits DEF CheckDays, RemindersInv, RunSteps
  <1>2. PICK m \in Members : m = run[r].to
    BY <1>1, RunKinds
  <1>3. PICK k \in Kinds : k = run[r].kind
    BY <1>1, RunKinds
  <1>4. PICK t \in Crews : t = run[r].team
    BY <1>1, RunKinds
  <1> DEFINE lacks == Lacking(m, k, Horizon[t][k], Vacations[m])
  <1>5. \/ /\ run' = [run EXCEPT ![r].step = "send"] \/ (Onward(r, run[r].left) /\ ~lacks)
           /\ UNCHANGED <<upsets, steady>>
        \/ /\ Upset /\ steady' = steady \ {m}
           /\ run' = [run EXCEPT ![r].step = "send"] \/ Onward(r, run[r].left)
    BY <1>2, <1>3, <1>4 DEF CheckDays
  <1>6. upsets' \in 0 .. MaxUpsets /\ steady' \subseteq steady
    BY <1>1, <1>5, RemindersAssumption DEF Upset, RemindersTypeOK
  <1>7. UNCHANGED <<thisDay, window, lastRunDate, crew, inactive, day, notices>>
    BY DEF CheckDays
  <1>8. CASE run' = [run EXCEPT ![r].step = "send"]
    <2> DEFINE x == [run[r] EXCEPT !.step = "send"]
    <2>1. /\ x \in Run /\ x.step = "send" /\ x.to = run[r].to /\ x.kind = run[r].kind
          /\ x.blind = run[r].blind /\ x.left = run[r].left /\ x.teams = run[r].teams
          /\ x.team = run[r].team /\ x.forced = run[r].forced
      BY <1>1 DEF Run
    <2>2. run' = [run EXCEPT ![r] = x]
      BY <1>1, <1>8 DEF RemindersTypeOK, RunNames, Run
    <2> HIDE DEF x
    <2>3. x # NoRun
      BY <2>1, RunKinds
    <2>4. \A o \in steady' \ inactive, u \in Crews, j \in Kinds :
             OwedIn(u, o, j) /\ Ahead(run[r], u, o, j) => x # NoRun /\ Ahead(x, u, o, j)
      BY <1>1, <2>1, <2>3 DEF Ahead
    <2>5. r = "worker" /\ ~x.blind =>
             \A n \in notices' : n.by = "worker" /\ n.to = x.to /\ n.kind = x.kind
                                    => n.date # thisDay
      BY <1>1, <1>7, <2>1 DEF RemindersInv, NotYetSent
    <2>6. QED
      BY <1>1, <1>6, <1>7, <2>1, <2>2, <2>4, <2>5, NoticesKept, RunStep
  <1>9. ASSUME Onward(r, run[r].left), m \notin steady' \/ ~lacks
        PROVE  RemindersInv' /\ WorkerEnds
    <2>1. PICK x \in Run \cup {NoRun} :
              /\ run' = [run EXCEPT ![r] = x] /\ (x.step = "team" => x.left = {})
              /\ x # NoRun => x.forced = run[r].forced
              /\ x.step \notin {"read", "send"}
              /\ \A u \in Crews, o \in Members, j \in Kinds :
                    u \in run[r].teams \/ (run[r].team = u /\ <<o, j>> \in run[r].left)
                        => x # NoRun /\ Ahead(x, u, o, j)
      <3>1. run[r].left \in SUBSET (Members \X Kinds)
        BY <1>1, RunKinds
      <3>2. QED
        BY <1>1, <1>9, <3>1, OnwardFits
    <2>2. \A o \in steady' \ inactive, u \in Crews, j \in Kinds :
             OwedIn(u, o, j) /\ Ahead(run[r], u, o, j) => x # NoRun /\ Ahead(x, u, o, j)
      <3> SUFFICES ASSUME NEW o \in steady' \ inactive, NEW u \in Crews, NEW j \in Kinds,
                          OwedIn(u, o, j), Ahead(run[r], u, o, j)
                   PROVE  x # NoRun /\ Ahead(x, u, o, j)
        OBVIOUS
      <3>1. o \in Members
        BY <1>6 DEF RemindersInv, RemindersTypeOK
      <3>2. ~(u = t /\ o = m /\ j = k)
        BY <1>9 DEF OwedIn
      <3>3. u \in run[r].teams \/ (run[r].team = u /\ <<o, j>> \in run[r].left)
        BY <1>2, <1>3, <1>4, <3>2 DEF Ahead
      <3>4. QED
        BY <2>1, <3>1, <3>3
    <2>3. QED
      BY <1>1, <1>6, <1>7, <2>1, <2>2, NoticesKept, RunStep
  <1>10. QED
    BY <1>5, <1>8, <1>9

(* There is an identifier left for one more notification.                  *)
LEMMA NewIdFits ==
    ASSUME RemindersInv, Cardinality(notices) < MaxNotices
    PROVE  NewId \in 1 .. MaxNotices
  <1>1. \E i \in 1 .. MaxNotices : \A n \in notices : n.id # i
    <2> SUFFICES ASSUME \A i \in 1 .. MaxNotices : \E n \in notices : n.id = i PROVE FALSE
      OBVIOUS
    <2> DEFINE f == [i \in 1 .. MaxNotices |-> CHOOSE n \in notices : n.id = i]
    <2>1. f \in [1 .. MaxNotices -> notices] /\ \A i \in 1 .. MaxNotices : f[i].id = i
      OBVIOUS
    <2>2. /\ IsFiniteSet(1 .. MaxNotices) /\ IsFiniteSet(notices)
          /\ Cardinality(notices) < Cardinality(1 .. MaxNotices)
      <3>1. MaxNotices \in Nat /\ MaxNotices \in Int /\ 1 \in Int
        BY RemindersAssumption
      <3>2. Cardinality(1 .. MaxNotices) = IF 1 > MaxNotices THEN 0 ELSE MaxNotices - 1 + 1
        BY <3>1, FS_Interval
      <3>3. IsFiniteSet(1 .. MaxNotices) /\ IsFiniteSet(notices)
        BY <3>1, FS_Interval DEF RemindersInv
      <3>4. Cardinality(notices) \in Nat
        BY <3>3, FS_CardinalityType
      <3>5. QED
        BY <3>1, <3>2, <3>3, <3>4
    <2> HIDE DEF f
    <2>3. \E i, j \in 1 .. MaxNotices : i # j /\ f[i] = f[j]
      BY <2>1, <2>2, FS_PigeonHole
    <2>4. QED
      BY <2>1, <2>3
  <1>2. QED
    BY <1>1 DEF NewId

LEMMA SendStep ==
    ASSUME RemindersInv, NEW r \in RunNames, Send(r)
    PROVE  RemindersInv' /\ WorkerEnds
  <1>1. RemindersTypeOK /\ run[r] \in Run /\ run[r].step = "send"
    BY RunFits DEF Send, RemindersInv, RunSteps
  <1>2. PICK m \in Members : m = run[r].to
    BY <1>1, RunKinds
  <1>3. PICK k \in Kinds : k = run[r].kind
    BY <1>1, RunKinds
  <1> DEFINE new == [id |-> NewId, to |-> run[r].to, kind |-> run[r].kind, date |-> thisDay,
                     by |-> r, blind |-> run[r].blind, acknowledged |-> FALSE]
  <1>4. UNCHANGED <<thisDay, window, lastRunDate, crew, inactive, day>> /\ Onward(r, run[r].left)
    BY DEF Send
  <1>5. PICK x \in Run \cup {NoRun} :
            /\ run' = [run EXCEPT ![r] = x] /\ (x.step = "team" => x.left = {})
            /\ x # NoRun => x.forced = run[r].forced
            /\ x.step \notin {"read", "send"}
            /\ \A u \in Crews, o \in Members, j \in Kinds :
                  u \in run[r].teams \/ (run[r].team = u /\ <<o, j>> \in run[r].left)
                      => x # NoRun /\ Ahead(x, u, o, j)
    <2>1. run[r].left \in SUBSET (Members \X Kinds)
      BY <1>1, RunKinds
    <2>2. QED
      BY <1>1, <1>4, <2>1, OnwardFits
  <1>6. ASSUME steady' \subseteq steady, m \in steady' => Told(m, k)',
               \A o, j : Told(o, j) => Told(o, j)'
        PROVE  \A o \in steady' \ inactive, u \in Crews, j \in Kinds :
                  OwedIn(u, o, j) /\ Ahead(run[r], u, o, j)
                      => Told(o, j)' \/ (x # NoRun /\ Ahead(x, u, o, j))
    <2> SUFFICES ASSUME NEW o \in steady' \ inactive, NEW u \in Crews, NEW j \in Kinds,
                        Ahead(run[r], u, o, j), ~Told(o, j)'
                 PROVE  x # NoRun /\ Ahead(x, u, o, j)
      OBVIOUS
    <2>1. o \in Members
      BY <1>6 DEF RemindersInv, RemindersTypeOK
    <2>2. ~(o = m /\ j = k)
      BY <1>6
    <2>3. u \in run[r].teams \/ (run[r].team = u /\ <<o, j>> \in run[r].left)
      BY <1>2, <1>3, <2>2 DEF Ahead
    <2>4. QED
      BY <1>5, <2>1, <2>3
  <1>7. CASE /\ Cardinality(notices) < MaxNotices
             /\ notices' = notices \cup {new} /\ UNCHANGED <<upsets, steady>>
    <2>1. /\ new \in Notice /\ new.to = m /\ new.kind = k /\ new.date = thisDay /\ new.by = r
          /\ new.blind = run[r].blind
      BY <1>1, <1>2, <1>3, <1>7, NewIdFits, RunKinds DEF Notice, RemindersTypeOK, RunNames
    <2> HIDE DEF new
    <2>2. notices' \subseteq Notice /\ IsFiniteSet(notices')
      BY <1>7, <2>1, FS_AddElement DEF RemindersInv, RemindersTypeOK
    <2>3. RemindedOnceADay'
      <3> SUFFICES ASSUME NEW n \in notices', NEW o \in notices', n # o, n.by = "worker",
                          o.by = "worker", n.to = o.to, n.kind = o.kind, n.date = o.date
                   PROVE  n.blind \/ o.blind
        BY DEF RemindedOnceADay
      <3>1. CASE n \in notices /\ o \in notices
        BY <3>1 DEF RemindersInv, RemindedOnceADay
      <3>2. ASSUME new.by = "worker", NEW p \in notices, p.by = "worker", p.to = new.to,
                   p.kind = new.kind, p.date = new.date
            PROVE  new.blind
        BY <1>1, <1>2, <1>3, <2>1, <3>2 DEF RemindersInv, NotYetSent
      <3>3. QED
        BY <1>7, <3>1, <3>2
    <2>4. Told(m, k)' /\ \A o, j : Told(o, j) => Told(o, j)'
      BY <1>4, <1>7, <2>1 DEF Told
    <2>5. upsets' \in 0 .. MaxUpsets /\ steady' \subseteq steady
      BY <1>1, <1>7 DEF RemindersTypeOK
    <2>6. /\ notices \subseteq notices' /\ \A n \in notices' \ notices : n.by = r
      BY <1>7, <2>1
    <2>7. QED
      BY <1>1, <1>4, <1>5, <1>6, <2>2, <2>3, <2>4, <2>5, <2>6, RunStep
  <1>8. CASE Upset /\ steady' = steady \ {run[r].to} /\ UNCHANGED notices
    <2>1. upsets' \in 0 .. MaxUpsets /\ steady' \subseteq steady /\ m \notin steady'
      BY <1>1, <1>2, <1>8, RemindersAssumption DEF Upset, RemindersTypeOK
    <2>2. \A o, j : Told(o, j) => Told(o, j)'
      BY <1>4, <1>8 DEF Told
    <2>3. QED
      BY <1>1, <1>4, <1>5, <1>6, <1>8, <2>1, <2>2, NoticesKept, RunStep
  <1>9. QED
    BY <1>7, <1>8 DEF Send

(* A run begins with the teams it is to look at.                           *)
LEMMA BeginFits ==
    ASSUME RemindersTypeOK, NEW r \in RunNames, NEW teams \in SUBSET Crews, teams # {},
           BeginRun(r, teams)
    PROVE  \E x \in Run : /\ run' = [run EXCEPT ![r] = x] /\ x.step = "team" /\ x.left = {}
                          /\ x.teams = teams /\ (x.forced <=> r = "forced")
  <1> DEFINE x == [step |-> "team", forced |-> r = "forced", teams |-> teams, left |-> {},
                   team |-> CHOOSE t \in Crews : TRUE, to |-> CHOOSE m \in Members : TRUE,
                   kind |-> "presence", blind |-> FALSE]
  <1>1. (CHOOSE t \in Crews : TRUE) \in Crews /\ (CHOOSE m \in Members : TRUE) \in Members
    BY RemindersAssumption
  <1>2. x \in Run
    BY <1>1 DEF Run, Kinds
  <1>3. QED
    BY <1>2 DEF BeginRun

LEMMA WorkerTickStep ==
    ASSUME RemindersInv, WorkerTick
    PROVE  RemindersInv' /\ WorkerEnds
  <1>1. RemindersTypeOK /\ run["worker"] = NoRun /\ "worker" \in RunNames
    BY DEF WorkerTick, RemindersInv, RunNames
  <1>2. UNCHANGED <<thisDay, window, crew, inactive, day, notices>> /\ lastRunDate' = thisDay
    BY DEF WorkerTick
  <1>3. IsFiniteSet(notices') /\ RemindedOnceADay'
    BY <1>2, NoticesKept DEF RemindersInv
  <1>4. CASE BeginRun("worker", Crews) /\ steady' = Members /\ UNCHANGED upsets
    <2>1. PICK x \in Run : /\ run' = [run EXCEPT !["worker"] = x] /\ x.step = "team" /\ x.left = {}
                           /\ x.teams = Crews /\ ~x.forced
      <3>1. Crews \in SUBSET Crews /\ Crews # {}
        BY RemindersAssumption
      <3>2. PICK x \in Run : /\ run' = [run EXCEPT !["worker"] = x] /\ x.step = "team"
                             /\ x.left = {} /\ x.teams = Crews
                             /\ (x.forced <=> "worker" = "forced")
        BY <1>1, <1>4, <3>1, BeginFits
      <3>3. QED
        BY <3>2
    <2>2. run'["worker"] = x /\ run'["forced"] = run["forced"] /\ x # NoRun
      BY <1>1, <2>1, RunKinds DEF RemindersTypeOK
    <2>3. RemindersTypeOK'
      BY <1>1, <1>2, <1>4, <2>1 DEF RemindersTypeOK
    <2>4. NobodyLeft' /\ WorkerLooks' /\ NotYetSent'
      BY <2>1, <2>2 DEF RemindersInv, NobodyLeft, WorkerLooks, NotYetSent
    <2>5. NobodySkipped'
      BY <2>1, <2>2 DEF NobodySkipped, Ahead
    <2>6. QED
      BY <1>1, <1>3, <2>3, <2>4, <2>5 DEF RemindersInv, WorkerEnds
  <1>5. CASE Upset /\ UNCHANGED <<run, steady>>
    <2>1. RemindersTypeOK'
      BY <1>1, <1>2, <1>5, RemindersAssumption DEF RemindersTypeOK, Upset
    <2>2. \A m, k : Told(m, k) => Told(m, k)'
      BY <1>2 DEF Told
    <2>3. QED
      BY <1>2, <1>3, <1>5, <2>1, <2>2, AsideStep
  <1>6. QED
    BY <1>4, <1>5 DEF WorkerTick

LEMMA TriggerStep ==
    ASSUME RemindersInv, NEW t \in Crews, TriggerTeamReminders(t)
    PROVE  RemindersInv' /\ WorkerEnds
  <1>1. RemindersTypeOK /\ run["forced"] = NoRun /\ "forced" \in RunNames
    BY DEF TriggerTeamReminders, RemindersInv, RunNames
  <1>2. UNCHANGED <<thisDay, window, lastRunDate, crew, inactive, day, notices, upsets, steady>>
    BY DEF TriggerTeamReminders
  <1>3. PICK x \in Run : /\ run' = [run EXCEPT !["forced"] = x] /\ x.step = "team" /\ x.left = {}
                         /\ x.teams = {t} /\ x.forced
    BY <1>1, BeginFits DEF TriggerTeamReminders
  <1>4. run'["worker"] = run["worker"] /\ run'["forced"] = x
    BY <1>1, <1>3 DEF RemindersTypeOK
  <1>5. RemindersTypeOK'
    BY <1>1, <1>2, <1>3 DEF RemindersTypeOK
  <1>6. IsFiniteSet(notices') /\ RemindedOnceADay'
    BY <1>2, NoticesKept DEF RemindersInv
  <1>7. NobodyLeft' /\ WorkerLooks' /\ NotYetSent'
    BY <1>2, <1>3, <1>4 DEF RemindersInv, NobodyLeft, WorkerLooks, NotYetSent
  <1>8. NobodySkipped'
    <2> SUFFICES ASSUME run["worker"] # NoRun, NEW m \in steady \ inactive, NEW u \in Crews,
                        NEW k \in Kinds, OwedIn(u, m, k)'
                 PROVE  Told(m, k)' \/ Ahead(run["worker"], u, m, k)
      BY <1>2, <1>4 DEF NobodySkipped, Ahead
    <2>1. m \in Members /\ Horizon[u][k] \in Nat
      BY <1>1, RemindersAssumption DEF RemindersTypeOK
    <2>2. OwedIn(u, m, k)
      BY <1>2, <2>1, LackingKept DEF OwedIn
    <2>3. Told(m, k) => Told(m, k)'
      BY <1>2 DEF Told
    <2>4. QED
      BY <2>2, <2>3 DEF RemindersInv, NobodySkipped
  <1>9. QED
    BY <1>4, <1>5, <1>6, <1>7, <1>8 DEF RemindersInv, WorkerEnds

LEMMA ClockStep ==
    ASSUME RemindersInv, Clock
    PROVE  RemindersInv' /\ WorkerEnds
  <1>1. RemindersTypeOK
    BY DEF RemindersInv
  <1>2. UNCHANGED <<lastRunDate, crew, inactive, day, notices, run, upsets, steady>>
    BY DEF Clock
  <1>3. IsFiniteSet(notices') /\ RemindedOnceADay'
    BY <1>2, NoticesKept DEF RemindersInv
  <1>4. CASE window' = TRUE /\ UNCHANGED thisDay
    <2>1. RemindersTypeOK'
      BY <1>1, <1>2, <1>4 DEF RemindersTypeOK
    <2>2. \A m, k : Told(m, k) => Told(m, k)'
      BY <1>2, <1>4 DEF Told
    <2>3. QED
      BY <1>2, <1>3, <1>4, <2>1, <2>2, AsideStep
  <1>5. CASE /\ \A r \in DOMAIN run : run[r] = NoRun
             /\ thisDay < LastDay /\ thisDay' = thisDay + 1 /\ window' = FALSE
    <2>1. thisDay' \in ReminderDates
      BY <1>1, <1>5, RemindersAssumption DEF RemindersTypeOK, ReminderDates
    <2>2. RemindersTypeOK'
      BY <1>1, <1>2, <1>5, <2>1 DEF RemindersTypeOK
    <2>3. \A r \in RunNames : run'[r] = NoRun /\ run'[r].step = "idle"
      BY <1>1, <1>2, <1>5, RunDomain, RunKinds
    <2>4. NobodyLeft' /\ WorkerLooks' /\ NotYetSent' /\ NobodySkipped'
      BY <2>3 DEF NobodyLeft, WorkerLooks, NotYetSent, NobodySkipped, RunNames
    <2>5. QED
      BY <1>2, <1>3, <2>2, <2>4 DEF RemindersInv, WorkerEnds
  <1>6. QED
    BY <1>4, <1>5 DEF Clock

LEMMA EditStep ==
    ASSUME RemindersInv, NEW m \in Members,
           \/ \E d \in ReminderDates, s \in DayState : EditDay(m, d, s)
           \/ SetDisabled(m)
           \/ \E t \in Crews : EditCrew(m, t)
    PROVE  RemindersInv' /\ WorkerEnds
  <1>1. RemindersTypeOK /\ UNCHANGED <<thisDay, window, lastRunDate, notices, run>>
        /\ Upset /\ steady' = steady \ {m}
    BY DEF EditDay, SetDisabled, EditCrew, RemindersInv
  <1>2. upsets' \in 0 .. MaxUpsets /\ steady' \subseteq Members
    BY <1>1, RemindersAssumption DEF RemindersTypeOK, Upset
  <1>3. \A o, k : Told(o, k) => Told(o, k)'
    BY <1>1 DEF Told
  <1>4. IsFiniteSet(notices') /\ RemindedOnceADay'
    BY <1>1, NoticesKept DEF RemindersInv
  <1>5. CASE \E d \in ReminderDates, s \in DayState : EditDay(m, d, s)
    <2>1. PICK d \in ReminderDates, s \in DayState : EditDay(m, d, s)
      BY <1>5
    <2>2. day' = [day EXCEPT ![m][d] = s] /\ UNCHANGED <<crew, inactive>>
      BY <2>1 DEF EditDay
    <2>3. day' \in [Members -> [ReminderDates -> DayState]]
          /\ \A o \in Members : o # m => day'[o] = day[o]
      BY <1>1, <2>2 DEF RemindersTypeOK
    <2>4. RemindersTypeOK'
      BY <1>1, <1>2, <2>2, <2>3 DEF RemindersTypeOK
    <2>5. \A o \in steady' : day'[o] = day[o]
      BY <1>1, <1>2, <2>3
    <2>6. QED
      BY <1>1, <1>3, <1>4, <2>2, <2>4, <2>5, AsideStep
  <1>6. CASE SetDisabled(m)
    <2>1. UNCHANGED <<crew, day>>
          /\ inactive' = IF m \in inactive THEN inactive \ {m} ELSE inactive \cup {m}
      BY <1>6 DEF SetDisabled
    <2>2. RemindersTypeOK'
      BY <1>1, <1>2, <2>1 DEF RemindersTypeOK
    <2>3. QED
      BY <1>1, <1>3, <1>4, <2>1, <2>2, AsideStep
  <1>7. CASE \E t \in Crews : EditCrew(m, t)
    <2>1. PICK t \in Crews : EditCrew(m, t)
      BY <1>7
    <2>2. UNCHANGED <<inactive, day>>
          /\ crew' = [crew EXCEPT ![t] = IF m \in @ THEN @ \ {m} ELSE @ \cup {m}]
      BY <2>1 DEF EditCrew
    <2>3. crew' \in [Crews -> SUBSET Members]
          /\ \A o, u : o # m /\ u \in Crews => (o \in crew'[u] <=> o \in crew[u])
      BY <1>1, <2>2 DEF RemindersTypeOK
    <2>4. RemindersTypeOK'
      BY <1>1, <1>2, <2>2, <2>3 DEF RemindersTypeOK
    <2>5. \A o \in steady' : \A u \in Crews : o \in crew'[u] => o \in crew[u]
      BY <1>1, <2>3
    <2>6. QED
      BY <1>1, <1>3, <1>4, <2>2, <2>4, <2>5, AsideStep
  <1>8. QED
    BY <1>5, <1>6, <1>7

LEMMA AcknowledgeStep ==
    ASSUME RemindersInv, NEW n \in notices, AcknowledgeNotification(n)
    PROVE  RemindersInv' /\ WorkerEnds
  <1> DEFINE seen == [n EXCEPT !.acknowledged = TRUE]
  <1>1. /\ UNCHANGED <<thisDay, window, lastRunDate, crew, inactive, day, run, upsets, steady>>
        /\ notices' = (notices \ {n}) \cup {seen} /\ n \in Notice
    BY DEF AcknowledgeNotification, RemindersInv, RemindersTypeOK
  <1>2. /\ seen \in Notice /\ seen.to = n.to /\ seen.kind = n.kind /\ seen.date = n.date
        /\ seen.by = n.by /\ seen.blind = n.blind
    BY <1>1 DEF Notice
  <1> HIDE DEF seen
  <1>3. RemindersTypeOK'
    BY <1>1, <1>2 DEF RemindersInv, RemindersTypeOK
  <1>4. IsFiniteSet(notices')
    <2>1. IsFiniteSet(notices \ {n})
      BY FS_RemoveElement DEF RemindersInv
    <2>2. QED
      BY <1>1, <2>1, FS_AddElement
  <1>5. RemindedOnceADay'
    <2> SUFFICES ASSUME NEW o \in notices', NEW p \in notices', o # p, o.by = "worker",
                        p.by = "worker", o.to = p.to, o.kind = p.kind, o.date = p.date
                 PROVE  o.blind \/ p.blind
      BY DEF RemindedOnceADay
    <2>1. \/ o \in notices \ {n} /\ p \in notices \ {n}
          \/ o \in notices \ {n} /\ p = seen
          \/ o = seen /\ p \in notices \ {n}
      BY <1>1
    <2>2. \A a, b \in notices : /\ a # b /\ a.by = "worker" /\ b.by = "worker"
                                /\ a.to = b.to /\ a.kind = b.kind /\ a.date = b.date
                                => a.blind \/ b.blind
      BY DEF RemindersInv, RemindedOnceADay
    <2>3. QED
      BY <1>2, <2>1, <2>2
  <1>6. \A m, k : Told(m, k) => Told(m, k)'
    BY <1>1, <1>2 DEF Told
  <1>7. \A o \in notices' : \E p \in notices : /\ p.by = o.by /\ p.to = o.to
                                               /\ p.kind = o.kind /\ p.date = o.date
    BY <1>1, <1>2
  <1>8. QED
    BY <1>1, <1>3, <1>4, <1>5, <1>6, <1>7, AsideStep

LEMMA DeleteStep ==
    ASSUME RemindersInv, NEW n \in notices, AdminDeleteNotification(n)
    PROVE  RemindersInv' /\ WorkerEnds
  <1>1. /\ UNCHANGED <<thisDay, window, lastRunDate, crew, inactive, day, run>> /\ Upset
        /\ notices' = notices \ {n} /\ steady' = steady \ {n.to}
    BY DEF AdminDeleteNotification
  <1>2. RemindersTypeOK'
    BY <1>1, RemindersAssumption DEF RemindersInv, RemindersTypeOK, Upset
  <1>3. IsFiniteSet(notices') /\ RemindedOnceADay'
    BY <1>1, FS_RemoveElement DEF RemindersInv, RemindedOnceADay
  <1>4. \A m \in steady', k \in Kinds : Told(m, k) => Told(m, k)'
    BY <1>1 DEF Told
  <1>5. QED
    BY <1>1, <1>2, <1>3, <1>4, AsideStep

LEMMA AdminSendStep ==
    ASSUME RemindersInv, NEW t \in Crews, NEW kind \in Kinds \cup {"info"},
           AdminSendNotification(t, kind)
    PROVE  RemindersInv' /\ WorkerEnds
  <1> DEFINE to == crew[t] \ inactive
             new(ids, m) == [id |-> ids[m], to |-> m, kind |-> kind, date |-> thisDay,
                             by |-> "admin", blind |-> FALSE, acknowledged |-> FALSE]
  <1>1. PICK ids \in [to -> 1 .. MaxNotices] :
            /\ \A m, o \in to : m # o => ids[m] # ids[o]
            /\ notices' = notices \cup {new(ids, m) : m \in to}
    BY DEF AdminSendNotification
  <1>2. UNCHANGED <<thisDay, window, lastRunDate, crew, inactive, day, run, steady>> /\ Upset
    BY DEF AdminSendNotification
  <1>3. RemindersTypeOK /\ to \subseteq Members
    BY DEF RemindersInv, RemindersTypeOK
  <1> HIDE DEF to
  <1>4. \A m \in to : new(ids, m) \in Notice /\ new(ids, m).by = "admin"
    BY <1>1, <1>3 DEF Notice, RemindersTypeOK
  <1> DEFINE sent == {new(ids, m) : m \in to}
  <1>5. IsFiniteSet(sent)
    <2>1. IsFiniteSet(1 .. MaxNotices)
      BY FS_Interval, RemindersAssumption
    <2>2. IsFiniteSet(to)
      <3>1. ids \in Injection(to, 1 .. MaxNotices)
        BY <1>1 DEF Injection, IsInjective
      <3>2. QED
        BY <2>1, <3>1, FS_Injection
    <2> DEFINE f == [m \in to |-> new(ids, m)]
    <2>3. f \in Surjection(to, sent)
      BY DEF Surjection
    <2>4. QED
      BY <2>2, <2>3, FS_Surjection
  <1>6. \A n \in sent : n \in Notice /\ n.by = "admin"
    BY <1>4
  <1>7. notices' = notices \cup sent
    BY <1>1
  <1> HIDE DEF new, sent
  <1>8. RemindersTypeOK'
    BY <1>2, <1>3, <1>6, <1>7, RemindersAssumption DEF RemindersTypeOK, Upset
  <1>9. IsFiniteSet(notices')
    BY <1>5, <1>7, FS_Union DEF RemindersInv
  <1>10. \A n \in notices' : n.by = "worker" => n \in notices
    BY <1>6, <1>7
  <1>11. RemindedOnceADay'
    BY <1>10 DEF RemindersInv, RemindedOnceADay
  <1>12. \A m, k : Told(m, k) => Told(m, k)'
    BY <1>2, <1>7 DEF Told
  <1>13. QED
    BY <1>2, <1>8, <1>9, <1>10, <1>11, <1>12, AsideStep

LEMMA RestartStep ==
    ASSUME RemindersInv, RestartReminders
    PROVE  RemindersInv' /\ WorkerEnds
  <1>1. /\ UNCHANGED <<thisDay, window, crew, inactive, day, notices>> /\ Upset
        /\ lastRunDate' = 0 /\ run' = [r \in RunNames |-> NoRun] /\ steady' = {}
    BY RunDomain DEF RestartReminders, RemindersInv
  <1>2. RemindersTypeOK'
    BY <1>1, RemindersAssumption DEF RemindersInv, RemindersTypeOK, Upset, RunNames
  <1>3. IsFiniteSet(notices') /\ RemindedOnceADay'
    BY <1>1, NoticesKept DEF RemindersInv
  <1>4. \A r \in RunNames : run'[r] = NoRun /\ run'[r].step = "idle"
    BY <1>1, RunKinds
  <1>5. NobodyLeft' /\ WorkerLooks' /\ NotYetSent' /\ NobodySkipped'
    BY <1>4 DEF NobodyLeft, WorkerLooks, NotYetSent, NobodySkipped, RunNames
  <1>6. WorkerEnds
    BY <1>1 DEF WorkerEnds
  <1>7. QED
    BY <1>2, <1>3, <1>5, <1>6 DEF RemindersInv

LEMMA ReminderStands ==
    ASSUME RemindersInv, UNCHANGED remindersVars
    PROVE  RemindersInv'
  <1>1. RemindersTypeOK'
    BY DEF RemindersInv, RemindersTypeOK, remindersVars
  <1>2. \A m, k : Told(m, k) => Told(m, k)'
    BY DEF Told, remindersVars
  <1>3. IsFiniteSet(notices') /\ RemindedOnceADay'
    BY NoticesKept DEF RemindersInv, remindersVars
  <1>4. QED
    BY <1>1, <1>2, <1>3, AsideStep DEF remindersVars

LEMMA ReminderStep ==
    ASSUME RemindersInv, RemindersNext
    PROVE  RemindersInv' /\ WorkerEnds
  <1>1. DOMAIN run = RunNames
    BY RunDomain DEF RemindersInv
  <1>2. CASE WorkerTick
    BY <1>2, WorkerTickStep
  <1>3. CASE \E t \in Crews : TriggerTeamReminders(t)
    BY <1>3, TriggerStep
  <1>4. CASE \E r \in RunNames : OpenTeam(r) \/ LookUp(r) \/ CheckDays(r) \/ Send(r)
    BY <1>4, OpenTeamStep, LookUpStep, CheckDaysStep, SendStep
  <1>5. CASE Clock
    BY <1>5, ClockStep
  <1>6. CASE \/ \E m \in Members : \E d \in ReminderDates, s \in DayState : EditDay(m, d, s)
             \/ \E m \in Members : SetDisabled(m) \/ \E t \in Crews : EditCrew(m, t)
    BY <1>6, EditStep
  <1>7. CASE \E n \in notices : AcknowledgeNotification(n) \/ AdminDeleteNotification(n)
    BY <1>7, AcknowledgeStep, DeleteStep
  <1>8. CASE \E t \in Crews, k \in Kinds \cup {"info"} : AdminSendNotification(t, k)
    BY <1>8, AdminSendStep
  <1>9. CASE RestartReminders
    BY <1>9, RestartStep
  <1>10. QED
    BY <1>1, <1>2, <1>3, <1>4, <1>5, <1>6, <1>7, <1>8, <1>9 DEF RemindersNext

(* The worker reminds nobody of the same thing twice in a day but after a  *)
(* lookup that failed, and a run of it that ends has forgotten nobody whom *)
(* nothing happened to (CheckAndSendReminders, remindUser).                *)
THEOREM RemindersAreSent ==
    RemindersSpec => []RemindersTypeOK /\ []RemindedOnceADay /\ NobodyForgotten
  <1>1. RemindersInv /\ [RemindersNext]_remindersVars => RemindersInv'
    BY ReminderStep, ReminderStands
  <1>2. RemindersInv /\ [RemindersNext]_remindersVars => [WorkerEnds]_remindersVars
    BY ReminderStep
  <1>3. RemindersInv => RemindersTypeOK /\ RemindedOnceADay
    BY DEF RemindersInv
  <1>4. QED
    BY <1>1, <1>2, <1>3, InitReminders, PTL DEF RemindersSpec, NobodyForgotten, WorkerEnds

=============================================================================
