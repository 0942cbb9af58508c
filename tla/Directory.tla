------------------------------ MODULE Directory ------------------------------
(***************************************************************************)
(* What administrators maintain: sites with their users and floor plans    *)
(* (internal/handlers/sites.go), domains with their teams and managers     *)
(* (admin_domains.go), teams and statuses (admin.go).  The links from a    *)
(* record to its site, domain or status cross databases or are not foreign *)
(* keys, so each deletion first detaches or counts and then deletes, in    *)
(* statements that other requests interleave with.                         *)
(***************************************************************************)
EXTENDS Naturals, FiniteSets

CONSTANTS Admins,        \* requests of administrators in flight at once
          Owned,         \* records that may be linked: users, plans, teams, presences
          Owners,        \* sites, domains and statuses, by id
          KindOf,        \* the table of each of them
          MaxDirectoryFaults  \* statements that fail in a behaviour (a bound)

OwnerKinds == {"site", "domain", "status"}
OwnedKinds == {"user", "plan", "team", "presence"}

ASSUME DirectoryAssumption ==
    /\ KindOf \in [Owned \cup Owners -> OwnerKinds \cup OwnedKinds]
    /\ \A o \in Owners : KindOf[o] \in OwnerKinds
    /\ \A c \in Owned : KindOf[c] \in OwnedKinds
    /\ Owned \cap Owners = {}
    /\ MaxDirectoryFaults \in Nat

VARIABLES
    ownerRows,  \* of each owner: not created yet, there, or deleted
    link,       \* the site_id, domain_id or status_id of the owned; Unlinked for 0
    admin,      \* what each request is doing
    (* History variables, never read by the code. *)
    detached,   \* pairs <<kind, owner>> that a deletion has detached or counted
    linkedLate, \* owned records linked after that, or that a failure left linked
    failures    \* statements that failed so far

directoryVars == <<ownerRows, link, admin, detached, linkedLate, failures>>

Unlinked == "none"

(* What may be linked to what.                                             *)
LinkedKinds(kind) == CASE kind = "site" -> {"user", "plan"}
                 [] kind = "domain" -> {"team"}
                 [] kind = "status" -> {"presence"}

Linkable(c, o) == KindOf[c] \in LinkedKinds(KindOf[o])

NoTask == [op |-> "idle"]
Task == [op : {"attach", "detach", "delete"}, owner : Owners,
         todo : SUBSET Owned,           \* attach: still to link; detach: to unlink
         wanted : SUBSET Owned,         \* the links the request lists
         kinds : SUBSET OwnedKinds]     \* delete: still to detach

DirectoryTypeOK ==
    /\ ownerRows \in [Owners -> {"unborn", "there", "gone"}]
    /\ link \in [Owned -> Owners \cup {Unlinked}]
    /\ \A c \in Owned : link[c] = Unlinked \/ Linkable(c, link[c])
    /\ admin \in [Admins -> Task \cup {NoTask}]
    /\ detached \subseteq OwnedKinds \X Owners
    /\ linkedLate \subseteq Owned
    /\ failures \in 0 .. MaxDirectoryFaults

DirectoryInit ==
    /\ ownerRows = [o \in Owners |-> "unborn"]
    /\ link = [c \in Owned |-> Unlinked]
    /\ admin = [a \in Admins |-> NoTask]
    /\ detached = {} /\ linkedLate = {} /\ failures = 0

-----------------------------------------------------------------------------
(* Statements.                                                             *)

Fails == failures < MaxDirectoryFaults /\ failures' = failures + 1

(* An UPDATE of the links of some records to an owner, or to none.         *)
LinkAll(cs, o) ==
    /\ link' = [c \in Owned |-> IF c \in cs THEN o ELSE link[c]]
    /\ linkedLate' = (linkedLate \ cs) \cup {c \in cs : <<KindOf[c], o>> \in detached}

Of(kind, o) == {c \in Owned : KindOf[c] = kind /\ link[c] = o}

Done(a) == admin' = [admin EXCEPT ![a] = NoTask]

BeginTask(a, task) == admin[a] = NoTask /\ admin' = [admin EXCEPT ![a] = task]

Attach(o, cs) == [op |-> "attach", owner |-> o, todo |-> cs, wanted |-> cs, kinds |-> {}]

-----------------------------------------------------------------------------
(* Saving a site or a domain with the records it lists.                    *)

(* The INSERT of a new site or domain; a site only sets the plans listed,  *)
(* a domain its managers and then its teams.                               *)
Create(a, o, cs) ==
    /\ ownerRows[o] = "unborn" /\ KindOf[o] # "status"
    /\ cs \subseteq {c \in Owned : Linkable(c, o) /\ KindOf[c] # "user"}
    /\ ownerRows' = [ownerRows EXCEPT ![o] = "there"]
    /\ IF KindOf[o] = "site" /\ cs = {} THEN admin[a] = NoTask /\ UNCHANGED admin
       ELSE BeginTask(a, Attach(o, cs))
    /\ UNCHANGED <<link, detached, linkedLate, failures>>

(* UpdateSite resets the links of the site's plans before it sets those    *)
(* listed; the row may be gone, which no statement notices.                *)
UpdateSite(a, o, cs) ==
    /\ ownerRows[o] # "unborn" /\ KindOf[o] = "site"
    /\ cs \subseteq {c \in Owned : KindOf[c] = "plan"}
    /\ LinkAll(Of("plan", o), Unlinked)
    /\ IF cs = {} THEN admin[a] = NoTask /\ UNCHANGED admin ELSE BeginTask(a, Attach(o, cs))
    /\ UNCHANGED <<ownerRows, detached, failures>>

(* UpdateDomain renames; the links come one by one.                        *)
UpdateDomain(a, o, cs) ==
    /\ ownerRows[o] # "unborn" /\ KindOf[o] = "domain"
    /\ cs \subseteq {c \in Owned : KindOf[c] = "team"}
    /\ BeginTask(a, Attach(o, cs))
    /\ UNCHANGED <<ownerRows, link, detached, linkedLate, failures>>

(* SetSiteFloorplans and applyDomainTeams, one record at a time; a failure *)
(* ends a site's request and is skipped in a domain's.                     *)
AttachOne(a) ==
    /\ admin[a].op = "attach"
    /\ \E c \in admin[a].todo :
         LET rest == [admin EXCEPT ![a].todo = @ \ {c}]
         IN  \/ /\ LinkAll({c}, admin[a].owner) /\ admin' = rest /\ UNCHANGED failures
             \/ /\ Fails /\ UNCHANGED <<link, linkedLate>>
                /\ IF KindOf[admin[a].owner] = "site" THEN Done(a) ELSE admin' = rest
    /\ UNCHANGED <<ownerRows, detached>>

(* With all linked a site is done; a domain reads the teams it has and is  *)
(* to unlink those not listed, none if they cannot be read.                *)
AttachedAll(a) ==
    /\ admin[a].op = "attach" /\ admin[a].todo = {}
    /\ LET o == admin[a].owner
           extra == Of("team", o) \ admin[a].wanted
       IN  \/ /\ UNCHANGED failures
              /\ IF KindOf[o] = "site" \/ extra = {} THEN Done(a)
                 ELSE admin' = [admin EXCEPT ![a].op = "detach", ![a].todo = extra]
           \/ KindOf[o] = "domain" /\ Fails /\ Done(a)
    /\ UNCHANGED <<ownerRows, link, detached, linkedLate>>

(* Whatever the team is attached to by now.                                *)
DetachOne(a) ==
    /\ admin[a].op = "detach"
    /\ \E c \in admin[a].todo :
         /\ IF admin[a].todo = {c} THEN Done(a) ELSE admin' = [admin EXCEPT ![a].todo = @ \ {c}]
         /\ \/ LinkAll({c}, Unlinked) /\ UNCHANGED failures
            \/ Fails /\ UNCHANGED <<link, linkedLate>>
    /\ UNCHANGED <<ownerRows, detached>>

-----------------------------------------------------------------------------
(* Links set one at a time, to any id the page still shows.                *)

(* UpdateUserSite, UpdateTeamDomain in CreateTeam and UpdateTeam,          *)
(* UpdateFloorplanSite: no statement looks whether the id is there.        *)
SetLink(c, o) ==
    /\ o # Unlinked => Linkable(c, o) /\ ownerRows[o] # "unborn" /\ KindOf[o] # "status"
    /\ KindOf[c] # "presence"
    /\ LinkAll({c}, o)
    /\ UNCHANGED <<ownerRows, admin, detached, failures>>

CreateStatus(o) ==
    /\ ownerRows[o] = "unborn" /\ KindOf[o] = "status"
    /\ ownerRows' = [ownerRows EXCEPT ![o] = "there"]
    /\ UNCHANGED <<link, admin, detached, linkedLate, failures>>

(* SetPresences with a status the page shows: a connection that enforces   *)
(* foreign keys refuses one that is gone, another takes it (only the       *)
(* connection that ran the PRAGMA enforces them).                          *)
Declare(c, o) ==
    /\ KindOf[c] = "presence"
    /\ o # Unlinked => KindOf[o] = "status" /\ ownerRows[o] # "unborn"
    /\ LinkAll({c}, o)
    /\ UNCHANGED <<ownerRows, admin, detached, failures>>

-----------------------------------------------------------------------------
(* Deletions.                                                              *)

(* DeleteSite that leaves the floor plans attached.                        *)
BeginDeleteOfUsers(a, o) ==
    /\ ownerRows[o] # "unborn"
    /\ BeginTask(a, [op |-> "delete", owner |-> o, todo |-> {}, wanted |-> {},
                  kinds |-> LinkedKinds(KindOf[o]) \ {"plan"}])
    /\ UNCHANGED <<ownerRows, link, detached, linkedLate, failures>>

BeginDelete(a, o) ==
    /\ ownerRows[o] # "unborn"
    /\ BeginTask(a, [op |-> "delete", owner |-> o, todo |-> {}, wanted |-> {},
                  kinds |-> LinkedKinds(KindOf[o])])
    /\ UNCHANGED <<ownerRows, link, detached, linkedLate, failures>>

(* Users of a site before its plans.  A failed detachment is ignored for a *)
(* site and ends the deletion of a domain.                                 *)
Detach(a) ==
    /\ admin[a].op = "delete" /\ KindOf[admin[a].owner] # "status"
    /\ \E kind \in admin[a].kinds :
         LET o == admin[a].owner
             next == [admin EXCEPT ![a].kinds = @ \ {kind}]
         IN  /\ kind = "plan" => "user" \notin admin[a].kinds
             /\ \/ /\ LinkAll(Of(kind, o), Unlinked)
                   /\ detached' = detached \cup {<<kind, o>>}
                   /\ admin' = next /\ UNCHANGED failures
                \/ /\ Fails /\ UNCHANGED link
                   /\ IF kind = "team" THEN Done(a) /\ UNCHANGED <<detached, linkedLate>>
                      ELSE /\ admin' = next
                           /\ detached' = detached \cup {<<kind, o>>}
                           /\ linkedLate' = linkedLate \cup Of(kind, o)
    /\ UNCHANGED ownerRows

(* DeleteStatus refuses a status that presences name.                      *)
CountPresences(a) ==
    /\ admin[a].op = "delete" /\ admin[a].kinds = {"presence"}
    /\ LET o == admin[a].owner
       IN  IF Of("presence", o) # {} THEN Done(a) /\ UNCHANGED detached
           ELSE /\ admin' = [admin EXCEPT ![a].kinds = {}]
                /\ detached' = detached \cup {<<"presence", o>>}
    /\ UNCHANGED <<ownerRows, link, linkedLate, failures>>

(* The DELETE; where foreign keys are enforced a status that presences     *)
(* name by now stays.                                                      *)
DeleteRow(a) ==
    /\ admin[a].op = "delete" /\ admin[a].kinds = {}
    /\ LET o == admin[a].owner
       IN  \/ ownerRows' = [ownerRows EXCEPT ![o] = "gone"] /\ UNCHANGED failures
           \/ Fails /\ UNCHANGED ownerRows
           \/ Of("presence", o) # {} /\ UNCHANGED <<ownerRows, failures>>
    /\ Done(a)
    /\ UNCHANGED <<link, detached, linkedLate>>

StopAdmins ==
    /\ Fails
    /\ admin' = [a \in Admins |-> NoTask]
    /\ UNCHANGED <<ownerRows, link, detached, linkedLate>>

DirectoryNext ==
    \/ \E a \in Admins, o \in Owners, cs \in SUBSET Owned :
          Create(a, o, cs) \/ UpdateSite(a, o, cs) \/ UpdateDomain(a, o, cs)
    \/ \E a \in Admins : AttachOne(a) \/ AttachedAll(a) \/ DetachOne(a)
    \/ \E c \in Owned, o \in Owners \cup {Unlinked} : SetLink(c, o) \/ Declare(c, o)
    \/ \E o \in Owners : CreateStatus(o) \/ \E a \in Admins : BeginDelete(a, o)
    \/ \E a \in Admins : Detach(a) \/ CountPresences(a) \/ DeleteRow(a)
    \/ StopAdmins

DirectorySpec == DirectoryInit /\ [][DirectoryNext]_directoryVars

-----------------------------------------------------------------------------
(* Properties.                                                             *)

(* No user, floor plan, team or presence names a site, a domain or a       *)
(* status that is deleted, unless it was linked after the deletion had     *)
(* detached or counted its kind, or that statement failed (DeleteSite,     *)
(* DeleteDomain and DeleteStatus, without a transaction).                  *)
DanglingWasLate ==
    \A c \in Owned : link[c] # Unlinked /\ ownerRows[link[c]] = "gone" => c \in linkedLate
=============================================================================
