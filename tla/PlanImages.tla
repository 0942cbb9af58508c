----------------------------- MODULE PlanImages -----------------------------
(***************************************************************************)
(* The image file of a floor plan (UploadFloorplanImage, DeleteFloorplan)  *)
(* and the users' favourite plans (ToggleFloorplanFavorite).  A file and   *)
(* the row that names it change in separate steps: the old file is removed *)
(* before the new one is written and named, whatever another upload or the *)
(* deletion of the plan does meanwhile.                                    *)
(***************************************************************************)
EXTENDS Naturals, FiniteSets

CONSTANTS Uploads,        \* requests in progress at once (a bound)
          Formats,        \* file extensions: a plan has one file of each at most
          Fans,           \* users with favourites
          MaxPlanSteps    \* requests of a behaviour (a bound)

NoImage == "no image"
NoPlanRow == "no row"

ASSUME PlanImagesAssumption ==
    MaxPlanSteps \in Nat /\ NoImage \notin Formats /\ NoPlanRow \notin Formats

VARIABLES
    plan,       \* the floorplans row: the format its image_path names, or none
    files,      \* formats of the plan's files in DataDir
    favorites,  \* users with a floorplan_favorites row
    uploads,    \* requests between two of their steps
    stepsLeft,  \* requests still to come
    (* History variables, never read by the code. *)
    spoiled,    \* a step of a request failed, or it overlapped another or came
                \* after the deletion
    answered,   \* what each user was last told of the favourite
    crossed     \* users with toggles that overlapped, or a deletion meanwhile

planVars == <<plan, files, favorites, uploads, stepsLeft, spoiled, answered, crossed>>

Request0 == [stage |-> "idle"]

UploadStage == {"read", "remove", "create", "copy", "name"}

ImageRequest == [stage : UploadStage \cup {"favorites", "delete"}, op : {"upload", "delete"},
                 format : Formats, old : Formats \cup {NoImage}]
ToggleRequest == [stage : {"insert"}, op : {"toggle"}, user : Fans]

PlanImagesTypeOK ==
    /\ plan \in Formats \cup {NoImage, NoPlanRow}
    /\ files \subseteq Formats /\ favorites \subseteq Fans
    /\ uploads \in [Uploads -> ImageRequest \cup ToggleRequest \cup {Request0}]
    /\ stepsLeft \in 0 .. MaxPlanSteps
    /\ spoiled \in BOOLEAN /\ crossed \subseteq Fans
    /\ answered \in [Fans -> BOOLEAN]

(* A plan just created.                                                    *)
PlanImagesInit ==
    /\ plan = NoImage /\ files = {} /\ favorites = {}
    /\ uploads = [q \in Uploads |-> Request0]
    /\ stepsLeft = MaxPlanSteps
    /\ spoiled = FALSE /\ answered = [u \in Fans |-> FALSE] /\ crossed = {}

OnImage(q) == uploads[q].stage # "idle" /\ uploads[q].op # "toggle"
NoneOnImage == \A q \in Uploads : ~OnImage(q)

Put(q, r) == uploads' = [uploads EXCEPT ![q] = r]
AtStage(q, stage) == Put(q, [uploads[q] EXCEPT !.stage = stage])
ImageDone(q) == Put(q, Request0)

NewRequest(q, r) ==
    /\ uploads[q] = Request0 /\ stepsLeft > 0
    /\ stepsLeft' = stepsLeft - 1
    /\ Put(q, r)

-----------------------------------------------------------------------------
(* UploadFloorplanImage and DeleteFloorplan.                               *)

(* An upload of an image in one of the formats, or a deletion.             *)
BeginImage(q, op, format) ==
    /\ NewRequest(q, [stage |-> "read", op |-> op, format |-> format, old |-> NoImage])
    /\ spoiled' = (spoiled \/ ~NoneOnImage \/ plan = NoPlanRow)
    /\ UNCHANGED <<plan, files, favorites, answered, crossed>>

(* The row's image is looked up, and there is nothing to remove without, or*)
(* when the lookup fails.                                                  *)
ReadImage(q) ==
    /\ uploads[q].stage = "read"
    /\ \/ /\ plan \in Formats
          /\ Put(q, [uploads[q] EXCEPT !.stage = "remove", !.old = plan])
          /\ UNCHANGED spoiled
       \/ /\ AtStage(q, IF uploads[q].op = "upload" THEN "create" ELSE "favorites")
          /\ spoiled' = (spoiled \/ plan \in Formats)
    /\ UNCHANGED <<plan, files, favorites, stepsLeft, answered, crossed>>

(* os.Remove, its error ignored.                                           *)
RemoveOld(q) ==
    /\ uploads[q].stage = "remove"
    /\ \/ files' = files \ {uploads[q].old} /\ UNCHANGED spoiled
       \/ uploads[q].old \in files /\ UNCHANGED files /\ spoiled' = TRUE
    /\ AtStage(q, IF uploads[q].op = "upload" THEN "create" ELSE "favorites")
    /\ UNCHANGED <<plan, favorites, stepsLeft, answered, crossed>>

CreateImage(q) ==
    /\ uploads[q].stage = "create"
    /\ \/ files' = files \cup {uploads[q].format} /\ AtStage(q, "copy") /\ UNCHANGED spoiled
       \/ UNCHANGED files /\ ImageDone(q) /\ spoiled' = TRUE
    /\ UNCHANGED <<plan, favorites, stepsLeft, answered, crossed>>

(* What could not be copied whole is removed, and the row left.            *)
CopyImage(q) ==
    /\ uploads[q].stage = "copy"
    /\ \/ AtStage(q, "name") /\ UNCHANGED <<files, spoiled>>
       \/ files' = files \ {uploads[q].format} /\ ImageDone(q) /\ spoiled' = TRUE
    /\ UNCHANGED <<plan, favorites, stepsLeft, answered, crossed>>

(* The old file is removed again once the new one is named.                *)
NameAndRemove(q) ==
    /\ uploads[q].stage = "name"
    /\ plan' = IF plan = NoPlanRow THEN plan ELSE uploads[q].format
    /\ files' = files \ {uploads[q].old}
    /\ ImageDone(q)
    /\ UNCHANGED <<favorites, stepsLeft, spoiled, answered, crossed>>

(* SetFloorplanImage, its error ignored too.                               *)
NameImage(q) ==
    /\ uploads[q].stage = "name"
    /\ \/ /\ plan' = IF plan = NoPlanRow THEN plan ELSE uploads[q].format
          /\ UNCHANGED spoiled
       \/ UNCHANGED plan /\ spoiled' = TRUE
    /\ ImageDone(q)
    /\ UNCHANGED <<files, favorites, stepsLeft, answered, crossed>>

DeleteFavorites(q) ==
    /\ uploads[q].stage = "favorites"
    /\ favorites' = {}
    /\ AtStage(q, "delete")
    /\ crossed' = Fans
    /\ UNCHANGED <<plan, files, stepsLeft, spoiled, answered>>

DeletePlanRow(q) ==
    /\ uploads[q].stage = "delete"
    /\ \/ plan' = NoPlanRow /\ UNCHANGED spoiled
       \/ UNCHANGED plan /\ spoiled' = TRUE
    /\ ImageDone(q)
    /\ UNCHANGED <<files, favorites, stepsLeft, answered, crossed>>

-----------------------------------------------------------------------------
(* ToggleFloorplanFavorite: the row is deleted, or inserted if none was.   *)

Toggling(u) == \E q \in Uploads : /\ uploads[q].stage # "idle" /\ uploads[q].op = "toggle"
                                  /\ uploads[q].user = u

DeleteFavorite(q, u) ==
    /\ crossed' = IF Toggling(u) THEN crossed \cup {u} ELSE crossed
    /\ IF u \in favorites
       THEN /\ uploads[q] = Request0 /\ stepsLeft > 0
            /\ stepsLeft' = stepsLeft - 1 /\ UNCHANGED uploads
            /\ favorites' = favorites \ {u} /\ answered' = [answered EXCEPT ![u] = FALSE]
       ELSE /\ NewRequest(q, [stage |-> "insert", op |-> "toggle", user |-> u])
            /\ UNCHANGED <<favorites, answered>>
    /\ UNCHANGED <<plan, files, spoiled>>

(* A second row is refused by UNIQUE(floorplan_id, user_id).               *)
InsertFavorite(q) ==
    /\ uploads[q].stage = "insert"
    /\ LET u == uploads[q].user
       IN  IF u \in favorites THEN UNCHANGED <<favorites, answered>>
           ELSE favorites' = favorites \cup {u} /\ answered' = [answered EXCEPT ![u] = TRUE]
    /\ ImageDone(q)
    /\ UNCHANGED <<plan, files, stepsLeft, spoiled, crossed>>

(* The server stops between two of a request's steps.                      *)
StopUploads ==
    /\ \E q \in Uploads : uploads[q] # Request0
    /\ uploads' = [q \in Uploads |-> Request0]
    /\ spoiled' = (spoiled \/ ~NoneOnImage)
    /\ UNCHANGED <<plan, files, favorites, stepsLeft, answered, crossed>>

PlanImagesNext ==
  \/ StopUploads
  \/ \E q \in Uploads :
        \/ \E format \in Formats, op \in {"upload", "delete"} : BeginImage(q, op, format)
        \/ ReadImage(q) \/ RemoveOld(q) \/ CreateImage(q) \/ CopyImage(q) \/ NameImage(q)
        \/ DeleteFavorites(q) \/ DeletePlanRow(q)
        \/ \E u \in Fans : DeleteFavorite(q, u)
        \/ InsertFavorite(q)

PlanImagesSpec == PlanImagesInit /\ [][PlanImagesNext]_planVars

-----------------------------------------------------------------------------
(* Properties.                                                             *)

(* Is the plan among the favourites that lead the user's list of plans?    *)
LeadsList(u) == plan # NoPlanRow /\ u \in favorites

(* Between requests, as long as none overlapped another and no lookup,     *)
(* write or removal of a file or of the row failed in one, the plan has one*)
(* file, the one its row names, and none once deleted; and a user's star   *)
(* is what the last toggle answered.                                       *)
ImageKept ==
    /\ NoneOnImage /\ ~spoiled => files = {plan} \cap Formats
    /\ \A u \in Fans \ crossed : ~Toggling(u) => (answered[u] <=> LeadsList(u))
=============================================================================
