----------------------------- MODULE CampaignEditor -----------------------------
(***************************************************************************)
(* The editor of a campaign and its send dialog (frontend                  *)
(* pages/admin/communication/CampaignsAdmin.tsx, components/admin/email/   *)
(* BlockEditor.tsx), in several windows on one campaign.  What the service *)
(* does of a request between its awaits, and of a campaign once it has     *)
(* started, is Campaigns; here a request is answered at once.              *)
(*                                                                         *)
(* A content is whoever wrote it last; "none" is a campaign without blocks.*)
(* The number of the subscribers of a segment changes all the time.        *)
(*                                                                         *)
(* A definition whose name starts with M_ is a mutated form of the one     *)
(* below it, used only to show that a property fails of that bug.          *)
(***************************************************************************)
EXTENDS Naturals

CONSTANTS
  Desk,        \* windows with the screen of the campaigns
  NoCampaign,  \* the campaign is not there: not yet created, or deleted
  NoCount,     \* a number the dialog has not fetched
  Reach,       \* the numbers of subscribers of a segment
  MaxEdited,   \* bound: how often somebody types or chooses
  MaxMoves,    \* bound: how often the number of the subscribers changes
  MaxWrites    \* bound: how often the campaign is written

ASSUME ReachAssumption == Reach \subseteq Nat /\ 1 \in Reach
ASSUME EditingAssumption == MaxEdited \in Nat /\ MaxMoves \in Nat /\ MaxWrites \in Nat

VARIABLES
  campaign,    \* the row
  writes,      \* how often it was written: its updatedAt
  reach,       \* how many active subscribers each segment has
  moves,       \* how often that has changed
  screen,      \* "list", or the editor of a "new" campaign or of this "one"
  fetched,     \* the row as the editor's query holds it
  inFields,     \* the draft in its fields
  edited,      \* how often one was changed
  savingDraft,      \* the save under way, and what it sends
  refetches,   \* the query has been invalidated
  dialog,      \* the send dialog is open
  count,       \* the number it holds, kept when it is closed
  counting,    \* and whether the open dialog waits for a newer one
  ticked,      \* the box is ticked
  sending,     \* the request to send under way: the number it confirms
  \* A history variable.
  pressed      \* the row the dialog stood for when Send was pressed

campaignRow == <<campaign, writes>>
editorVars  == <<screen, fetched, inFields, edited, savingDraft, refetches>>
dialogVars  == <<dialog, count, counting, ticked, sending, pressed>>
campaignEditorVars == <<campaignRow, reach, moves, editorVars, dialogVars>>

-----------------------------------------------------------------------------
Segment == {"all", "fr"}

Contents == [blocks : Desk \cup {"none", "earlier"}, audience : Segment]
EmptyContent == [blocks |-> "none", audience |-> "all"]

NoSave == [kind |-> "none", what |-> EmptyContent]
CampaignRows   == [status : {"DRAFT", "SCHEDULED", "SENDING"}, what : Contents, at : 0..MaxWrites]

\* isDraft, dirty
IsDraft(d)  == screen[d] = "new" \/ (fetched[d] # NoCampaign /\ fetched[d].status = "DRAFT")
Unsaved(d)  ==
  IF screen[d] = "new" THEN inFields[d] # EmptyContent
  ELSE fetched[d] # NoCampaign /\ inFields[d] # fetched[d].what

\* What the Send button asks for before the dialog opens.
M_AnyDraft(d) == screen[d] = "one" /\ IsDraft(d) /\ inFields[d].blocks # "none"
MayOpenDialog(d) ==
  /\ screen[d] = "one" /\ IsDraft(d) /\ ~Unsaved(d)
  /\ inFields[d].blocks # "none"

CampaignEditorInit ==
  /\ campaign \in {NoCampaign, [status |-> "DRAFT", at |-> 0,
                                what |-> [blocks |-> "earlier", audience |-> "all"]]}
  /\ writes = 0
  /\ reach = [s \in Segment |-> 1]
  /\ moves = 0 /\ edited = 0
  /\ screen = [d \in Desk |-> "list"]
  /\ fetched = [d \in Desk |-> NoCampaign]
  /\ inFields = [d \in Desk |-> EmptyContent]
  /\ savingDraft = [d \in Desk |-> NoSave]
  /\ refetches = [d \in Desk |-> FALSE]
  /\ dialog = [d \in Desk |-> FALSE]
  /\ count = [d \in Desk |-> NoCount]
  /\ counting = [d \in Desk |-> FALSE]
  /\ ticked = [d \in Desk |-> FALSE]
  /\ sending = [d \in Desk |-> NoCount]
  /\ pressed = [d \in Desk |-> NoCampaign]

SubscribersMove ==
  /\ moves < MaxMoves /\ moves' = moves + 1
  /\ \E s \in Segment, n \in Reach : n # reach[s] /\ reach' = [reach EXCEPT ![s] = n]
  /\ UNCHANGED <<campaignRow, editorVars, dialogVars>>

-----------------------------------------------------------------------------
(* The editor *)

\* The screen is left for another: the editor and its dialog are gone, and a
\* request under way goes on.
Leaves(d, to) ==
  /\ screen' = [screen EXCEPT ![d] = to]
  /\ fetched' = [fetched EXCEPT ![d] = NoCampaign]
  /\ inFields' = [inFields EXCEPT ![d] = EmptyContent]
  /\ refetches' = [refetches EXCEPT ![d] = to = "one"]
  /\ dialog' = [dialog EXCEPT ![d] = FALSE]
  /\ counting' = [counting EXCEPT ![d] = FALSE]
  /\ ticked' = [ticked EXCEPT ![d] = FALSE]

OpenEditor(d) ==
  /\ screen[d] = "list"
  /\ \E to \in {"new", "one"} :
       /\ (to = "one") = (campaign # NoCampaign)
       /\ Leaves(d, to)
  /\ UNCHANGED <<campaignRow, reach, moves, edited, savingDraft, count, sending, pressed>>

LeaveEditor(d) ==
  /\ screen[d] # "list" /\ sending[d] = NoCount /\ Leaves(d, "list")
  /\ UNCHANGED <<campaignRow, reach, moves, edited, savingDraft, count, sending, pressed>>

\* The effect on campaign.data: only data that changed replaces the draft.
Replaces(d) == campaign # fetched[d]

\* The query answers, after it was invalidated or on the interval of a campaign
\* that is no draft; a campaign that is gone leaves an error on the screen.
EditorFetches(d) ==
  /\ screen[d] = "one"
  /\ refetches[d] \/ (fetched[d] # NoCampaign /\ fetched[d].status # "DRAFT")
  /\ campaign # NoCampaign
  /\ fetched' = [fetched EXCEPT ![d] = campaign]
  /\ inFields' = [inFields EXCEPT ![d] = IF Replaces(d) THEN campaign.what ELSE @]
  /\ refetches' = [refetches EXCEPT ![d] = FALSE]
  /\ UNCHANGED <<campaignRow, reach, moves, screen, edited, savingDraft, dialogVars>>

Loaded(d) == screen[d] = "new" \/ (screen[d] = "one" /\ fetched[d] # NoCampaign)

\* The fields are open while the campaign is a draft, and the dialog is not.
EditContent(d) ==
  /\ Loaded(d) /\ IsDraft(d) /\ ~dialog[d]
  /\ edited < MaxEdited /\ edited' = edited + 1
  /\ \E c \in {[inFields[d] EXCEPT !.blocks = b] : b \in {d, "none"}}
              \cup {[inFields[d] EXCEPT !.audience = s] : s \in Segment} :
       c # inFields[d] /\ inFields' = [inFields EXCEPT ![d] = c]
  /\ UNCHANGED <<campaignRow, reach, moves, screen, fetched, savingDraft, refetches, dialogVars>>

SaveCampaign(d) ==
  /\ Loaded(d) /\ IsDraft(d) /\ Unsaved(d) /\ savingDraft[d] = NoSave /\ ~dialog[d]
  /\ savingDraft' = [savingDraft EXCEPT ![d] =
       [kind |-> IF screen[d] = "new" THEN "create" ELSE "update", what |-> inFields[d]]]
  /\ UNCHANGED <<campaignRow, reach, moves, screen, fetched, inFields, edited, refetches, dialogVars>>

Stored(row) ==
  /\ writes < MaxWrites
  /\ campaign' = [row EXCEPT !.at = writes + 1]
  /\ writes' = writes + 1

\* update: only a draft can change.
MayUpdate == campaign # NoCampaign /\ campaign.status = "DRAFT"

UpdateStored(d) ==
  /\ savingDraft[d].kind = "update" /\ MayUpdate
  /\ Stored([campaign EXCEPT !.what = savingDraft[d].what])
  /\ savingDraft' = [savingDraft EXCEPT ![d] = NoSave]
  /\ refetches' = [refetches EXCEPT ![d] = screen[d] = "one"]
  \* Every query of the campaigns is invalidated, the dialog's as well.
  /\ counting' = [counting EXCEPT ![d] = @ \/ dialog[d]]
  /\ UNCHANGED <<reach, moves, screen, fetched, inFields, edited, dialog, count, ticked, sending, pressed>>

\* create, and onOpen: the editor of the campaign that was created takes over.
CreateStored(d) ==
  /\ savingDraft[d].kind = "create" /\ campaign = NoCampaign
  /\ Stored([status |-> "DRAFT", what |-> savingDraft[d].what, at |-> 0])
  /\ Leaves(d, "one")
  /\ savingDraft' = [savingDraft EXCEPT ![d] = NoSave]
  /\ UNCHANGED <<reach, moves, edited, count, sending, pressed>>

\* The second creation of somebody else is another campaign.
CreatesAnother(d) ==
  /\ savingDraft[d].kind = "create" /\ campaign # NoCampaign /\ Leaves(d, "list")
  /\ savingDraft' = [savingDraft EXCEPT ![d] = NoSave]
  /\ UNCHANGED <<campaignRow, reach, moves, edited, count, sending, pressed>>

\* Refused or lost: an error is shown, and the draft stays.
SaveFailed(d) ==
  /\ savingDraft[d] # NoSave /\ savingDraft' = [savingDraft EXCEPT ![d] = NoSave]
  /\ UNCHANGED <<campaignRow, reach, moves, screen, fetched, inFields, edited, refetches, dialogVars>>

\* remove, and onOpen(null).
DeleteCampaign(d) ==
  /\ screen[d] = "one" /\ Loaded(d) /\ IsDraft(d) /\ MayUpdate /\ ~dialog[d] /\ sending[d] = NoCount
  /\ campaign' = NoCampaign
  /\ Leaves(d, "list")
  /\ UNCHANGED <<writes, reach, moves, edited, savingDraft, count, sending, pressed>>

\* cancel: a campaign that was planned is a draft again.
CancelScheduled(d) ==
  /\ Loaded(d) /\ fetched[d] # NoCampaign /\ fetched[d].status = "SCHEDULED"
  /\ campaign # NoCampaign /\ campaign.status = "SCHEDULED"
  /\ Stored([campaign EXCEPT !.status = "DRAFT"])
  /\ refetches' = [refetches EXCEPT ![d] = TRUE]
  /\ UNCHANGED <<reach, moves, screen, fetched, inFields, edited, savingDraft, dialogVars>>

\* The tick of the worker starts what was planned.
PlannedStarts ==
  /\ campaign # NoCampaign /\ campaign.status = "SCHEDULED"
  /\ Stored([campaign EXCEPT !.status = "SENDING"])
  /\ UNCHANGED <<reach, moves, screen, fetched, inFields, edited, savingDraft, refetches, dialogVars>>

-----------------------------------------------------------------------------
(* The send dialog *)

\* The number is fetched anew; one that is kept is shown meanwhile.
OpenDialog(d) ==
  /\ MayOpenDialog(d) /\ ~dialog[d]
  /\ dialog' = [dialog EXCEPT ![d] = TRUE]
  /\ counting' = [counting EXCEPT ![d] = TRUE]
  /\ UNCHANGED <<campaignRow, reach, moves, editorVars, count, ticked, sending, pressed>>

CountArrives(d) ==
  /\ dialog[d] /\ counting[d]
  /\ count' = [count EXCEPT ![d] = reach[fetched[d].what.audience]]
  /\ counting' = [counting EXCEPT ![d] = FALSE]
  /\ UNCHANGED <<campaignRow, reach, moves, editorVars, dialog, ticked, sending, pressed>>

TickBox(d) ==
  /\ dialog[d] /\ count[d] \notin {NoCount, 0}
  /\ ticked' = [ticked EXCEPT ![d] = ~@]
  /\ UNCHANGED <<campaignRow, reach, moves, editorVars, dialog, count, counting, sending, pressed>>

\* A bound: one waits for the answer of a request to send, as closing the dialog
\* before it changes nothing in that request.
CloseDialog(d) ==
  /\ dialog[d] /\ sending[d] = NoCount
  /\ dialog' = [dialog EXCEPT ![d] = FALSE]
  /\ counting' = [counting EXCEPT ![d] = FALSE]
  /\ ticked' = [ticked EXCEPT ![d] = FALSE]
  /\ UNCHANGED <<campaignRow, reach, moves, editorVars, count, sending, pressed>>

PressSend(d) ==
  /\ dialog[d] /\ ticked[d] /\ count[d] \notin {NoCount, 0} /\ ~counting[d]
  /\ sending[d] = NoCount
  /\ sending' = [sending EXCEPT ![d] = count[d]]
  /\ pressed' = [pressed EXCEPT ![d] = fetched[d]]
  /\ UNCHANGED <<campaignRow, reach, moves, editorVars, dialog, count, counting, ticked>>

\* schedule: the row as it is stored, and as many people as were confirmed.
M_NoRecount(d) == TRUE
Recounted(d) == reach[campaign.what.audience] = sending[d]

MaySend(d) ==
  /\ MayUpdate /\ campaign.what.blocks # "none"
  /\ reach[campaign.what.audience] > 0 /\ Recounted(d)

SendStored(d) ==
  /\ sending[d] # NoCount /\ MaySend(d)
  /\ \E status \in {"SCHEDULED", "SENDING"} :
       Stored([campaign EXCEPT !.status = status])
  /\ \/ /\ dialog' = [dialog EXCEPT ![d] = FALSE]
        /\ counting' = [counting EXCEPT ![d] = FALSE]
        /\ ticked' = [ticked EXCEPT ![d] = FALSE]
        /\ refetches' = [refetches EXCEPT ![d] = screen[d] = "one"]
     \* The answer is lost: the dialog stays, as after an error.
     \/ UNCHANGED <<dialog, counting, ticked, refetches>>
  /\ sending' = [sending EXCEPT ![d] = NoCount]
  /\ pressed' = [pressed EXCEPT ![d] = NoCampaign]
  /\ UNCHANGED <<reach, moves, screen, fetched, inFields, edited, savingDraft, count>>

\* A conflict unticks the box and fetches the number again; any other refusal,
\* or an answer that is lost, is a notice.
SendRefused(d) ==
  /\ sending[d] # NoCount
  /\ \/ /\ campaign # NoCampaign /\ ~MaySend(d)
        /\ ticked' = [ticked EXCEPT ![d] = FALSE]
        /\ counting' = [counting EXCEPT ![d] = TRUE]
     \/ UNCHANGED <<ticked, counting>>
  /\ sending' = [sending EXCEPT ![d] = NoCount]
  /\ pressed' = [pressed EXCEPT ![d] = NoCampaign]
  /\ UNCHANGED <<campaignRow, reach, moves, editorVars, dialog, count>>

CampaignEditorNext ==
  \/ SubscribersMove \/ PlannedStarts
  \/ \E d \in Desk :
       \/ OpenEditor(d) \/ LeaveEditor(d) \/ EditorFetches(d) \/ EditContent(d)
       \/ SaveCampaign(d) \/ UpdateStored(d) \/ CreateStored(d) \/ CreatesAnother(d)
       \/ SaveFailed(d) \/ DeleteCampaign(d) \/ CancelScheduled(d)
       \/ OpenDialog(d) \/ CountArrives(d) \/ TickBox(d) \/ CloseDialog(d) \/ PressSend(d)
       \/ SendStored(d) \/ SendRefused(d)

CampaignEditorSpec == CampaignEditorInit /\ [][CampaignEditorNext]_campaignEditorVars

-----------------------------------------------------------------------------
(* Properties *)

CampaignEditorTypeOK ==
  /\ campaign = NoCampaign \/ campaign \in CampaignRows
  /\ writes \in 0..MaxWrites /\ moves \in 0..MaxMoves /\ edited \in 0..MaxEdited /\ reach \in [Segment -> Reach]
  /\ screen \in [Desk -> {"list", "new", "one"}]
  /\ \A d \in Desk : fetched[d] = NoCampaign \/ fetched[d] \in CampaignRows
  /\ \A d \in Desk : pressed[d] = NoCampaign \/ pressed[d] \in CampaignRows
  /\ inFields \in [Desk -> Contents]
  /\ savingDraft \in [Desk -> [kind : {"none", "create", "update"}, what : Contents]]
  /\ count \in [Desk -> Reach \cup {NoCount}] /\ sending \in [Desk -> Reach \cup {NoCount}]
  /\ \A f \in {refetches, dialog, counting, ticked} : f \in [Desk -> BOOLEAN]

\* An open dialog stands for the draft as the editor shows it: nothing that is
\* not stored, and nobody can type under it.
DialogShowsDraft == \A d \in Desk : dialog[d] => ~Unsaved(d)

StartsNow ==
  /\ campaign # NoCampaign /\ campaign' # NoCampaign
  /\ campaign.status = "DRAFT" /\ campaign'.status # "DRAFT"

\* A campaign starts only by a confirmed request, for as many people as its
\* dialog said, and with the content its dialog stood for unless somebody has
\* written the campaign since that content was fetched.
SendIsConfirmed ==
  [][StartsNow =>
       \E d \in Desk :
         /\ sending[d] # NoCount /\ sending'[d] = NoCount
         /\ reach[campaign.what.audience] = sending[d]
         /\ campaign'.what = pressed[d].what \/ campaign.at # pressed[d].at]_campaignEditorVars
=================================================================================
