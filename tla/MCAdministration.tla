--------------------------- MODULE MCAdministration ---------------------------
(***************************************************************************)
(* Accounts, the media library, the permissions, the editor of a campaign  *)
(* and what search engines are told, on small instances: a behaviour is    *)
(* one of a single component and the others rest.  They share no state, so *)
(* letting several of them move would add interleavings and nothing that a *)
(* property of any of them can tell apart.                                 *)
(***************************************************************************)
EXTENDS Accounts, MediaLibrary, Access, CampaignEditor, Indexing, TLC

\* The two people, the same for every component, cannot be told from one
\* another.
MCSymmetry == Permutations(Window)

\* The seo section complete in both languages, in French only, in Arabic only,
\* and stored before the contact page existed.
MCSeo ==
  {[title |-> Tongue, image |-> TRUE, pages |-> ("/" :> {} @@ "/contact" :> Tongue)],
   [title |-> {"fr"}, image |-> FALSE, pages |-> ("/" :> {"fr"} @@ "/contact" :> {"fr"})],
   [title |-> {"ar"}, image |-> FALSE, pages |-> ("/" :> {} @@ "/contact" :> {"ar"})],
   [title |-> Tongue, image |-> FALSE, pages |-> ("/" :> {} @@ "/contact" :> NoEntry)]}
\* An article on line, archived, still to come, withdrawn, and without a date.
MCPost ==
  {[published |-> TRUE, archived |-> FALSE, date |-> "past", title |-> Tongue, image |-> TRUE],
   [published |-> TRUE, archived |-> TRUE, date |-> "past", title |-> {"fr"}, image |-> FALSE],
   [published |-> TRUE, archived |-> FALSE, date |-> "future", title |-> Tongue, image |-> FALSE],
   [published |-> FALSE, archived |-> FALSE, date |-> "past", title |-> {"ar"}, image |-> TRUE],
   [published |-> TRUE, archived |-> FALSE, date |-> "none", title |-> {"ar"}, image |-> FALSE]}
MCVisited ==
  {Canonical("/", "fr", "plain"), Canonical("/", "ar", "plain"),
   Canonical("/contact", "ar", "plain"), Canonical("/contact", "fr", "slash"),
   Canonical("/confirmation", "ar", "plain"), Canonical("/nowhere", "fr", "plain"),
   Canonical("article", "ar", "plain"), Canonical("article", "fr", "id")}

\* As it mostly is: the section complete, the article on line.
SeoMostly  == seo = CHOOSE s \in StudiedSeo : s.title = Tongue /\ s.image
PostMostly == post = [a \in Slug |-> CHOOSE p \in StudiedPost : p.published /\ ~p.archived /\ p.image]
IndexingRest == SeoMostly /\ PostMostly
\* One of the two: the other values of both are one revision away.
IndexingStarts == SeoMostly \/ PostMostly

VARIABLE part  \* the component of this behaviour

AdministrationInit ==
  /\ part \in {"accounts", "media library", "permissions", "campaign editor", "indexing"}
  /\ part # "permissions" => standing = [p \in Colleague |-> "ADMIN"]
  /\ part # "campaign editor" => campaign = NoCampaign
  /\ IF part = "indexing" THEN IndexingStarts ELSE IndexingRest
  /\ AccountsInit /\ MediaInit /\ AccessInit /\ CampaignEditorInit /\ IndexingInit

AdministrationNext ==
  \/ /\ part = "accounts" /\ AccountsNext
     /\ UNCHANGED <<part, mediaVars, accessVars, campaignEditorVars, indexingVars>>
  \/ /\ part = "media library" /\ MediaNext
     /\ UNCHANGED <<part, accountsVars, accessVars, campaignEditorVars, indexingVars>>
  \/ /\ part = "permissions" /\ AccessNext
     /\ UNCHANGED <<part, accountsVars, mediaVars, campaignEditorVars, indexingVars>>
  \/ /\ part = "campaign editor" /\ CampaignEditorNext
     /\ UNCHANGED <<part, accountsVars, mediaVars, accessVars, indexingVars>>
  \/ /\ part = "indexing" /\ IndexingNext
     /\ UNCHANGED <<part, accountsVars, mediaVars, accessVars, campaignEditorVars>>

AdministrationSpec ==
  /\ AdministrationInit
  /\ [][AdministrationNext]_<<part, accountsVars, mediaVars, accessVars, campaignEditorVars,
                              indexingVars>>

\* The types of all of them, and the files and rows of the library.
AdministrationOK ==
  /\ part = "accounts" => AccountsTypeOK
  /\ part = "media library" => SectionsTypeOK /\ MediaTypeOK /\ FileAndRow
  /\ part = "permissions" => AccessTypeOK
  /\ part = "campaign editor" => CampaignEditorTypeOK
  /\ part = "indexing" => IndexingTypeOK
=============================================================================
