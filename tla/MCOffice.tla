------------------------------- MODULE MCOffice -------------------------------
(***************************************************************************)
(* The daily work of the back office, component by component on small      *)
(* instances: a behaviour is one of a single component and the others rest.*)
(* They share no state, so letting several of them move would add          *)
(* interleavings and nothing that a property of any of them can tell apart.*)
(***************************************************************************)
EXTENDS Sections, News, Announcements, Navigation, Ordered, EmailSettings, Contact,
        Templates, Catalogue, TLC

MCTypable == {<<"subject", "fr">>, <<"html", "ar">>}
\* The fields of each kind of the catalogue that somebody changes.
MCTouched ==
  [mission |-> {<<"more", "fr">>}, partner |-> {Image}, figure |-> {Published},
   album |-> {<<"title", "ar">>}]

\* The administrators use the site at its one address.
MCOrigin == [a \in Admin |-> "here"]

\* The two people of the office, the same for every component, cannot be told
\* from one another.
MCSymmetry == Permutations(Editor)

VARIABLE part  \* the component of this behaviour

NewsRest           == piece = Draft
AnnouncementsRest  == now = 0 /\ article = CHOOSE r \in Article : Storable(r)
EmailSettingsRest  == config = Empty
\* A row with a server and a sender, for which nobody has saved the site's address
\* yet: one that has an address, and one that sends, is a save away.
EmailSettingsStart == config # Empty /\ config.site = NoSite
ContactRest        == ready = {}
TemplatesRest      == template = "newsletter_confirm"
CatalogueRest      == entryKind = "figure"
\* A partner without an icon stands for a mission without one.
CatalogueStart     == Icon \in Fields => (entry[Icon] = "blank" <=> entryKind = "partner")

OfficeInit ==
  /\ part \in {"sections", "news", "announcements", "navigation", "ordered", "email settings",
              "contact", "templates", "catalogue"}
  /\ part # "news" => NewsRest
  /\ part # "announcements" => AnnouncementsRest
  /\ part # "email settings" => EmailSettingsRest
  /\ part # "contact" => ContactRest
  /\ part # "templates" => TemplatesRest
  /\ part # "catalogue" => CatalogueRest
  /\ SectionsInit /\ NewsInit /\ AnnouncementsInit /\ NavigationInit /\ OrderedInit
  /\ EmailSettingsInit /\ ContactInit /\ TemplatesInit /\ CatalogueInit
  /\ part = "email settings" => EmailSettingsStart
  /\ part = "catalogue" => CatalogueStart

OfficeNext ==
  \/ /\ part = "sections" /\ SectionsNext
     /\ UNCHANGED <<part, newsVars, announcementsVars, navigationVars, orderedVars,
                    emailSettingsVars, contactVars, templatesVars, catalogueVars>>
  \/ /\ part = "news" /\ NewsNext
     /\ UNCHANGED <<part, sectionsVars, announcementsVars, navigationVars, orderedVars,
                    emailSettingsVars, contactVars, templatesVars, catalogueVars>>
  \/ /\ part = "announcements" /\ ClockTicks
     /\ UNCHANGED <<part, sectionsVars, newsVars, navigationVars, orderedVars,
                    emailSettingsVars, contactVars, templatesVars, catalogueVars>>
  \/ /\ part = "navigation" /\ NavigationNext
     /\ UNCHANGED <<part, sectionsVars, newsVars, announcementsVars, orderedVars,
                    emailSettingsVars, contactVars, templatesVars, catalogueVars>>
  \/ /\ part = "ordered" /\ OrderedNext
     /\ UNCHANGED <<part, sectionsVars, newsVars, announcementsVars, navigationVars,
                    emailSettingsVars, contactVars, templatesVars, catalogueVars>>
  \/ /\ part = "email settings" /\ EmailSettingsNext
     /\ UNCHANGED <<part, sectionsVars, newsVars, announcementsVars, navigationVars,
                    orderedVars, contactVars, templatesVars, catalogueVars>>
  \/ /\ part = "contact" /\ ContactNext
     /\ UNCHANGED <<part, sectionsVars, newsVars, announcementsVars, navigationVars,
                    orderedVars, emailSettingsVars, templatesVars, catalogueVars>>
  \/ /\ part = "templates" /\ TemplatesNext
     /\ UNCHANGED <<part, sectionsVars, newsVars, announcementsVars, navigationVars,
                    orderedVars, emailSettingsVars, contactVars, catalogueVars>>
  \/ /\ part = "catalogue" /\ CatalogueNext
     /\ UNCHANGED <<part, sectionsVars, newsVars, announcementsVars, navigationVars,
                    orderedVars, emailSettingsVars, contactVars, templatesVars>>

OfficeSpec ==
  /\ OfficeInit
  /\ [][OfficeNext]_<<part, sectionsVars, newsVars, announcementsVars, navigationVars,
                      orderedVars, emailSettingsVars, contactVars, templatesVars,
                      catalogueVars>>

-----------------------------------------------------------------------------
(* What the components promise, by kind of promise *)

\* The types of all of them but the ordered lists, and what an article's date
\* says of its publication.
OfficeOK ==
  /\ part = "sections" => SectionsTypeOK
  /\ part = "news" => NewsTypeOK /\ DatedWhilePublished
  /\ part = "navigation" => NavigationTypeOK
  /\ part = "email settings" => EmailSettingsTypeOK
  /\ part = "contact" => ContactTypeOK
  /\ part = "templates" => TemplatesTypeOK
  /\ part = "catalogue" => CatalogueTypeOK

\* A request changes what its author meant to change and nothing else: not the
\* settings nobody typed, not the publication of an article whose words are
\* edited, not the wording the association gave a template, not a field or a
\* language of the catalogue; and nothing leaves the menu that nobody moved.
OnlyOnPurpose ==
  OnlyTypedIsChanged /\ EditLeavesPublication /\ WordingKept /\ CatalogueKept /\ LeavesForCause

\* No screen leaves anything behind: no template in force without words, and no
\* file of the catalogue stored for a form that was closed.
TidyOffice == TemplatesHold /\ FewStrays

\* A row leaves its place only for a cause, and no list shows a row twice or
\* one that was never created, so that its order can be sent as it is shown.
ListsHold == OrderFollows /\ []OrderedTypeOK
=============================================================================
