------------------------------- MODULE Indexing -------------------------------
(***************************************************************************)
(* What a search engine is told.  The sitemap lists addresses; the server  *)
(* answers each of them with the application's shell, whose head it writes *)
(* from the published settings and the article at that address; and in the *)
(* browser the Seo component writes the same head again, and once more for *)
(* every page its visitor moves to.  The shell is fetched from the other   *)
(* container and kept for Ttl ticks, and nginx answers with the built file *)
(* when the API does not.                                                  *)
(*                                                                         *)
(* A text is the set of the languages it is written in, and what a reader  *)
(* is given of it is the language it came out in.  Of the head the model   *)
(* keeps the canonical, the request to be indexed, the name of the page,   *)
(* the name of the site and the picture; the alternates follow the         *)
(* canonical, and the rest follows these.  A definition whose name starts  *)
(* with M_ is a mutated form of the one after it.                          *)
(***************************************************************************)
EXTENDS Naturals

CONSTANTS
  Listed,      \* the static routes of the sitemap
  Front,       \* the home page, one of them
  Pictured,    \* those whose page has a picture of its own
  Private,     \* the pages of one person: confirming and leaving the newsletter
  Elsewhere,   \* addresses the router does not publish
  Slug,        \* the articles
  StudiedSeo,  \* the values of the seo section
  StudiedPost, \* the values of an article
  Visited,     \* bound: the addresses the tab visits
  Ttl,         \* how long a shell is kept
  MaxWait,     \* how long a view is waited for before nginx gives it up
  MaxViews,    \* bound: pages the tab opens or moves to
  MaxRevisions, \* bound: changes to the settings and the articles
  MaxDeploys,  \* bound: builds of the frontend after the first
  NoPage,      \* no page, and nothing fetched
  Missing      \* the answer 404 to an article

Route  == Listed \cup Private \cup Elsewhere \cup Slug
Tongue == {"fr", "ar"}
Words  == SUBSET Tongue

\* An address as a visitor has it: a trailing slash, or an article's id in place
\* of its slug, are further forms of the same page.
Address ==
  {a \in [path : Route, lang : Tongue, form : {"plain", "slash", "id"}] :
     a.form = "id" => a.path \in Slug}

ASSUME RouteAssumption ==
  /\ Front \in Listed /\ Pictured \subseteq Listed /\ Visited \subseteq Address
  /\ Listed \cap (Private \cup Elsewhere \cup Slug) = {}
  /\ Private \cap (Elsewhere \cup Slug) = {} /\ Elsewhere \cap Slug = {}
  /\ Route \cap {"none", "site"} = {}
\* A shell is kept, and a view waited for, at least a tick: a tick is as short
\* as one likes.
ASSUME TtlAssumption == Ttl \in Nat \ {0} /\ MaxWait \in Nat \ {0}
ASSUME IndexingBounds == MaxViews \in Nat /\ MaxRevisions \in Nat /\ MaxDeploys \in Nat

Post == [published : BOOLEAN, archived : BOOLEAN, date : {"none", "past", "future"},
         title : Words, image : BOOLEAN]

\* The published seo section over its defaults: a section stored before a route
\* existed has no entry for it ("none").
Seo == [title : Words, image : BOOLEAN, pages : [Listed -> Words \cup {{"none"}}]]
NoEntry == {"none"}

ASSUME StudiedAssumption == StudiedSeo \subseteq Seo /\ StudiedPost \subseteq Post
ASSUME AbsentAssumption ==
  NoPage \notin Address \cup Seo \cup Post /\ Missing \notin Post /\ NoPage \notin Nat

Name == Tongue \cup {"none", "own"}

\* A picture and the file it is given as: the upload, or its render of 1280 px.
PictureOf == [of : Route \cup {"none", "site"}, file : {"upload", "render"}]
AsUploaded(of) == [of |-> of, file |-> "upload"]
AsRendered(of) == [of |-> of, file |-> "render"]

VARIABLES
  seo,       \* the published seo section
  post,      \* the articles
  build,     \* the build of the frontend now
  replaced,  \* per earlier build, the ticks since it was replaced
  kept,      \* the shell the API keeps: its build and its age, or NoPage
  at,        \* the address the tab shows or waits for, or NoPage
  step,      \* "closed", "asked", "served", "live"
  shell,     \* the build of this view's shell, or NoPage while it has none
  waited,    \* the ticks since this view was asked for
  outlived,  \* how long its build had been replaced when it was answered
  fetchedSeo, \* the settings this tab has fetched, or NoPage
  got,       \* per article, what this tab has fetched: NoPage, Missing or a Post
  head,      \* the head of the document
  views, revisions

indexingVars == <<seo, post, build, replaced, kept, at, step, shell, waited, outlived,
                  fetchedSeo, got, head, views, revisions>>
cmsVars   == <<seo, post>>
timeVars  == <<build, replaced, kept>>
viewVars  == <<shell, waited, outlived>>
pageVars  == <<at, step, fetchedSeo, got, head, views>>

-----------------------------------------------------------------------------
(* Texts and what is open *)

\* With the French as a fallback, on both sides.
ReadLocalized(w, l) == IF l \in w THEN l ELSE IF "fr" \in w THEN "fr" ELSE "none"
\* Without it: what the browser does with the name of the site.
Localized(w, l) == IF l \in w THEN l ELSE "none"

ReachablePost(p) == p.published /\ p.date # "future"

-----------------------------------------------------------------------------
(* The server *)

\* collect: the addresses of the sitemap, each in both languages.
InSitemap ==
  Listed \cup {s \in Slug : post[s].published /\ ~post[s].archived /\ post[s].date = "past"}

\* addressFor, of the path normalisePath has left.
Canonical(p, l, f) == [path |-> p, lang |-> l, form |-> f]
NormalisedForm(f) == IF f = "slash" THEN "plain" ELSE f

\* resolve: an article is found by its slug only.
Found(a) ==
  \/ a.path \in Slug /\ a.form # "id" /\ ReachablePost(post[a.path])
  \/ a.path \in Private
  \/ a.path \in Listed /\ seo.pages[a.path] # NoEntry
Status(a) == IF Found(a) THEN 200 ELSE 404
NoIndex(a) ==
  \/ Status(a) = 404 \/ a.path \in Private
  \/ a.path \in Slug /\ post[a.path].archived

OwnName(a) ==
  CASE ~Found(a)           -> "none"
    [] a.path \in Slug     -> ReadLocalized(post[a.path].title, a.lang)
    [] a.path \in Private  -> "own"
    [] OTHER               -> ReadLocalized(seo.pages[a.path], a.lang)

ServerHead(a) ==
  [canonical |-> Canonical(a.path, a.lang, NormalisedForm(a.form)),
   index     |-> ~NoIndex(a),
   name      |-> OwnName(a),
   site      |-> ReadLocalized(seo.title, a.lang),
   image     |-> IF Found(a) /\ a.path \in Slug /\ post[a.path].image THEN AsRendered(a.path)
                 ELSE AsUploaded(IF seo.image THEN "site" ELSE "none")]

\* index.html as it is built: the home page's head, and no canonical.
StaticHead ==
  [canonical |-> NoPage, index |-> TRUE, name |-> "none", site |-> "fr",
   image |-> AsUploaded("none")]

-----------------------------------------------------------------------------
(* The browser *)

\* A page of the tab has a Seo component, unless it is an article that is still
\* loading, could not be fetched or is not there.
HasSeo(a, g) == a # NoPage /\ (a.path \in Slug => g[a.path] \notin {NoPage, Missing})

\* What the page passes to it.
PropName(a, g) ==
  CASE a.path \in Slug -> ReadLocalized(g[a.path].title, a.lang)
    [] a.path = Front  -> "none"
    [] OTHER           -> "own"
PropNoIndex(a, g) ==
  \/ a.path \in Private \cup Elsewhere
  \/ a.path \in Slug /\ g[a.path].archived
PropImage(a, g, k) ==
  CASE a.path \in Slug     -> AsUploaded(IF g[a.path].image THEN a.path ELSE "none")
    [] a.path \in Pictured -> AsUploaded(IF k # NoPage /\ k.image THEN "site" ELSE a.path)
    [] OTHER               -> AsUploaded("none")

\* The saved entry of this exact path.
Saved(a, k) ==
  IF k # NoPage /\ a.path \in Listed /\ a.form = "plain" /\ k.pages[a.path] # NoEntry
  THEN k.pages[a.path] ELSE {}

\* The robots tag is written on every page, also to take back a refusal.
M_OnlyRefuses(a, g, h) == ~PropNoIndex(a, g) /\ h.index
Robots(a, g, h) == ~PropNoIndex(a, g)

\* The effect of Seo over the head h: every tag is written again, but the
\* picture's, which is left as it is when this page has none.
HeadAfter(a, k, g, h) ==
  IF ~HasSeo(a, g) THEN h
  ELSE LET own   == ReadLocalized(Saved(a, k), a.lang)
           site  == IF k = NoPage THEN "none" ELSE Localized(k.title, a.lang)
           image == PropImage(a, g, k)
       IN [canonical |-> Canonical(a.path, a.lang, a.form),
           index     |-> Robots(a, g, h),
           name      |-> IF own = "none" THEN PropName(a, g) ELSE own,
           site      |-> site,
           image     |-> IF image.of # "none" THEN image
                         ELSE IF k # NoPage /\ k.image THEN AsUploaded("site") ELSE h.image]

\* React writes the head after every render of the page that is on screen.
Rendered == head' = IF step' = "live" THEN HeadAfter(at', fetchedSeo', got', head) ELSE head

-----------------------------------------------------------------------------
(* A view: the request, the shell, the answer, the application's start *)

ShellIsFresh == kept # NoPage /\ kept.age < Ttl

\* Whoever comes in looks at the shell first: one that is kept and fresh is
\* taken, otherwise it is fetched.
Opens ==
  /\ step = "closed" /\ views < MaxViews
  /\ \E a \in Visited : at' = a
  /\ step' = "asked" /\ views' = views + 1
  /\ shell' = IF ShellIsFresh THEN kept.build ELSE NoPage
  /\ waited' = 0
  /\ UNCHANGED <<cmsVars, timeVars, outlived, fetchedSeo, got, head, revisions>>
\* What comes back is kept from the instant it was asked for.
ShellFetched ==
  /\ step = "asked" /\ shell = NoPage
  /\ kept' = [build |-> build, age |-> waited] /\ shell' = build
  /\ UNCHANGED <<cmsVars, build, replaced, waited, outlived, pageVars, revisions>>
\* Another visitor's view, in the same process.
SomeoneElseViews ==
  /\ step \in {"closed", "asked"} /\ ~ShellIsFresh
  /\ kept' = [build |-> build, age |-> 0]
  /\ UNCHANGED <<cmsVars, build, replaced, viewVars, pageVars, revisions>>

\* The page is answered, from the settings and the articles as they are now.
Answered ==
  /\ step = "asked" /\ shell # NoPage
  /\ step' = "served" /\ head' = ServerHead(at)
  /\ outlived' = IF shell = build THEN 0 ELSE replaced[shell]
  /\ UNCHANGED <<cmsVars, timeVars, shell, waited, at, fetchedSeo, got, views, revisions>>
\* The fetch fails, or the API does not answer in time: nginx has the file.
FallsBack ==
  /\ step = "asked"
  /\ step' = "served" /\ head' = StaticHead /\ shell' = NoPage
  /\ UNCHANGED <<cmsVars, timeVars, waited, outlived, at, fetchedSeo, got, views, revisions>>
Starts ==
  /\ step = "served" /\ step' = "live"
  /\ shell' = NoPage /\ waited' = 0 /\ outlived' = 0
  /\ UNCHANGED <<cmsVars, timeVars, at, fetchedSeo, got, views, revisions>> /\ Rendered

\* The application goes on, to another page or another language, with what it
\* has fetched.
Follows ==
  /\ step = "live" /\ views < MaxViews
  /\ \E a \in Visited \ {at} : at' = a
  /\ views' = views + 1
  /\ UNCHANGED <<cmsVars, timeVars, viewVars, step, fetchedSeo, got, revisions>> /\ Rendered
SettingsArrive ==
  /\ step = "live" /\ fetchedSeo' = seo
  /\ UNCHANGED <<cmsVars, timeVars, viewVars, at, step, got, views, revisions>> /\ Rendered
\* The public article, found by its slug or by its id.
ArticleArrives ==
  /\ step = "live" /\ at.path \in Slug
  /\ got' = [got EXCEPT ![at.path] = IF ReachablePost(post[at.path]) THEN post[at.path]
                                     ELSE Missing]
  /\ UNCHANGED <<cmsVars, timeVars, viewVars, at, step, fetchedSeo, views, revisions>> /\ Rendered

ClosesTab ==
  /\ step = "live" /\ step' = "closed" /\ at' = NoPage
  /\ fetchedSeo' = NoPage /\ got' = [s \in Slug |-> NoPage] /\ head' = StaticHead
  /\ UNCHANGED <<cmsVars, timeVars, viewVars, views, revisions>>

-----------------------------------------------------------------------------
(* The office, the clock, the deployments *)

PublishesSeo ==
  /\ revisions < MaxRevisions /\ revisions' = revisions + 1
  /\ seo' \in StudiedSeo \ {seo}
  /\ UNCHANGED <<post, timeVars, viewVars, pageVars>>
RevisesPost ==
  /\ revisions < MaxRevisions /\ revisions' = revisions + 1
  /\ \E s \in Slug : \E p \in StudiedPost \ {post[s]} : post' = [post EXCEPT ![s] = p]
  /\ UNCHANGED <<seo, timeVars, viewVars, pageVars>>
DateComes ==
  /\ \E s \in Slug : /\ post[s].date = "future"
                     /\ post' = [post EXCEPT ![s].date = "past"]
  /\ UNCHANGED <<seo, timeVars, viewVars, pageVars, revisions>>

\* Nothing tells apart what is older than this.
Oldest == Ttl + MaxWait
Older(n) == IF n < Oldest THEN n + 1 ELSE n

\* The clock, and the container of the frontend, move while no page of the tab
\* is on screen: nothing there depends on them.  A view is answered, or given
\* up, before it has waited any longer than nginx waits for the API.
Tick ==
  /\ step = "closed" \/ (step = "asked" /\ waited < MaxWait)
  /\ kept # NoPage \/ build > 0 \/ step = "asked"
  /\ replaced' = [b \in DOMAIN replaced |-> IF b < build THEN Older(replaced[b]) ELSE 0]
  /\ kept' = IF kept = NoPage THEN NoPage ELSE [kept EXCEPT !.age = Older(kept.age)]
  /\ waited' = IF step = "asked" THEN waited + 1 ELSE 0
  /\ UNCHANGED <<cmsVars, build, shell, outlived, pageVars, revisions>>
Deploys ==
  /\ step \in {"closed", "asked"}
  /\ build < MaxDeploys /\ build' = build + 1
  /\ UNCHANGED <<cmsVars, replaced, kept, viewVars, pageVars, revisions>>

IndexingInit ==
  /\ seo \in StudiedSeo /\ post \in [Slug -> StudiedPost]
  /\ build = 0 /\ replaced = [b \in 0..MaxDeploys |-> 0] /\ kept = NoPage
  /\ at = NoPage /\ step = "closed" /\ shell = NoPage /\ waited = 0 /\ outlived = 0
  /\ fetchedSeo = NoPage /\ got = [s \in Slug |-> NoPage] /\ head = StaticHead
  /\ views = 0 /\ revisions = 0

IndexingNext ==
  \/ Opens \/ ShellFetched \/ SomeoneElseViews \/ Answered \/ FallsBack \/ Starts
  \/ Follows \/ SettingsArrive \/ ArticleArrives \/ ClosesTab
  \/ PublishesSeo \/ RevisesPost \/ DateComes \/ Tick \/ Deploys

IndexingSpec == IndexingInit /\ [][IndexingNext]_indexingVars

-----------------------------------------------------------------------------
(* Properties *)

HeadType ==
  [canonical : Address \cup {NoPage}, index : BOOLEAN, name : Name,
   site : Tongue \cup {"none"}, image : PictureOf]

IndexingTypeOK ==
  /\ seo \in Seo /\ post \in [Slug -> Post]
  /\ build \in 0..MaxDeploys /\ replaced \in [0..MaxDeploys -> 0..Oldest]
  /\ kept \in [build : 0..MaxDeploys, age : 0..Oldest] \cup {NoPage}
  /\ at \in Address \cup {NoPage} /\ step \in {"closed", "asked", "served", "live"}
  /\ shell = NoPage \/ shell \in 0..MaxDeploys
  /\ waited \in 0..MaxWait /\ outlived \in 0..Oldest
  /\ fetchedSeo \in Seo \cup {NoPage} /\ head \in HeadType
  /\ \A s \in Slug : got[s] \in {NoPage, Missing} \cup Post
  /\ views \in 0..MaxViews /\ revisions \in 0..MaxRevisions

Plain(p, l) == Canonical(p, l, "plain")

\* "A sitemap that lists 404s is a sitemap Search Console reports as broken":
\* every address of the sitemap answers 200, asks to be indexed and names
\* itself, as long as the stored section has every route of the sitemap.
ListedIsIndexed ==
  \A p \in InSitemap, l \in Tongue :
    p \in Slug \/ seo.pages[p] # NoEntry =>
      LET h == ServerHead(Plain(p, l))
      IN Status(Plain(p, l)) = 200 /\ h.index /\ h.canonical = Plain(p, l)

\* The tab shows what the settings and the article are now.
UpToDate ==
  /\ step = "live" /\ fetchedSeo = seo /\ HasSeo(at, got)
  /\ at.path \in Slug => got[at.path] = post[at.path] /\ ReachablePost(post[at.path])

\* "A crawler and a visitor who navigated here from another page have to
\* agree": at a plain address, whatever page came before, the head the browser
\* has written is the one the server would write - what it asks of a crawler,
\* where it sends it, and on a page that is indexed the names, as far as the
\* office has given them in French or in this language.  The picture is of the
\* same thing, but an article's is not the same file (SameFile).
HeadsAgree ==
  UpToDate /\ at.form = "plain" /\ (at.path \in Listed => seo.pages[at.path] # NoEntry) =>
    LET h == ServerHead(at)
    IN /\ head.index = h.index /\ head.canonical = h.canonical
       /\ h.index /\ (h.name # "none" \/ at.path \in Slug \cup {Front}) => head.name = h.name
       /\ at.lang \in seo.title => head.site = h.site
       /\ h.image.of # "none" => head.image.of = h.image.of

\* A page that is nobody else's business, and an address that is no page, never
\* ask to be indexed under their own name, whoever wrote the head.
PrivateStaysPrivate ==
  head.index /\ head.canonical # NoPage => head.canonical.path \in Listed \cup Slug

\* "The window is the only time a visitor could be served the previous build's
\* asset hashes": a page is never answered with a build that was replaced
\* longer ago than the window and the time its view was waited for.
ShellIsRecent == outlived < Ttl + MaxWait

\* All four: what a search engine is told is so, whoever tells it.
IndexingHolds == ListedIsIndexed /\ HeadsAgree /\ PrivateStaysPrivate /\ ShellIsRecent

-----------------------------------------------------------------------------
(* What does not hold of this code (see the README) *)

\* The two heads agree at every form of an address and for every stored section.
AlwaysAgree ==
  UpToDate => head.index = ServerHead(at).index /\ head.canonical = ServerHead(at).canonical

\* The two heads give the same file for the picture.
SameFile == UpToDate /\ ServerHead(at).image.of # "none" => head.image = ServerHead(at).image

\* A page is never answered with a build that was replaced a whole window ago.
WindowIsAll == outlived < Ttl

\* A page is never shared with the picture of the page before it.
PictureIsItsOwn ==
  step = "live" /\ HasSeo(at, got) => head.image.of \in {at.path, "site", "none"}
=============================================================================
