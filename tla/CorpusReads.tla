---------------------------- MODULE CorpusReads ----------------------------
(***************************************************************************)
(* Who reads the analysed articles of                                      *)
(* src/src/commerce_agent/intelligence: the daily report, which picks one  *)
(* analysis of each event (reports.py), and the search behind a question,  *)
(* which reads page after page (retrieval.py).  Both resolve platforms of  *)
(* older versions on the way and store them (_platforms_by_version of      *)
(* repository.py), while articles are stored, analysed, linked to the      *)
(* analysis of a copy, withdrawn and redacted and the registry changes.    *)
(* An action is one transaction.                                           *)
(***************************************************************************)
EXTENDS Integers, FiniteSets, Sequences, SequencesExt

CONSTANTS
  Articles,      \* document versions, numbers in the order of their ids
  Article,       \* of each: feed, content, event, official, risk, score, fetched, due (in the
                 \* report's window), hits (of the question), mentions (platforms named in the body)
  StoredBefore,  \* articles stored before platforms were kept per version
  Registries,    \* registries a process may start with: offers (platforms of a feed), gated
                 \* (feeds whose platforms vary by article)
  Platforms,
  Priority,      \* of each platform in a report
  Questions,     \* platform filters of questions; the empty one is no filter
  MaxItems,      \* items of a report
  PageSize, MaxResults

ASSUME ArticlesAssumption ==
  /\ Articles \subseteq Nat /\ IsFiniteSet(Articles) /\ StoredBefore \subseteq Articles
  /\ \A v \in Articles :
       /\ {Article[v].risk, Article[v].score, Article[v].fetched, Article[v].hits} \subseteq Nat
       /\ Article[v].official \in BOOLEAN
       /\ \A r \in Registries : r.offers[Article[v].feed] \subseteq Platforms
  /\ IsFiniteSet(Platforms) /\ Priority \in [Platforms -> Nat]
  /\ MaxItems \in Nat /\ MaxResults \in Nat /\ PageSize \in Nat \ {0}

VARIABLES
  known,         \* articles stored
  rows,          \* platforms stored with each article
  resolved,      \* articles whose platforms have been resolved
  redacted,      \* articles whose body has expired
  analysisId,    \* of each article, in the order of completion; 0 before
  links,         \* analysis_duplicates: articles with the article whose analysis speaks for them
  withdrawn,     \* superseded by another version, or the source denied
  registry,
  search,        \* the search under way
  steady         \* history: articles that have matched the search in every state since it began

readVars == <<known, rows, resolved, redacted, analysisId, links, withdrawn, registry, search, steady>>

NoSearch == [on |-> FALSE, asked |-> {}, before |-> <<>>, ranked |-> <<>>]

ReadInit ==
  /\ known = StoredBefore
  /\ rows = [v \in Articles |-> {}]
  /\ resolved = {} /\ redacted = {} /\ links = {} /\ withdrawn = {}
  /\ analysisId = [v \in Articles |-> 0]
  /\ registry \in Registries
  /\ search = NoSearch /\ steady = {}

Gated(v) == Article[v].feed \in registry.gated
Offered(v) == registry.offers[Article[v].feed]

\* A body that has expired names no platform.
Matched(v) == IF v \in redacted THEN {} ELSE Article[v].mentions \cap Offered(v)

----------------------------------------------------------------------------
(***************************************************************************)
(* Platforms.                                                              *)
(***************************************************************************)

Unresolved(vs) == {v \in vs : rows[v] = {} /\ v \notin resolved /\ Gated(v)}

\* _platforms_by_version: stored platforms stand; those of an older article of a gated feed
\* are matched in its body, once, and stored.
RowsAfter(vs) ==
  [v \in Articles |-> IF v \in Unresolved(vs) THEN Matched(v) ELSE rows[v]]
ResolvedAfter(vs) == resolved \cup Unresolved(vs)
PlatformsOf(v, stored) ==
  IF stored[v] # {} THEN stored[v] ELSE IF Gated(v) THEN {} ELSE Offered(v)

\* _backfill_unresolved_article_platforms: every article without a resolution, of any feed
\* that is gated.
Backlog == {v \in known : v \notin resolved /\ Gated(v)}

\* Candidates of a report and of a search alike.
Readable == {v \in known : analysisId[v] > 0 /\ v \notin withdrawn}

----------------------------------------------------------------------------
(***************************************************************************)
(* The report.                                                             *)
(***************************************************************************)
RankKey(v, platforms) ==
  LET prio == {Priority[p] : p \in platforms}
  IN <<Article[v].risk, IF prio = {} THEN 0 ELSE Max(prio), Article[v].score,
       IF Article[v].official THEN 1 ELSE 0, Article[v].fetched, analysisId[v]>>

Above(a, b) == \E n \in DOMAIN a : a[n] > b[n] /\ \A k \in 1..(n - 1) : a[k] = b[k]

\* The elements of a set in the order of a relation.
Ordered(S, R) == CHOOSE s \in SetToSeqs(S) : \A i, j \in DOMAIN s : i < j => <<s[i], s[j]>> \in R

Events(vs) == {Article[v].event : v \in vs}
OfEvent(vs, e) == {v \in vs : Article[v].event = e}

\* An item of list_report_analyses has the platforms of its article and those stored with
\* the articles linked to it, from whatever source.
ReportPlatforms(v, stored) ==
  PlatformsOf(v, stored) \cup UNION {stored[link[1]] : link \in {l \in links : l[2] = v}}

ItemKey(v, stored) == RankKey(v, ReportPlatforms(v, stored))

\* _preferred_event_item: the best official analysis, or the best ...
Representative(vs, stored) ==
  LET official == {v \in vs : Article[v].official}
      pool     == IF official = {} THEN vs ELSE official
  IN CHOOSE v \in pool : \A u \in pool \ {v} : Above(ItemKey(v, stored), ItemKey(u, stored))

\* ... which is ranked with the platforms of all the event's analyses.
EventKey(v, vs, stored) ==
  RankKey(v, UNION {ReportPlatforms(u, stored) : u \in OfEvent(vs, Article[v].event)})

\* Mutant: what is linked adds no platform to the rank.
FirstByOwn(representatives, vs, stored) ==
  LET key(v) == RankKey(v, UNION {PlatformsOf(u, stored) : u \in OfEvent(vs, Article[v].event)})
  IN Ordered(representatives,
             {p \in representatives \X representatives : Above(key(p[1]), key(p[2]))})

BestFirst(representatives, vs, stored) ==
  Ordered(representatives,
         {p \in representatives \X representatives :
            Above(EventKey(p[1], vs, stored), EventKey(p[2], vs, stored))})

Representatives(vs, stored) == {Representative(OfEvent(vs, e), stored) : e \in Events(vs)}

\* compose.
Compose(vs, stored) ==
  LET representatives == Representatives(vs, stored)
  IN SubSeq(BestFirst(representatives, vs, stored), 1,
            Min({MaxItems, Cardinality(representatives)}))

----------------------------------------------------------------------------
(***************************************************************************)
(* The search.                                                             *)
(***************************************************************************)

\* The platform filter of list_corpus_candidates, after the backfill.
AskedFor(v, asked, stored) ==
  asked = {} \/ IF stored[v] # {} THEN stored[v] \cap asked # {}
                ELSE ~Gated(v) /\ Offered(v) \cap asked # {}

Findable(asked, stored) == {v \in Readable : AskedFor(v, asked, stored)}

PageKey(v) == <<Article[v].fetched, analysisId[v]>>

\* Mutant: a page starts with the last row of the one before.
NotAfter(v, before) == before = <<>> \/ PageKey(v) = before \/ Above(before, PageKey(v))

Older(v, before) == before = <<>> \/ Above(before, PageKey(v))

Page(asked, before, stored) ==
  LET all    == {v \in Findable(asked, stored) : Older(v, before)}
      sorted == Ordered(all, {p \in all \X all : Above(PageKey(p[1]), PageKey(p[2]))})
  IN SubSeq(sorted, 1, Min({PageSize, Cardinality(all)}))

\* _ranking_key; freshness falls with age, so it orders articles as their times do.
ResultKey(v) ==
  <<Article[v].hits, Article[v].risk, Article[v].score, Article[v].fetched, analysisId[v], v>>

\* The places of a sequence that hold a hit, the best first.
Hits(items) ==
  LET places == {i \in DOMAIN items : Article[items[i]].hits > 0}
  IN Ordered(places, {p \in places \X places :
                       \/ Above(ResultKey(items[p[1]]), ResultKey(items[p[2]]))
                       \/ items[p[1]] = items[p[2]] /\ p[1] < p[2]})

Ranked(items) ==
  LET hits == Hits(items)
  IN [n \in 1..Min({MaxResults, Len(hits)}) |-> items[hits[n]]]

\* The articles that match the search in this state.
Matching == IF search.on THEN {v \in Findable(search.asked, rows) : Article[v].hits > 0} ELSE {}

----------------------------------------------------------------------------
(***************************************************************************)
(* Actions.                                                                *)
(***************************************************************************)

\* What a search in progress still finds after this step.
Witness == steady' = steady \cap Matching'

\* persist_version: the platforms the collector has matched, those stored, or the feed's.
\* Of the ways it raises, other platforms than those stored.
PersistArticle(v, given) ==
  LET platforms == IF given # {} THEN given
                   ELSE IF rows[v] # {} THEN rows[v]
                   ELSE IF ~Gated(v) THEN Offered(v)
                   ELSE IF v \in resolved THEN {} ELSE Matched(v)
  IN /\ v \in known \/ ~Gated(v) \/ given # {}
     /\ rows[v] = {} \/ rows[v] = platforms
     /\ known' = known \cup {v}
     /\ rows' = [rows EXCEPT ![v] = platforms]
     /\ resolved' = resolved \cup {v}
     /\ UNCHANGED <<redacted, analysisId, links, withdrawn, registry, search>>
     /\ Witness

Linked(v) == \E link \in links : link[1] = v

\* complete_analysis.
CompleteArticle(v) ==
  /\ v \in known \ redacted /\ analysisId[v] = 0 /\ ~Linked(v)
  /\ analysisId' = [analysisId EXCEPT ![v] = 1 + Max({analysisId[u] : u \in Articles})]
  /\ UNCHANGED <<known, rows, resolved, redacted, links, withdrawn, registry, search>>
  /\ Witness

\* An analysis of the content of v, for all _link_completed_duplicates can tell: it goes by
\* the documents, and a superseded article's document has another content by now.
MayBeCopy(u, v) ==
  u # v /\ analysisId[u] > 0 /\ (Article[u].content = Article[v].content \/ {u, v} \cap withdrawn # {})

\* A due job is settled by a link to the first analysis of its content.
LinkArticle(v) ==
  /\ v \in known \ redacted /\ analysisId[v] = 0 /\ ~Linked(v)
  /\ \E u \in Articles :
       /\ MayBeCopy(u, v)
       /\ \A w \in Articles : MayBeCopy(w, v) /\ {v, w} \cap withdrawn = {} => analysisId[u] <= analysisId[w]
       /\ links' = links \cup {<<v, u>>}
  /\ UNCHANGED <<known, rows, resolved, redacted, analysisId, withdrawn, registry, search>>
  /\ Witness

WithdrawArticle(v) ==
  /\ v \in known \ withdrawn
  /\ withdrawn' = withdrawn \cup {v}
  /\ UNCHANGED <<known, rows, resolved, redacted, analysisId, links, registry, search>>
  /\ Witness

\* Retention redacts media.
RedactArticle(v) ==
  /\ v \in known \ redacted /\ ~Article[v].official
  /\ redacted' = redacted \cup {v}
  /\ UNCHANGED <<known, rows, resolved, analysisId, links, withdrawn, registry, search>>
  /\ Witness

\* sync_sources of a process that starts with another registry.
SyncRegistry(r) ==
  /\ r # registry
  /\ registry' = r
  /\ UNCHANGED <<known, rows, resolved, redacted, analysisId, links, withdrawn, search>>
  /\ Witness

\* build: what would be listed has its platforms resolved, and the report is composed.
Listable == {v \in Readable : Article[v].due /\ Article[v].score >= 60}
Draft ==
  LET after == RowsAfter(Listable)
  IN Compose({v \in Listable : PlatformsOf(v, after) # {}}, after)

BuildDraft ==
  /\ rows' = RowsAfter(Listable) /\ resolved' = ResolvedAfter(Listable)
  /\ UNCHANGED <<known, redacted, analysisId, links, withdrawn, registry, search>>
  /\ Witness

\* CorpusRetriever.search.
StartSearch(asked) ==
  /\ ~search.on
  /\ search' = [NoSearch EXCEPT !.on = TRUE, !.asked = asked]
  /\ UNCHANGED <<known, rows, resolved, redacted, analysisId, links, withdrawn, registry>>
  /\ steady' = Matching'

\* One page; the search ends with a short page, or one that leads no further, and answers
\* with what is ranked by then.
NextPage == Page(search.asked, search.before, RowsAfter(Backlog))
LastPage == Len(NextPage) < PageSize \/ PageKey(Last(NextPage)) = search.before
SoFar == Ranked(search.ranked \o NextPage)

SearchPage ==
  /\ search.on
  /\ rows' = RowsAfter(Backlog) /\ resolved' = ResolvedAfter(Backlog)
  /\ search' = IF LastPage THEN NoSearch
               ELSE [search EXCEPT !.ranked = SoFar, !.before = PageKey(Last(NextPage))]
  /\ UNCHANGED <<known, redacted, analysisId, links, withdrawn, registry>>
  /\ Witness

ReadNext ==
  \/ \E v \in Articles : \/ CompleteArticle(v) \/ LinkArticle(v) \/ WithdrawArticle(v) \/ RedactArticle(v)
                         \/ \E given \in IF Gated(v) THEN SUBSET Offered(v) ELSE {{}} : PersistArticle(v, given)
  \/ \E r \in Registries : SyncRegistry(r)
  \/ \E asked \in Questions : StartSearch(asked)
  \/ BuildDraft \/ SearchPage

ReadSpec == ReadInit /\ [][ReadNext]_readVars

----------------------------------------------------------------------------
(***************************************************************************)
(* Properties.                                                             *)
(***************************************************************************)
ReadTypeOK ==
  /\ known \subseteq Articles /\ resolved \subseteq known
  /\ redacted \subseteq known /\ withdrawn \subseteq known /\ links \subseteq known \X known
  /\ rows \in [Articles -> SUBSET Platforms]
  /\ analysisId \in [Articles -> 0..Cardinality(Articles)]
  /\ registry \in Registries
  /\ search.on \in BOOLEAN /\ Len(search.ranked) <= MaxResults
  /\ steady \subseteq known

\* What speaks for an event: an official analysis if there is any, and the highest of those.
Speaks(v, vs, stored) ==
  \A u \in OfEvent(vs, Article[v].event) \ {v} :
    \/ Article[v].official /\ ~Article[u].official
    \/ Article[v].official = Article[u].official /\ Above(ItemKey(v, stored), ItemKey(u, stored))

\* A report has each event once, by what speaks for it, as many events as there are and
\* fit, the highest first, and leaves out no event that ranks above one it lists; an event
\* ranks with all platforms it is said to concern, in copies of its articles, too.  Neither
\* repetitions nor copies take another event's place.
ReportTops ==
  LET after  == RowsAfter(Listable)
      vs     == {v \in Listable : PlatformsOf(v, after) # {}}
      listed == ToSet(Draft)
      Before(v, u) == Above(EventKey(v, vs, after), EventKey(u, vs, after))
  IN /\ Cardinality(Events(listed)) = Len(Draft)
     /\ Len(Draft) = Min({MaxItems, Cardinality(Events(vs))})
     /\ \A v \in listed : v \in vs /\ Speaks(v, vs, after)
     /\ \A i, j \in DOMAIN Draft : i < j => Before(Draft[i], Draft[j])
     /\ \A e \in Events(vs) \ Events(listed) : \E u \in OfEvent(vs, e) :
          Speaks(u, vs, after) /\ \A v \in listed : Before(v, u)

SearchMatchesStep ==
  SearchPage /\ LastPage =>
    /\ Cardinality(ToSet(SoFar)) = Len(SoFar)
    /\ \A v \in steady \ ToSet(SoFar) :
         Len(SoFar) = MaxResults /\ \A u \in ToSet(SoFar) : Above(ResultKey(u), ResultKey(v))

\* A search names no article twice and misses none that matched from its first page to its
\* last, unless better ones fill the result, whatever is stored, analysed, withdrawn or
\* resolved between its pages.
SearchMatches == [][SearchMatchesStep]_readVars
=============================================================================
