---------------------------- MODULE NewsQueries ----------------------------
(***************************************************************************)
(* NewsSearchService (tools/news-search-mcp/src): the articles on a        *)
(* company, from the Tavily API or, in a server without a key for it, from *)
(* a table of four companies, and the signal derived from them.  An        *)
(* article is its sentiment and its signal type; Tavily is external.       *)
(***************************************************************************)
EXTENDS Sequences, Naturals

CONSTANTS
    Companies,      \* what a caller may ask for
    Curated,        \* the table: the articles on a company, <<>> if none
    MaxResults      \* max_results of the Tavily search

ASSUME NewsAssumption ==
    /\ DOMAIN Curated = Companies
    /\ MaxResults \in Nat

\* Tavily's articles are not classified.
TavilyArticles ==
    {[i \in 1..n |-> [sentiment |-> "neutral", type |-> "news"]] : n \in 0..MaxResults}

NothingKnown == <<[sentiment |-> "neutral", type |-> "no_news"]>>

CuratedArticles(company) ==
    IF Curated[company] = <<>> THEN NothingKnown ELSE Curated[company]

\* _derive_aggregate_signal
Some(articles, sentiment) == \E i \in DOMAIN articles : articles[i].sentiment = sentiment
Of(articles, types) == \E i \in DOMAIN articles : articles[i].type \in types

AggregateSignal(articles) ==
    CASE Some(articles, "negative") /\ Of(articles, {"leadership_change"}) -> "RISK: leadership"
      [] Some(articles, "negative") /\ Of(articles, {"financial_stress"})
            /\ ~Of(articles, {"leadership_change"}) -> "RISK: stress"
      [] OTHER ->
            IF Of(articles, {"acquisition", "expansion"}) THEN "OPPORTUNITY: growth"
            ELSE IF Of(articles, {"funding"}) THEN "OPPORTUNITY: funding"
            ELSE IF Some(articles, "positive") THEN "POSITIVE"
            ELSE IF articles = <<>> \/ articles[1].type = "no_news" THEN "NO_NEWS"
            ELSE "NEUTRAL"

NewsAnswer(articles) ==
    [kind |-> "news", count |-> Len(articles), signal |-> AggregateSignal(articles)]
=============================================================================
