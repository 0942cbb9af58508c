-------------------------------- MODULE News --------------------------------
(***************************************************************************)
(* News banners (internal/handlers/admin_news.go, internal/db/news.go) and *)
(* the list of active ones that every page shows, which the server keeps   *)
(* for 30 s (getCachedActiveNews, setup.go).  The list depends on the rows *)
(* and on the date; neither a change of a row nor midnight drops it.       *)
(*                                                                         *)
(* A tick of the clock is a fraction of the 30 s; a refresh takes less     *)
(* than one.  Colours, opacity and text are left out.                      *)
(***************************************************************************)
EXTENDS Naturals

CONSTANTS Banners,        \* rows of news_messages ever made (a bound)
          NewsDates,      \* dates, consecutive naturals
          DayOfMonth,     \* the day of the month of each date
          Windows,        \* start dates, end dates and whether they recur
          RefreshAge,     \* ticks a list is good for
          MaxNewsEdits    \* changes of news in a behaviour (a bound)

ASSUME NewsAssumption ==
    /\ NewsDates \subseteq Nat /\ NewsDates # {} /\ DayOfMonth \in [NewsDates -> Nat]
    /\ Windows \subseteq [from : NewsDates, to : NewsDates, recurring : BOOLEAN]
    /\ RefreshAge \in Nat \ {0} /\ MaxNewsEdits \in Nat

VARIABLES
    news,          \* news_messages: the window of each row, or no row
    newsDate,      \* today
    shownNews,     \* activeNewsVal: the window of each banner in the list
    newsAge,       \* ticks since activeNewsTime
    refresh,       \* the one refresh in progress: a lock admits no other
    newsEditsLeft, \* changes still to come
    (* History variables, never read by the code. *)
    rowPast,       \* ticks since each row was last so
    datePast       \* ticks since today was last each date

newsVars == <<news, newsDate, shownNews, newsAge, refresh, newsEditsLeft, rowPast, datePast>>

NoNews == [row |-> "none"]
Withdrawn == [row |-> "deleted"]
NoRefresh == [stage |-> "none"]
ShownList == [Banners -> Windows \cup {NoNews}]
NewsRows == Windows \cup {NoNews, Withdrawn}

NewsTypeOK ==
    /\ news \in [Banners -> NewsRows]
    /\ newsDate \in NewsDates
    /\ shownNews \in ShownList
    /\ newsAge \in 0 .. RefreshAge
    /\ refresh \in {NoRefresh} \cup [stage : {"rows"}, date : NewsDates]
                             \cup [stage : {"store"}, list : ShownList]
    /\ newsEditsLeft \in 0 .. MaxNewsEdits
    /\ rowPast \in [Banners -> [NewsRows -> 0 .. RefreshAge]]
    /\ datePast \in [NewsDates -> 0 .. RefreshAge]

(* The server starts with no list: activeNewsTime is the zero time.        *)
NewsInit ==
    /\ news = [b \in Banners |-> NoNews]
    /\ newsDate = CHOOSE d \in NewsDates : \A e \in NewsDates : d <= e
    /\ shownNews = [b \in Banners |-> NoNews]
    /\ newsAge = RefreshAge
    /\ refresh = NoRefresh
    /\ newsEditsLeft = MaxNewsEdits
    /\ rowPast = [b \in Banners |-> [w \in NewsRows |-> IF w = NoNews THEN 0 ELSE RefreshAge]]
    /\ datePast = [d \in NewsDates |-> IF d = newsDate THEN 0 ELSE RefreshAge]

-----------------------------------------------------------------------------
(* Changes of news.                                                        *)

(* A recurring window goes from a day of the month to a later one.         *)
ValidWindow(w) ==
    IF w.recurring THEN DayOfMonth[w.from] <= DayOfMonth[w.to] ELSE w.from <= w.to

EditNews(b, w) ==
    /\ newsEditsLeft > 0 /\ newsEditsLeft' = newsEditsLeft - 1
    /\ news' = [news EXCEPT ![b] = w]
    /\ rowPast' = [rowPast EXCEPT ![b][w] = 0]
    /\ UNCHANGED <<newsDate, shownNews, newsAge, refresh, datePast>>

CreateNews(b, w) == news[b] = NoNews /\ ValidWindow(w) /\ EditNews(b, w)

(* An update of a row that is gone changes nothing, and is answered ok.    *)
UpdateNews(b, w) == news[b] \in Windows /\ ValidWindow(w) /\ EditNews(b, w)

DeleteNews(b) == news[b] \in Windows /\ EditNews(b, Withdrawn)

Midnight ==
    /\ newsDate + 1 \in NewsDates
    /\ newsDate' = newsDate + 1
    /\ datePast' = [datePast EXCEPT ![newsDate + 1] = 0]
    /\ UNCHANGED <<news, shownNews, newsAge, refresh, newsEditsLeft, rowPast>>

-----------------------------------------------------------------------------
(* The list of active news.                                                *)

IsActive(w, date) ==
    IF w.recurring
    THEN DayOfMonth[w.from] <= DayOfMonth[date] /\ DayOfMonth[date] <= DayOfMonth[w.to]
    ELSE w.from <= date /\ date <= w.to

(* What a page shows of a row on a date.                                   *)
Banner(w, date) == IF w \in Windows /\ IsActive(w, date) THEN w ELSE NoNews

GetActiveNewsMessages(date) ==
    [b \in Banners |-> Banner(news[b], date)]

(* Whoever finds the list too old takes the lock and reads the clock.      *)
BeginRefresh ==
    /\ newsAge = RefreshAge /\ refresh = NoRefresh
    /\ refresh' = [stage |-> "rows", date |-> newsDate]
    /\ UNCHANGED <<news, newsDate, shownNews, newsAge, newsEditsLeft, rowPast, datePast>>

(* A failed read counts as a refresh.                                      *)
ReadOrRenew ==
    /\ refresh.stage = "rows"
    /\ \/ /\ refresh' = [stage |-> "store", list |-> GetActiveNewsMessages(refresh.date)]
          /\ UNCHANGED newsAge
       \/ refresh' = NoRefresh /\ newsAge' = 0
    /\ UNCHANGED <<news, newsDate, shownNews, newsEditsLeft, rowPast, datePast>>

(* A failed read leaves the list as it is, and as old.                     *)
ReadNews ==
    /\ refresh.stage = "rows"
    /\ \/ refresh' = [stage |-> "store", list |-> GetActiveNewsMessages(refresh.date)]
       \/ refresh' = NoRefresh
    /\ UNCHANGED <<news, newsDate, shownNews, newsAge, newsEditsLeft, rowPast, datePast>>

StoreNews ==
    /\ refresh.stage = "store"
    /\ shownNews' = refresh.list /\ newsAge' = 0
    /\ refresh' = NoRefresh
    /\ UNCHANGED <<news, newsDate, newsEditsLeft, rowPast, datePast>>

Older(ticks) == IF ticks < RefreshAge THEN ticks + 1 ELSE RefreshAge

NewsTick ==
    /\ refresh = NoRefresh
    /\ newsAge' = Older(newsAge)
    /\ rowPast' = [b \in Banners |-> [w \in NewsRows |->
                      IF w = news[b] THEN 0 ELSE Older(rowPast[b][w])]]
    /\ datePast' = [d \in NewsDates |-> IF d = newsDate THEN 0 ELSE Older(datePast[d])]
    /\ UNCHANGED <<news, newsDate, shownNews, refresh, newsEditsLeft>>

NewsNext ==
    \/ Midnight \/ BeginRefresh \/ ReadNews \/ StoreNews \/ NewsTick
    \/ \E b \in Banners : DeleteNews(b) \/ \E w \in Windows : CreateNews(b, w) \/ UpdateNews(b, w)

NewsSpec == NewsInit /\ [][NewsNext]_newsVars

-----------------------------------------------------------------------------
(* Properties.                                                             *)

(* What a row of the banner and a date, both of at most some ticks ago,    *)
(* make a page show.                                                       *)
ShownOf(b, shown, ticks) ==
    \E w \in NewsRows, d \in NewsDates :
        rowPast[b][w] <= ticks /\ datePast[d] <= ticks /\ shown = Banner(w, d)

(* A page that is given the list without a refresh shows of each banner    *)
(* what its row and the date were no longer ago than the list's age: a     *)
(* change, a deletion or midnight shows within 30 s, even where it falls   *)
(* between a refresh's look at the clock and its reading of the rows       *)
(* (getCachedActiveNews, GetActiveNewsMessages).                           *)
BannersAreCurrent ==
    newsAge < RefreshAge => \A b \in Banners : ShownOf(b, shownNews[b], newsAge)
=============================================================================
