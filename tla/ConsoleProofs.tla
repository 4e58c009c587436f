---------------------------- MODULE ConsoleProofs ----------------------------
(***************************************************************************)
(* Proofs about the pages of a user, for every value of the constants.  The *)
(* parts of MCConsole have no variable in common, so what a part proves of  *)
(* itself holds of all behaviours of UserPagesSpec.                         *)
(***************************************************************************)
EXTENDS MCConsole, FiniteSetTheorems, WellFoundedInduction, TLAPS

-----------------------------------------------------------------------------
(* What is in clear before login (HomeAccess).                                *)

\* A token the guides may show is one whose eye was pressed.
AccessInv ==
    /\ AccessTypeOK
    /\ DialogLeavesMasked \/ lateCopy
    /\ revealedToken # NoDraft => revealedToken \in askedToSee

LEMMA AccessInitInv == AccessInit => AccessInv
<1> SUFFICES ASSUME AccessInit PROVE AccessInv
  OBVIOUS
<1>1. {panelsAllowed, lateCopy} \subseteq BOOLEAN
  BY Zenon DEF AccessInit
<1> QED
  BY <1>1 DEF AccessInit, AccessInv, AccessTypeOK, DialogLeavesMasked, AccessText

LEMMA TrimmedIsText == ASSUME NEW v \in AccessText PROVE TrimDraft[v] \in AccessText
  BY AccessAssumption

LEMMA AccessStepInv == AccessInv /\ [AccessNext]_accessVars => AccessInv'
<1> SUFFICES ASSUME AccessInv, [AccessNext]_accessVars PROVE AccessInv'
  OBVIOUS
<1> USE DEF AccessInv, AccessTypeOK, DialogLeavesMasked
<1>1. ASSUME NEW v \in AccessText, NEW a \in BOOLEAN, BoxChanges(v, a) PROVE AccessInv'
  BY <1>1 DEF BoxChanges
<1>2. CASE OpenTokenAccessDialog
  BY <1>2 DEF OpenTokenAccessDialog
<1>3. CASE CloseTokenAccessDialog
  BY <1>3 DEF CloseTokenAccessDialog
<1>4. CASE ConfirmTokenAccessDialog
  BY <1>4, TrimmedIsText DEF ConfirmTokenAccessDialog
<1>5. ASSUME NEW v \in AccessText, TypeDraft(v) PROVE AccessInv'
  BY <1>5 DEF TypeDraft
<1>6. ASSUME NEW at \in {"box", "dialog"}, ToggleTokenVisibility(at) PROVE AccessInv'
  BY <1>6 DEF ToggleTokenVisibility
<1>7. ASSUME NEW at \in {"box", "dialog"}, HandleCopyToken(at) PROVE AccessInv'
  <2>1. TrimDraft[IF at = "dialog" THEN accessDialog.draft ELSE accessBox] \in AccessText
    BY TrimmedIsText
  <2> QED
    BY <1>7, <2>1 DEF HandleCopyToken
<1>8. ASSUME NEW c \in homeCopies, HomeCopied(c) PROVE AccessInv'
  BY <1>8 DEF HomeCopied
<1>9. ASSUME NEW c \in homeCopies, HomeCopyFails(c) PROVE AccessInv'
  <2>1. c.from \in {"box", "dialog"} /\ c.value \in AccessText
    OBVIOUS
  <2>2. homeCopies' \subseteq homeCopies /\ UNCHANGED <<panelsAllowed, revealedToken, askedToSee>>
    BY <1>9 DEF HomeCopyFails
  <2>3. CASE c.value = NoDraft
    BY <1>9, <2>2, <2>3 DEF HomeCopyFails
  <2>4. CASE c.value # NoDraft
    <3>1. /\ accessBox' \in AccessText /\ tokenVisible' = c.from
          /\ accessDialog' = [accessDialog EXCEPT !.draft = c.value]
          /\ lateCopy' = (lateCopy \/ (c.from = "dialog" /\ ~accessDialog.open))
      BY <1>9, <2>1, <2>4 DEF HomeCopyFails
    <3>2. lateCopy' \in BOOLEAN
      BY <3>1, Zenon
    <3>3. accessDialog' \in [open : BOOLEAN, draft : AccessText] /\ accessDialog'.open = accessDialog.open
      BY <2>1, <3>1
    <3> QED
      BY <2>1, <2>2, <3>1, <3>2, <3>3
  <2> QED
    BY <2>3, <2>4
<1>10. CASE ToggleGuideToken
  <2>1. accessBox \in AccessToken
    BY <1>10 DEF ToggleGuideToken, FullDraft
  <2> QED
    BY <1>10, <2>1 DEF ToggleGuideToken
<1>11. CASE UNCHANGED accessVars
  BY <1>11 DEF accessVars
<1> QED
  BY <1>1, <1>2, <1>3, <1>4, <1>5, <1>6, <1>7, <1>8, <1>9, <1>10, <1>11 DEF AccessNext

LEMMA AccessInvImplies == AccessInv => AccessTypeOK /\ ClearOnlyIfAsked
<1> SUFFICES ASSUME AccessInv PROVE ClearOnlyIfAsked
  BY DEF AccessInv
<1>1. ResolvePublicGuideToken # NoDraft => ResolvePublicGuideToken \in askedToSee
  BY AccessAssumption DEF ResolvePublicGuideToken, ShouldRevealPublicGuideToken, FullDraft, AccessInv
<1>2. \A g \in DOMAIN GuideContent : GuideContent[g] = ResolvePublicGuideToken
  BY DEF GuideContent
<1> QED
  BY <1>1, <1>2 DEF ClearOnlyIfAsked, AccessInv
-----------------------------------------------------------------------------
(* The page before login (PublicHome).                                        *)

\* What is stored under an id is a token with that id, and the accepted token's id has an entry;
\* the polls on their way are of the token in the box; records that are waited for were asked for.
\* Where no others' records were to come when the token was accepted, all that come are its own, and
\* once they are there the panel shows them.
HomeInv ==
    /\ HomeTypeOK
    /\ \A i \in HomeId : homeStore.map[i] # NoText => TokenIdOf[homeStore.map[i]] = i
    /\ home.accepted # NoText => homeStore.map[TokenIdOf[home.accepted]] # NoText
    /\ \A q \in HomeRequest : q.what = "poll" /\ homeRequests[q] > 0 => q.of = home.box
    /\ home.metrics # "stray"
    /\ home.logsLoading => \E q \in HomeRequest : q.what = "logs" /\ homeRequests[q] > 0
    /\ ~home.logsLoading /\ ~home.crossed => home.logs \in {NoText, home.accepted}
    /\ ~home.crossed => /\ home.initial \in {NoText, home.accepted}
                        /\ \A q \in HomeRequest : q.what = "logs" /\ homeRequests[q] > 0 => q.of = home.accepted

HomePage == [box : HomeText, hash : HomeText, accepted : TokenOrNull, initial : TokenOrNull,
             loading : BOOLEAN, visitor : {"unknown", "out", "asking", "in"},
             metrics : {"none", "load", "poll", "stray"},
             logs : TokenOrNull, logsLoading : BOOLEAN, crossed : BOOLEAN, invalid : BOOLEAN]
HomeStorage == [map : [HomeId -> TokenOrNull], last : TokenOrNull]

\* The parts of the invariant that are about page and storage.
GoodStore(store) == \A i \in HomeId : store.map[i] # NoText => TokenIdOf[store.map[i]] = i
KeptToken(page, store) == page.accepted # NoText => store.map[TokenIdOf[page.accepted]] # NoText
GoodPage(page) ==
    /\ page.metrics # "stray"
    /\ ~page.logsLoading /\ ~page.crossed => page.logs \in {NoText, page.accepted}
Uncrossed(page, requests) ==
    ~page.crossed => /\ page.initial \in {NoText, page.accepted}
                     /\ \A q \in HomeRequest : q.what = "logs" /\ requests[q] > 0 => q.of = page.accepted

LEMMA HomeInvParts ==
    HomeInv <=> /\ home \in HomePage /\ homeStore \in HomeStorage
                /\ homeRequests \in [HomeRequest -> 0 .. MaxSameRequests]
                /\ GoodStore(homeStore) /\ KeptToken(home, homeStore) /\ GoodPage(home)
                /\ Uncrossed(home, homeRequests)
                /\ \A q \in HomeRequest : q.what = "poll" /\ homeRequests[q] > 0 => q.of = home.box
                /\ home.logsLoading => \E q \in HomeRequest : q.what = "logs" /\ homeRequests[q] > 0
  BY DEF HomeInv, HomeTypeOK, HomePage, HomeStorage, GoodStore, KeptToken, GoodPage, Uncrossed

LEMMA InitialTokenIs ==
    ASSUME NEW hash \in HomeText, NEW store \in HomeStorage
    PROVE  InitialToken(hash, store) \in TokenOrNull
<1>1. CASE hash \in HomeToken
  BY <1>1, HomeAssumption DEF InitialToken, IsFullToken, TokenOrNull
<1>2. CASE hash \notin HomeToken /\ hash \in HomeId /\ store.map[hash] # NoText
  BY <1>2 DEF InitialToken, IsFullToken, HomeStorage
<1>3. CASE hash \notin HomeToken /\ ~(hash \in HomeId /\ store.map[hash] # NoText)
  BY <1>3 DEF InitialToken, IsFullToken, HomeStorage
<1> QED
  BY <1>1, <1>2, <1>3

LEMMA StoredKeeps ==
    ASSUME NEW store \in HomeStorage, NEW t \in HomeToken, GoodStore(store)
    PROVE  /\ Stored(store, t) \in HomeStorage /\ GoodStore(Stored(store, t))
           /\ Stored(store, t).map[TokenIdOf[t]] = t
           /\ \A i \in HomeId : store.map[i] # NoText => Stored(store, t).map[i] # NoText
<1>1. t # NoText /\ TokenIdOf[t] \in HomeId
  BY HomeAssumption
<1> DEFINE m == [store.map EXCEPT ![TokenIdOf[t]] = t]
<1>2. store.map \in [HomeId -> TokenOrNull]
  BY DEF HomeStorage
<1>3. m \in [HomeId -> TokenOrNull] /\ m[TokenIdOf[t]] = t
      /\ \A i \in HomeId : i # TokenIdOf[t] => m[i] = store.map[i]
  BY <1>1, <1>2 DEF TokenOrNull
<1>4. Stored(store, t) = [map |-> m, last |-> t]
  BY DEF Stored
<1> HIDE DEF m
<1> QED
  BY <1>1, <1>3, <1>4 DEF HomeStorage, GoodStore, TokenOrNull

\* persistToken takes a full token, or another text.
LEMMA AcceptedToken ==
    ASSUME NEW page \in HomePage, NEW t \in HomeToken, GoodPage(page)
    PROVE  /\ Accept(page, t) \in HomePage /\ GoodPage(Accept(page, t))
           /\ Accept(page, t).box = t /\ Accept(page, t).accepted = t
           /\ Accept(page, t).initial = page.initial /\ Accept(page, t).crossed = page.crossed
           /\ Accept(page, t).logsLoading
<1>1. TokenIdOf[t] \in HomeText /\ t \in HomeText /\ t \in TokenOrNull
  BY HomeAssumption DEF HomeText, TokenOrNull
<1>2. Accept(page, t) = [page EXCEPT !.box = t, !.hash = TokenIdOf[t], !.accepted = t,
                                     !.invalid = FALSE, !.logsLoading = TRUE]
  BY DEF Accept, IsFullToken, NormalizeTokenHash, HomePage
<1> QED
  BY <1>1, <1>2 DEF HomePage, GoodPage

LEMMA AcceptedText ==
    ASSUME NEW page \in HomePage, NEW v \in HomeText, v \notin HomeToken, GoodPage(page)
    PROVE  /\ Accept(page, v) \in HomePage /\ GoodPage(Accept(page, v))
           /\ Accept(page, v).box = v /\ Accept(page, v).accepted = page.accepted
           /\ Accept(page, v).logsLoading = page.logsLoading
           /\ Accept(page, v).initial = page.initial /\ Accept(page, v).crossed = page.crossed
<1>1. Accept(page, v) = [page EXCEPT !.box = v, !.hash = v, !.metrics = "none",
                                     !.logs = NoText, !.invalid = TRUE]
  BY DEF Accept, IsFullToken, NormalizeTokenHash, HomePage
<1> QED
  BY <1>1 DEF HomePage, GoodPage, TokenOrNull

\* A page that is mounted: with a token that is accepted at once, or empty.
LEMMA Mounted ==
    ASSUME NEW hash \in HomeText, NEW store \in HomeStorage, GoodStore(store)
    PROVE  LET page == MountedPage(hash, store)
               kept == MountedStore(hash, store)
               requests == MountedRequests(InitialToken(hash, store))
           IN  /\ page \in HomePage /\ kept \in HomeStorage /\ requests \in [HomeRequest -> 0 .. MaxSameRequests]
               /\ GoodStore(kept) /\ KeptToken(page, kept) /\ GoodPage(page) /\ Uncrossed(page, requests)
               /\ \A q \in HomeRequest : requests[q] > 0 => q.of = page.box
               /\ page.logsLoading => \E q \in HomeRequest : q.what = "logs" /\ requests[q] > 0
<1> DEFINE t == InitialToken(hash, store)
           blank == [BlankPage(hash) EXCEPT !.initial = t]
<1>1. t \in TokenOrNull
  BY InitialTokenIs
<1>2. \A q \in HomeRequest : MountedRequests(t)[q] = IF q.of = t THEN 1 ELSE 0
  BY DEF MountedRequests
<1>3. MountedRequests(t) \in [HomeRequest -> 0 .. MaxSameRequests]
  BY HomeAssumption DEF MountedRequests
<1>4. /\ MountedPage(hash, store) = IF t = NoText THEN blank ELSE Accept(blank, t)
      /\ MountedStore(hash, store) = IF t = NoText THEN store ELSE Stored(store, t)
  BY DEF MountedPage, MountedStore
<1>5. /\ blank \in HomePage /\ GoodPage(blank) /\ blank.accepted = NoText
      /\ ~blank.logsLoading /\ blank.box = NoText /\ blank.initial = t
  BY <1>1 DEF BlankPage, HomePage, GoodPage, HomeText, TokenOrNull
<1> HIDE DEF t, blank
<1>6. CASE t = NoText
  <2>1. \A q \in HomeRequest : q.of # t
    BY <1>6, HomeAssumption DEF HomeRequest
  <2> QED
    BY <1>2, <1>3, <1>4, <1>5, <1>6, <2>1 DEF KeptToken, Uncrossed, t
<1>7. CASE t # NoText
  <2>1. t \in HomeToken
    BY <1>1, <1>7 DEF TokenOrNull
  <2>2. /\ Accept(blank, t) \in HomePage /\ GoodPage(Accept(blank, t))
        /\ Accept(blank, t).box = t /\ Accept(blank, t).accepted = t
        /\ Accept(blank, t).initial = t
    BY <1>5, <2>1, AcceptedToken
  <2>3. /\ Stored(store, t) \in HomeStorage /\ GoodStore(Stored(store, t))
        /\ Stored(store, t).map[TokenIdOf[t]] = t
    BY <2>1, StoredKeeps
  <2>4. RecordsOf(t) \in HomeRequest /\ RecordsOf(t).what = "logs" /\ MountedRequests(t)[RecordsOf(t)] > 0
    BY <1>2, <2>1 DEF RecordsOf, HomeRequest
  <2>5. \A q \in HomeRequest : MountedRequests(t)[q] > 0 => q.of = t
    BY <1>2
  <2> QED
    BY <1>3, <1>4, <1>7, <2>2, <2>3, <2>4, <2>5 DEF KeptToken, Uncrossed, t
<1> QED
  BY <1>6, <1>7

LEMMA HomeInitInv == HomeInit => HomeInv
<1> SUFFICES ASSUME HomeInit PROVE HomeInv
  OBVIOUS
<1>1. PICK hash \in HomeText, map \in [HomeId -> TokenOrNull], last \in TokenOrNull :
        /\ GoodStore([map |-> map, last |-> last])
        /\ home = MountedPage(hash, [map |-> map, last |-> last])
        /\ homeStore = MountedStore(hash, [map |-> map, last |-> last])
        /\ homeRequests = MountedRequests(InitialToken(hash, [map |-> map, last |-> last]))
  BY DEF HomeInit, GoodStore
<1>2. [map |-> map, last |-> last] \in HomeStorage
  BY DEF HomeStorage
<1> QED
  BY <1>1, <1>2, Mounted, HomeInvParts

\* What a change of the token in the box does to the requests.
LEMMA TokenEffectIs ==
    ASSUME HomeInv, NEW text \in HomeText
    PROVE  LET requests == TokenEffect(homeRequests, text)
           IN  /\ DOMAIN requests = HomeRequest
               /\ \A q \in HomeRequest : /\ requests[q] \in Nat
                                         /\ q.what = "poll" /\ requests[q] > 0 => q.of = text
                                         /\ q.what # "poll" => requests[q] = homeRequests[q]
<1>1. homeRequests \in [HomeRequest -> Nat]
  BY HomeAssumption DEF HomeInv, HomeTypeOK
<1> QED
  BY <1>1 DEF TokenEffect, HomeInv

\* persistToken keeps the invariant, for any text, from a page with the same box.
LEMMA PersistKeepsInv ==
    ASSUME HomeInv, NEW page \in HomePage, NEW text \in HomeText, PersistToken(page, text),
           GoodPage(page), page.accepted = home.accepted, page.logsLoading = home.logsLoading,
           page.initial = home.initial, page.crossed = home.crossed
    PROVE  HomeInv'
<1>1. /\ homeStore \in HomeStorage /\ GoodStore(homeStore) /\ KeptToken(home, homeStore)
      /\ homeRequests \in [HomeRequest -> 0 .. MaxSameRequests] /\ home \in HomePage
      /\ Uncrossed(home, homeRequests)
  BY HomeInvParts
<1> DEFINE effect == TokenEffect(homeRequests, text)
<1>2. /\ DOMAIN effect = HomeRequest
      /\ \A q \in HomeRequest : /\ effect[q] \in Nat
                                /\ q.what = "poll" /\ effect[q] > 0 => q.of = text
                                /\ q.what # "poll" => effect[q] = homeRequests[q]
  BY TokenEffectIs
<1> HIDE DEF effect
<1>3. homeRequests' \in [HomeRequest -> 0 .. MaxSameRequests]
  BY DEF PersistToken, Bounded
<1>4. CASE text \in HomeToken
  <2> DEFINE at == Accept(page, text)
             crossed == Crossed(page, text)
  <2>1. /\ home' = [at EXCEPT !.crossed = crossed] /\ homeStore' = Stored(homeStore, text)
        /\ homeRequests' = HomeAsks(effect, {MetricsOf(text), RecordsOf(text)})
    BY <1>4 DEF PersistToken, IsFullToken, effect
  <2>2. /\ at \in HomePage /\ GoodPage(at) /\ at.box = text /\ at.accepted = text
        /\ at.logsLoading /\ at.initial = page.initial
    BY <1>4, AcceptedToken
  <2>b. crossed \in BOOLEAN
    BY DEF Crossed
  <2>c. ~crossed => /\ page.initial \in {NoText, text}
                    /\ \A t \in HomeToken \ {text} : ~(homeRequests[RecordsOf(t)] > 0)
    BY DEF Crossed
  <2> HIDE DEF at, crossed
  <2>d. /\ home' \in HomePage /\ GoodPage(home') /\ home'.box = text /\ home'.accepted = text
        /\ home'.initial = page.initial /\ home'.crossed = crossed
    BY <2>1, <2>2, <2>b DEF HomePage, GoodPage
  <2>3. homeStore' \in HomeStorage /\ GoodStore(homeStore') /\ homeStore'.map[TokenIdOf[text]] = text
    BY <1>1, <1>4, <2>1, StoredKeeps
  <2>4. RecordsOf(text) \in HomeRequest /\ RecordsOf(text).what = "logs"
        /\ MetricsOf(text).what = "metrics"
    BY <1>4 DEF RecordsOf, MetricsOf, HomeRequest
  <2>5. homeRequests'[RecordsOf(text)] > 0
    BY <1>2, <2>1, <2>4 DEF HomeAsks
  <2>6. \A q \in HomeRequest : q.what = "poll" /\ homeRequests'[q] > 0 => q.of = text
    BY <1>2, <2>1, <2>4 DEF HomeAsks
  <2>7. text # NoText
    BY <1>4, HomeAssumption
  <2>8. ASSUME ~crossed, NEW q \in HomeRequest, q.what = "logs", homeRequests'[q] > 0 PROVE q.of = text
    <3>1. q.of \in HomeToken /\ q = RecordsOf(q.of) /\ RecordsOf(text).of = text
      BY <2>8 DEF HomeRequest, RecordsOf
    <3>2. CASE q = RecordsOf(text)
      BY <3>1, <3>2
    <3>3. CASE q # RecordsOf(text)
      <4>1. homeRequests'[q] = homeRequests[q]
        BY <1>2, <2>1, <2>4, <2>8, <3>3 DEF HomeAsks
      <4> QED
        BY <2>8, <2>c, <3>1, <4>1
    <3> QED
      BY <3>2, <3>3
  <2>9. Uncrossed(home', homeRequests')
    BY <2>c, <2>d, <2>8 DEF Uncrossed
  <2> QED
    BY <1>3, <2>d, <2>3, <2>4, <2>5, <2>6, <2>7, <2>9 DEF HomeInv, HomeTypeOK, HomePage, HomeStorage,
       GoodStore, KeptToken, GoodPage, Uncrossed
<1>5. CASE text \notin HomeToken
  <2> DEFINE at == Accept(page, text)
  <2>1. /\ home' = [at EXCEPT !.crossed = at.crossed] /\ homeStore' = homeStore
        /\ homeRequests' = HomeAsks(effect, {})
    BY <1>5 DEF PersistToken, IsFullToken, effect
  <2>2. /\ at \in HomePage /\ GoodPage(at) /\ at.box = text
        /\ at.accepted = home.accepted /\ at.logsLoading = home.logsLoading
        /\ at.initial = home.initial /\ at.crossed = home.crossed
    BY <1>5, AcceptedText
  <2> HIDE DEF at
  <2>a. home' = at
    BY <2>1, <2>2 DEF HomePage
  <2>3. \A q \in HomeRequest : homeRequests'[q] = effect[q]
    BY <2>1 DEF HomeAsks
  <2>4. home'.logsLoading => \E q \in HomeRequest : q.what = "logs" /\ homeRequests'[q] > 0
    BY <1>2, <2>2, <2>a, <2>3 DEF HomeInv
  <2>5. KeptToken(home', homeStore')
    BY <1>1, <2>1, <2>2, <2>a DEF KeptToken
  <2>6. Uncrossed(home', homeRequests')
    BY <1>1, <1>2, <2>2, <2>a, <2>3 DEF Uncrossed
  <2> QED
    BY <1>1, <1>2, <1>3, <2>1, <2>2, <2>a, <2>3, <2>4, <2>5, <2>6 DEF HomeInv, HomeTypeOK, HomePage, HomeStorage,
       GoodStore, KeptToken, GoodPage, Uncrossed
<1> QED
  BY <1>4, <1>5

\* Requests are only taken back or answered.
LEMMA ToldRequests ==
    ASSUME HomeInv, NEW q \in HomeRequest, homeRequests[q] > 0
    PROVE  /\ Told(homeRequests, q) \in [HomeRequest -> 0 .. MaxSameRequests]
           /\ \A x \in HomeRequest : /\ Told(homeRequests, q)[x] > 0 => homeRequests[x] > 0
                                     /\ x # q => Told(homeRequests, q)[x] = homeRequests[x]
<1>1. homeRequests \in [HomeRequest -> 0 .. MaxSameRequests] /\ MaxSameRequests \in Nat
  BY HomeAssumption DEF HomeInv, HomeTypeOK
<1>2. homeRequests[q] - 1 \in 0 .. MaxSameRequests
  BY <1>1
<1> HIDE DEF HomeRequest
<1>3. Told(homeRequests, q) = [homeRequests EXCEPT ![q] = homeRequests[q] - 1]
  BY DEF Told
<1> QED
  BY <1>1, <1>2, <1>3

LEMMA HomeStepInv == HomeInv /\ [HomeNext]_homeVars => HomeInv'
<1> SUFFICES ASSUME HomeInv, [HomeNext]_homeVars PROVE HomeInv'
  OBVIOUS
<1>t. /\ home \in HomePage /\ homeStore \in HomeStorage
      /\ homeRequests \in [HomeRequest -> 0 .. MaxSameRequests]
      /\ GoodStore(homeStore) /\ KeptToken(home, homeStore) /\ GoodPage(home)
      /\ Uncrossed(home, homeRequests)
      /\ \A q \in HomeRequest : q.what = "poll" /\ homeRequests[q] > 0 => q.of = home.box
      /\ home.logsLoading => \E q \in HomeRequest : q.what = "logs" /\ homeRequests[q] > 0
  BY HomeInvParts
\* The invariant of the next state, part by part.
<1>p. ASSUME home' \in HomePage, homeStore' \in HomeStorage,
             homeRequests' \in [HomeRequest -> 0 .. MaxSameRequests],
             GoodStore(homeStore'), KeptToken(home', homeStore'), GoodPage(home'),
             Uncrossed(home', homeRequests'),
             \A q \in HomeRequest : q.what = "poll" /\ homeRequests'[q] > 0 => q.of = home'.box,
             home'.logsLoading => \E q \in HomeRequest : q.what = "logs" /\ homeRequests'[q] > 0
      PROVE  HomeInv'
  BY <1>p DEF HomeInv, HomeTypeOK, HomePage, HomeStorage, GoodStore, KeptToken, GoodPage, Uncrossed
<1>1. ASSUME NEW visitor \in {"unknown", "out", "asking"}, NEW tokenOk \in BOOLEAN,
             HomeLoaded(visitor, tokenOk)
      PROVE  HomeInv'
  <2>1. homeStore' = homeStore /\ homeRequests' \in [HomeRequest -> 0 .. MaxSameRequests]
    BY <1>1 DEF HomeLoaded, Bounded
  <2>2. CASE home.initial # NoText
    <3>1. /\ home' = [home EXCEPT !.loading = FALSE, !.initial = NoText, !.visitor = visitor,
                                  !.invalid = FALSE, !.logsLoading = TRUE,
                                  !.metrics = IF tokenOk THEN "load" ELSE home.metrics]
          /\ homeRequests' = HomeAsks(homeRequests, {RecordsOf(home.initial)})
      BY <1>1, <1>t, <2>2 DEF HomeLoaded, HomePage
    <3>2. home.initial \in HomeToken
      BY <1>t, <2>2 DEF HomePage, TokenOrNull
    <3>3. RecordsOf(home.initial) \in HomeRequest /\ RecordsOf(home.initial).what = "logs"
      BY <3>2 DEF RecordsOf, HomeRequest
    <3>4. \A q \in HomeRequest : homeRequests[q] \in Nat
      BY <1>t, HomeAssumption
    <3>5. homeRequests'[RecordsOf(home.initial)] > 0
      BY <3>1, <3>3, <3>4 DEF HomeAsks
    <3>6. \A q \in HomeRequest : q.what = "poll" => homeRequests'[q] = homeRequests[q]
      BY <3>1, <3>3 DEF HomeAsks
    <3>7. /\ home' \in HomePage /\ GoodPage(home') /\ home'.box = home.box
          /\ home'.accepted = home.accepted
      BY <1>t, <3>1 DEF HomePage, GoodPage, TokenOrNull
    <3>8. KeptToken(home', homeStore')
      BY <1>t, <2>1, <3>7 DEF KeptToken
    <3>9. Uncrossed(home', homeRequests')
      <4>1. home'.crossed = home.crossed /\ home'.initial = NoText
        BY <1>t, <3>1 DEF HomePage
      <4>2. \A q \in HomeRequest : q = RecordsOf(home.initial) \/ homeRequests'[q] = homeRequests[q]
        BY <3>1 DEF HomeAsks
      <4>3. RecordsOf(home.initial).of = home.initial
        BY DEF RecordsOf
      <4> QED
        BY <1>t, <2>2, <3>7, <4>1, <4>2, <4>3 DEF Uncrossed
    <3> QED
      BY <1>p, <1>t, <2>1, <3>3, <3>5, <3>6, <3>7, <3>8, <3>9
  <2>3. CASE home.initial = NoText
    <3>1. /\ home' = [home EXCEPT !.loading = FALSE, !.initial = NoText, !.visitor = visitor]
          /\ homeRequests' = HomeAsks(homeRequests, {})
      BY <1>1, <1>t, <2>3 DEF HomeLoaded, HomePage
    <3>2. \A q \in HomeRequest : homeRequests'[q] = homeRequests[q]
      BY <3>1 DEF HomeAsks
    <3>3. /\ home' \in HomePage /\ GoodPage(home') /\ home'.box = home.box
          /\ home'.accepted = home.accepted /\ home'.logsLoading = home.logsLoading
          /\ home'.crossed = home.crossed /\ home'.initial = NoText
      BY <1>t, <3>1 DEF HomePage, GoodPage, TokenOrNull
    <3>4. KeptToken(home', homeStore') /\ Uncrossed(home', homeRequests')
      BY <1>t, <2>1, <3>2, <3>3 DEF KeptToken, Uncrossed
    <3> QED
      BY <1>p, <1>t, <2>1, <3>2, <3>3, <3>4
  <2> QED
    BY <2>2, <2>3
<1>2. CASE Hydrated
  <2> DEFINE page == [home EXCEPT !.visitor = "in"]
  <2>1. /\ page \in HomePage /\ GoodPage(page) /\ page.accepted = home.accepted
        /\ page.logsLoading = home.logsLoading /\ page.initial = home.initial
        /\ page.crossed = home.crossed
    BY <1>t DEF HomePage, GoodPage
  <2>2. PersistToken(page, AccountToken)
    BY <1>2 DEF Hydrated
  <2> HIDE DEF page
  <2> QED
    BY <2>1, <2>2, PersistKeepsInv, HomeAssumption DEF HomeText
<1>3. CASE HydrationFails
  <2>1. home' = [home EXCEPT !.visitor = "in"] /\ UNCHANGED <<homeStore, homeRequests>>
    BY <1>3 DEF HydrationFails
  <2>2. /\ home' \in HomePage /\ GoodPage(home') /\ home'.box = home.box
        /\ home'.accepted = home.accepted /\ home'.logsLoading = home.logsLoading
        /\ home'.crossed = home.crossed /\ home'.initial = home.initial
    BY <1>t, <2>1 DEF HomePage, GoodPage
  <2>3. KeptToken(home', homeStore') /\ Uncrossed(home', homeRequests')
    BY <1>t, <2>1, <2>2 DEF KeptToken, Uncrossed
  <2> QED
    BY <1>p, <1>t, <2>1, <2>2, <2>3
<1>4. CASE HomeReload
  <2>1. home.hash \in HomeText
    BY <1>t DEF HomePage
  <2>2. /\ home' = MountedPage(home.hash, homeStore) /\ homeStore' = MountedStore(home.hash, homeStore)
        /\ homeRequests' = MountedRequests(InitialToken(home.hash, homeStore))
    BY <1>4 DEF HomeReload
  <2> QED
    BY <1>p, <1>t, <2>1, <2>2, Mounted
<1>5. CASE StreamMetrics
  <2>1. home' = [home EXCEPT !.metrics = "poll"] /\ UNCHANGED <<homeStore, homeRequests>>
    BY <1>5 DEF StreamMetrics, PolledFigures
  <2>2. /\ home' \in HomePage /\ GoodPage(home') /\ home'.box = home.box
        /\ home'.accepted = home.accepted /\ home'.logsLoading = home.logsLoading
        /\ home'.crossed = home.crossed /\ home'.initial = home.initial
    BY <1>t, <2>1 DEF HomePage, GoodPage
  <2>3. KeptToken(home', homeStore') /\ Uncrossed(home', homeRequests')
    BY <1>t, <2>1, <2>2 DEF KeptToken, Uncrossed
  <2> QED
    BY <1>p, <1>t, <2>1, <2>2, <2>3
<1>6. CASE HomePoll
  <2>1. /\ UNCHANGED <<home, homeStore>> /\ homeRequests' \in [HomeRequest -> 0 .. MaxSameRequests]
        /\ homeRequests' = HomeAsks(homeRequests, {[what |-> "poll", of |-> home.box]})
    BY <1>6 DEF HomePoll, Bounded
  <2>2. \A q \in HomeRequest : q = [what |-> "poll", of |-> home.box] \/ homeRequests'[q] = homeRequests[q]
    BY <2>1 DEF HomeAsks
  <2>3. \A q \in HomeRequest : q.what = "poll" /\ homeRequests'[q] > 0 => q.of = home.box
    BY <1>t, <2>2
  <2>4. home.logsLoading => \E q \in HomeRequest : q.what = "logs" /\ homeRequests'[q] > 0
    BY <1>t, <2>2
  <2>5. /\ home' \in HomePage /\ homeStore' \in HomeStorage /\ GoodStore(homeStore')
        /\ KeptToken(home', homeStore') /\ GoodPage(home')
    BY <1>t, <2>1
  <2>6. Uncrossed(home', homeRequests')
    <3>1. \A q \in HomeRequest : q.what = "logs" => homeRequests'[q] = homeRequests[q]
      BY <2>2
    <3> QED
      BY <1>t, <2>1, <3>1 DEF Uncrossed
  <2> QED
    BY <1>p, <2>1, <2>3, <2>4, <2>5, <2>6
<1>7. CASE LeaveBox
  <2>1. PersistToken(home, home.box) /\ home.box \in HomeText
    BY <1>7, <1>t DEF LeaveBox, HomePage
  <2> QED
    BY <1>t, <2>1, PersistKeepsInv
<1>8. ASSUME NEW q \in HomeRequest, NEW ok \in BOOLEAN, MetricsSettle(q, ok) PROVE HomeInv'
  <2>1. /\ q.what # "logs" /\ homeRequests[q] > 0 /\ homeStore' = homeStore
        /\ homeRequests' = Told(homeRequests, q)
    BY <1>8 DEF MetricsSettle
  <2>2. PICK m \in {"none", "load", "poll"} \cup {home.metrics} : home' = [home EXCEPT !.metrics = m]
    <3>1. CASE q.what = "poll" /\ ok
      <4>1. q.of = home.box
        BY <1>t, <2>1, <3>1
      <4> QED
        BY <1>8, <3>1, <4>1 DEF MetricsSettle, PolledFigures
    <3>2. CASE q.what = "poll" /\ ~ok
      BY <1>8, <3>2 DEF MetricsSettle
    <3>3. CASE q.what # "poll"
      BY <1>8, <3>3 DEF MetricsSettle
    <3> QED
      BY <3>1, <3>2, <3>3
  <2>3. /\ home' \in HomePage /\ GoodPage(home') /\ home'.box = home.box
        /\ home'.accepted = home.accepted /\ home'.logsLoading = home.logsLoading
        /\ home'.crossed = home.crossed /\ home'.initial = home.initial
    BY <1>t, <2>2 DEF HomePage, GoodPage
  <2>4. KeptToken(home', homeStore')
    BY <1>t, <2>1, <2>3 DEF KeptToken
  <2>5. /\ homeRequests' \in [HomeRequest -> 0 .. MaxSameRequests]
        /\ \A x \in HomeRequest : /\ homeRequests'[x] > 0 => homeRequests[x] > 0
                                  /\ x # q => homeRequests'[x] = homeRequests[x]
    BY <2>1, ToldRequests
  <2>6. Uncrossed(home', homeRequests')
    BY <1>t, <2>3, <2>5 DEF Uncrossed
  <2> QED
    BY <1>p, <1>t, <2>1, <2>3, <2>4, <2>5, <2>6
<1>9. ASSUME NEW q \in HomeRequest, NEW outcome \in {"ok", "refused", "broken"}, RecordsSettle(q, outcome)
      PROVE  HomeInv'
  <2>1. /\ q.what = "logs" /\ homeRequests[q] > 0 /\ homeStore' = homeStore
        /\ homeRequests' = Told(homeRequests, q)
    BY <1>9 DEF RecordsSettle
  <2>2. q.of \in TokenOrNull
    BY DEF HomeRequest, TokenOrNull
  <2>a. ~home.crossed => q.of = home.accepted
    BY <1>t, <2>1 DEF Uncrossed
  <2>3. /\ home' \in HomePage /\ GoodPage(home') /\ home'.box = home.box
        /\ home'.accepted = home.accepted /\ ~home'.logsLoading
        /\ home'.crossed = home.crossed /\ home'.initial = home.initial
    <3>1. CASE outcome = "ok"
      <4>1. home' = [home EXCEPT !.logsLoading = FALSE, !.logs = q.of, !.invalid = FALSE]
        BY <1>9, <1>t, <3>1 DEF RecordsSettle, HomePage
      <4> QED
        BY <1>t, <2>2, <2>a, <4>1 DEF HomePage, GoodPage
    <3>2. CASE outcome # "ok"
      <4>1. home' = [home EXCEPT !.logsLoading = FALSE, !.logs = NoText, !.invalid = (outcome = "refused")]
        BY <1>9, <1>t, <3>2 DEF RecordsSettle, HomePage
      <4> QED
        BY <1>t, <4>1 DEF HomePage, GoodPage, TokenOrNull
    <3> QED
      BY <3>1, <3>2
  <2>4. KeptToken(home', homeStore')
    BY <1>t, <2>1, <2>3 DEF KeptToken
  <2>5. /\ homeRequests' \in [HomeRequest -> 0 .. MaxSameRequests]
        /\ \A x \in HomeRequest : homeRequests'[x] > 0 => homeRequests[x] > 0
    BY <2>1, ToldRequests
  <2>6. Uncrossed(home', homeRequests')
    BY <1>t, <2>3, <2>5 DEF Uncrossed
  <2> QED
    BY <1>p, <1>t, <2>1, <2>3, <2>4, <2>5, <2>6
<1>10. ASSUME NEW v \in HomeText, SetToken(v) PROVE HomeInv'
  <2>1. /\ home' = [home EXCEPT !.box = v] /\ homeStore' = homeStore
        /\ homeRequests' = TokenEffect(homeRequests, v) /\ v # home.box
    BY <1>10 DEF SetToken
  <2>2. /\ DOMAIN homeRequests' = HomeRequest
        /\ \A q \in HomeRequest : /\ q.what = "poll" /\ homeRequests'[q] > 0 => q.of = v
                                  /\ q.what # "poll" => homeRequests'[q] = homeRequests[q]
    BY <2>1, TokenEffectIs
  <2>3. homeRequests' \in [HomeRequest -> 0 .. MaxSameRequests]
    BY <1>t, <2>1, HomeAssumption DEF TokenEffect
  <2>4. /\ home' \in HomePage /\ GoodPage(home') /\ home'.box = v
        /\ home'.accepted = home.accepted /\ home'.logsLoading = home.logsLoading
        /\ home'.crossed = home.crossed /\ home'.initial = home.initial
    BY <1>t, <2>1 DEF HomePage, GoodPage
  <2>5. KeptToken(home', homeStore')
    BY <1>t, <2>1, <2>4 DEF KeptToken
  <2>6. home'.logsLoading => \E q \in HomeRequest : q.what = "logs" /\ homeRequests'[q] > 0
    BY <1>t, <2>2, <2>4
  <2>7. Uncrossed(home', homeRequests')
    BY <1>t, <2>2, <2>4 DEF Uncrossed
  <2> QED
    BY <1>p, <1>t, <2>1, <2>2, <2>3, <2>4, <2>5, <2>6, <2>7
<1>11. ASSUME NEW t \in HomeToken, ConfirmToken(t) PROVE HomeInv'
  <2>1. PersistToken(home, t) /\ t \in HomeText
    BY <1>11 DEF ConfirmToken, HomeText
  <2> QED
    BY <1>t, <2>1, PersistKeepsInv
<1>12. ASSUME NEW t \in HomeToken, OtherTabPersists(t) PROVE HomeInv'
  <2>1. homeStore' = Stored(homeStore, t) /\ UNCHANGED <<home, homeRequests>>
    BY <1>12 DEF OtherTabPersists
  <2>2. /\ homeStore' \in HomeStorage /\ GoodStore(homeStore')
        /\ \A i \in HomeId : homeStore.map[i] # NoText => homeStore'.map[i] # NoText
    BY <1>t, <2>1, StoredKeeps
  <2>3. home.accepted # NoText => TokenIdOf[home.accepted] \in HomeId
    BY <1>t, HomeAssumption DEF HomePage, TokenOrNull
  <2>4. KeptToken(home', homeStore')
    BY <1>t, <2>1, <2>2, <2>3 DEF KeptToken
  <2>5. Uncrossed(home', homeRequests')
    BY <1>t, <2>1
  <2> QED
    BY <1>p, <1>t, <2>1, <2>2, <2>4, <2>5
<1>13. CASE UNCHANGED homeVars
  <2>1. UNCHANGED <<home, homeStore, homeRequests>>
    BY <1>13 DEF homeVars
  <2> QED
    BY <1>p, <1>t, <2>1
<1> QED
  BY <1>1, <1>2, <1>3, <1>4, <1>5, <1>6, <1>7, <1>8, <1>9, <1>10, <1>11, <1>12, <1>13 DEF HomeNext

LEMMA HomeInvImplies == HomeInv => HomeTypeOK /\ RecordsOfToken /\ PollsOfToken /\ ReloadKeepsToken
<1> SUFFICES ASSUME HomeInv PROVE RecordsOfToken /\ PollsOfToken /\ ReloadKeepsToken
  BY DEF HomeInv
<1>1. RecordsOfToken
  <2>1. LogsRegion = "records" => IsFullToken(home.box) /\ ~home.logsLoading /\ home.logs # NoText
    BY DEF LogsRegion
  <2> QED
    BY <2>1 DEF RecordsOfToken, HomeInv
<1>2. ASSUME home.accepted # NoText, home.hash = TokenIdOf[home.accepted]
      PROVE  LET token == InitialToken(home.hash, homeStore)
             IN  token # NoText /\ TokenIdOf[token] = home.hash
  <2>1. home.hash \in HomeId /\ home.hash \notin HomeToken
    BY <1>2, HomeAssumption DEF HomeInv, HomeTypeOK, TokenOrNull
  <2>2. homeStore.map[home.hash] # NoText /\ TokenIdOf[homeStore.map[home.hash]] = home.hash
    BY <1>2, <2>1 DEF HomeInv
  <2>3. InitialToken(home.hash, homeStore) = homeStore.map[home.hash]
    BY <2>1, <2>2 DEF InitialToken, IsFullToken
  <2> QED
    BY <2>2, <2>3
<1> QED
  BY <1>1, <1>2 DEF PollsOfToken, ReloadKeepsToken, HomeInv

-----------------------------------------------------------------------------
(* The secrets of the console (ConsoleTokens).                                *)

\* Where a secret is, or is about to come: the cache, a request, a timer of a prefetch, and a
\* reveal that has not been passed.
InPlay(t) ==
    \/ t \in consoleSecrets \/ pendingSecret[t] # "none"
    \/ \E w \in warmTimers : w.token = t
    \/ \E r \in reveals : ~r.stale /\ r.token = t

\* A token's page may have the secret of its token only, a disabled account none.
MayHave(t) == (consolePage \in ConsoleToken => t = consolePage) /\ availability # "disabled"

PlayOK == \A t \in ConsoleToken : InPlay(t) => MayHave(t)
FieldOK == secretField.value \in {NoToken, secretField.id}
KeyToken(key) == ResolveGuideTokenId(key.page, key.tokens)
GuideOK ==
    /\ guide.value # NoToken => guide.value = KeyToken(guide.key)
    /\ \A r \in guideRuns : r.token = KeyToken(r.key)

ConsoleInv == ConsoleTypeOK /\ PlayOK /\ FieldOK /\ GuideOK /\ CopyHoldsRequest

RevealRec == [token : ConsoleToken, stale : BOOLEAN]
GuideRec == [token : ConsoleToken, key : ContextKey, stale : BOOLEAN]

LEMMA ConsoleInitInv == ConsoleInit => ConsoleInv
<1> SUFFICES ASSUME ConsoleInit PROVE ConsoleInv
  OBVIOUS
<1>1. NoField \in [id : OptToken, value : OptToken, visible : BOOLEAN, loading : BOOLEAN]
  BY DEF NoField, OptToken
<1>2. NoGuide \in [value : OptToken, key : ContextKey, loading : BOOLEAN] /\ NoGuide.value = NoToken
  BY DEF NoGuide, NoKey, ContextKey, OptToken, ConsolePage, LandingSection
<1>3. ConsoleTypeOK
  BY <1>1, <1>2, ConsoleConstants DEF ConsoleInit, ConsoleTypeOK, OptToken
<1>4. PlayOK
  BY DEF ConsoleInit, PlayOK, InPlay
<1>5. FieldOK /\ GuideOK /\ CopyHoldsRequest
  BY <1>2 DEF ConsoleInit, FieldOK, NoField, GuideOK, CopyHoldsRequest
<1> QED
  BY <1>3, <1>4, <1>5 DEF ConsoleInv

LEMMA StaleReveals ==
    ASSUME NEW rs \in SUBSET RevealRec
    PROVE  LET passed == {[r EXCEPT !.stale = TRUE] : r \in rs}
           IN  passed \subseteq RevealRec /\ \A r \in passed : r.stale
<1>1. \A r \in rs : [r EXCEPT !.stale = TRUE] \in RevealRec /\ [r EXCEPT !.stale = TRUE].stale
  BY DEF RevealRec
<1> QED
  BY <1>1

LEMMA StaleGuideRuns ==
    ASSUME NEW rs \in SUBSET GuideRec, \A r \in rs : r.token = KeyToken(r.key)
    PROVE  /\ PassGuideRuns(rs) \subseteq GuideRec
           /\ \A r \in PassGuideRuns(rs) : r.token = KeyToken(r.key)
<1>1. \A r \in rs : LET s == [r EXCEPT !.stale = TRUE]
                    IN  s \in GuideRec /\ s.token = r.token /\ s.key = r.key
  BY DEF GuideRec
<1> QED
  BY <1>1 DEF PassGuideRuns

LEMMA NoFieldOrGuide ==
    /\ NoField \in [id : OptToken, value : OptToken, visible : BOOLEAN, loading : BOOLEAN]
    /\ NoField.value = NoToken /\ NoField.visible = FALSE
    /\ NoGuide \in [value : OptToken, key : ContextKey, loading : BOOLEAN] /\ NoGuide.value = NoToken
<1>1. NoKey \in ContextKey
  BY DEF NoKey, ContextKey, ConsolePage, LandingSection
<1> QED
  BY <1>1 DEF NoField, NoGuide, OptToken

\* The guide's token depends on its context key only.
LEMMA TokenOfKey ==
    ASSUME NEW page \in ConsolePage, NEW tokens \in SUBSET ConsoleToken
    PROVE  LET key == ResolveGuideRevealContextKey(page, tokens)
           IN  /\ key \in ContextKey
               /\ KeyToken(key) = ResolveGuideTokenId(page, tokens)
               /\ ResolveGuideTokenId(page, tokens) \in OptToken
               /\ page \in ConsoleToken => ResolveGuideTokenId(page, tokens) = page
<1> DEFINE key == ResolveGuideRevealContextKey(page, tokens)
<1>1. key \in ContextKey /\ key.page = page
      /\ key.tokens = IF page \in ConsoleToken THEN {} ELSE tokens
  BY DEF ResolveGuideRevealContextKey, ContextKey
<1> HIDE DEF key
<1>2. CASE page \in ConsoleToken
  <2>1. ResolveGuideTokenId(page, tokens) = page /\ KeyToken(key) = page
    BY <1>1, <1>2 DEF ResolveGuideTokenId, KeyToken
  <2> QED
    BY <1>1, <1>2, <2>1 DEF OptToken, key
<1>3. CASE page \notin ConsoleToken
  <2>1. Cardinality(tokens) = 1 => (CHOOSE t \in tokens : TRUE) \in ConsoleToken
    <3>1. Cardinality(tokens) = 1 => tokens # {}
      BY FS_EmptySet
    <3> QED
      BY <3>1
  <2>2. ResolveGuideTokenId(page, tokens) =
            IF Cardinality(tokens) = 1 THEN CHOOSE t \in tokens : TRUE ELSE NoToken
    BY <1>3 DEF ResolveGuideTokenId
  <2> QED
    BY <1>1, <1>3, <2>1, <2>2 DEF OptToken, KeyToken, key
<1> QED
  BY <1>2, <1>3

\* What is offered for copying, or by the guide, the page may have.
LEMMA OfferedMayBeHad ==
    ASSUME ConsoleInv
    PROVE  /\ \A t : ConsoleCopyOffered(t) => t \in ConsoleToken /\ MayHave(t)
           /\ \A t \in RowCopies \cup CardCopies : ConsoleCopyOffered(t)
           /\ GuideOffered => GuideTokenId \in ConsoleToken /\ MayHave(GuideTokenId)
           /\ TokenPage => consolePage \in ConsoleToken /\ MayHave(consolePage)
<1>1. ~ConsoleUnavailable => availability # "disabled"
  BY DEF ConsoleUnavailable
<1>2. LandingPage => consolePage \notin ConsoleToken
  BY ConsoleConstants DEF LandingPage, LandingSection
<1>3. ownTokens \subseteq ConsoleToken /\ consolePage \in ConsolePage
  BY DEF ConsoleInv, ConsoleTypeOK
<1>4. ASSUME GuideOffered PROVE GuideTokenId \in ConsoleToken /\ MayHave(GuideTokenId)
  <2>1. GuideTokenId # NoToken /\ (TokenPage \/ LandingPage)
    BY <1>4 DEF GuideOffered, GuideShown
  <2>2. GuideTokenId \in OptToken /\ (consolePage \in ConsoleToken => GuideTokenId = consolePage)
    BY <1>3, TokenOfKey DEF GuideTokenId
  <2> QED
    BY <1>1, <2>1, <2>2 DEF OptToken, MayHave, TokenPage, LandingPage
<1>5. \A t : ConsoleCopyOffered(t) => t \in ConsoleToken /\ MayHave(t)
  BY <1>1, <1>2, <1>3 DEF ConsoleCopyOffered, RowCopies, CardCopies, FieldCopies, TokenPage, LandingPage, MayHave
<1>6. TokenPage => consolePage \in ConsoleToken /\ MayHave(consolePage)
  BY <1>1 DEF TokenPage, MayHave
<1>7. \A t \in RowCopies \cup CardCopies : ConsoleCopyOffered(t)
  BY DEF ConsoleCopyOffered
<1> QED
  BY <1>4, <1>5, <1>6, <1>7

\* The effects of a page, an availability and a list of tokens.
LEMMA EffectsKeepInv ==
    ASSUME ConsoleInv, NEW p \in ConsolePage, NEW a \in {"unknown", "enabled", "disabled", "logged_out"},
           NEW ts \in SUBSET ConsoleToken, RunConsoleEffects(p, a, ts),
           consoleLoad' \in [waits : {"profile", "lists", "none"}, sent : 1 .. MaxBaseLoads]
    PROVE  ConsoleInv'
<1> DEFINE passed == SecretScope(p) # SecretScope(consolePage) \/ a # availability
<1>0. ConsoleTypeOK /\ PlayOK /\ FieldOK /\ GuideOK /\ CopyHoldsRequest
  BY DEF ConsoleInv
<1>1. consolePage' = p /\ availability' = a /\ ownTokens' = ts
      /\ manualBubble' \in {NoToken, manualBubble}
  BY DEF RunConsoleEffects
<1>2. guide' \in {guide, NoGuide} /\ guideRuns' \subseteq GuideRec
      /\ \A r \in guideRuns' : r.token = KeyToken(r.key)
  <2>1. guideRuns \subseteq GuideRec /\ \A r \in guideRuns : r.token = KeyToken(r.key)
    BY <1>0 DEF ConsoleTypeOK, GuideOK, GuideRec
  <2>2. /\ PassGuideRuns(guideRuns) \subseteq GuideRec
        /\ \A r \in PassGuideRuns(guideRuns) : r.token = KeyToken(r.key)
    BY <2>1, StaleGuideRuns
  <2>3. /\ PassGuideRuns({}) \subseteq GuideRec
        /\ \A r \in PassGuideRuns({}) : r.token = KeyToken(r.key)
    BY StaleGuideRuns
  <2>4. /\ guide' = guide \/ guide' = NoGuide
        /\ guideRuns' = guideRuns \/ guideRuns' = PassGuideRuns(guideRuns) \/ guideRuns' = PassGuideRuns({})
    BY DEF RunConsoleEffects
  <2> QED
    BY <2>1, <2>2, <2>3, <2>4
<1>3. guide' \in [value : OptToken, key : ContextKey, loading : BOOLEAN] /\ GuideOK'
  BY <1>0, <1>2, NoFieldOrGuide DEF ConsoleTypeOK, GuideOK
<1>4. manualBubble' \in OptToken
  BY <1>0, <1>1 DEF ConsoleTypeOK, OptToken
<1>5. CASE passed
  <2>1. ResetSecrets
    BY <1>5 DEF RunConsoleEffects
  <2>2. /\ secretField' = NoField /\ warmTimers' = {} /\ warmOwned' = {} /\ consoleSecrets' = {}
        /\ pendingSecret' = [t \in ConsoleToken |-> "none"]
        /\ consoleCopies' = {c \in consoleCopies : c.phase = "writing"}
        /\ reveals' = {[r EXCEPT !.stale = TRUE] : r \in reveals}
    BY <2>1 DEF ResetSecrets, PassReveals
  <2>3. reveals' \subseteq RevealRec /\ \A r \in reveals' : r.stale
    BY <1>0, <2>2, StaleReveals DEF ConsoleTypeOK, RevealRec
  <2>4. PlayOK' /\ CopyHoldsRequest'
    BY <2>2, <2>3 DEF PlayOK, InPlay, CopyHoldsRequest
  <2>5. FieldOK'
    BY <2>2, NoFieldOrGuide DEF FieldOK
  <2>6. ConsoleTypeOK'
    BY <1>0, <1>1, <1>2, <1>3, <1>4, <2>2, <2>3, NoFieldOrGuide DEF ConsoleTypeOK, RevealRec, GuideRec
  <2> QED
    BY <1>3, <2>4, <2>5, <2>6 DEF ConsoleInv
<1>6. CASE ~passed
  <2>1. UNCHANGED <<fieldVars, requestVars, consoleCopies>>
    BY <1>6 DEF RunConsoleEffects
  <2>2. UNCHANGED <<secretField, reveals, consoleSecrets, pendingSecret, warmTimers, warmOwned, consoleCopies>>
    BY <2>1 DEF fieldVars, requestVars
  <2>3. SecretScope(p) = SecretScope(consolePage) /\ a = availability
    BY <1>6
  <2>4. p \in ConsoleToken => consolePage = p
    BY <2>3, ConsoleConstants DEF SecretScope
  <2>5. \A t : MayHave(t) => MayHave(t)'
    BY <1>1, <2>3, <2>4 DEF MayHave
  <2>6. \A t : InPlay(t)' <=> InPlay(t)
    BY <2>2 DEF InPlay
  <2>7. PlayOK' /\ FieldOK' /\ CopyHoldsRequest'
    BY <1>0, <2>2, <2>5, <2>6 DEF PlayOK, FieldOK, CopyHoldsRequest
  <2>8. ConsoleTypeOK'
    BY <1>0, <1>1, <1>2, <1>3, <1>4, <2>2 DEF ConsoleTypeOK, GuideRec
  <2> QED
    BY <1>3, <2>7, <2>8 DEF ConsoleInv
<1> QED
  BY <1>5, <1>6

\* A step that stays on the page brings into play what the page may have.
LEMMA StepOnPage ==
    ASSUME ConsoleInv, UNCHANGED baseVars, ConsoleTypeOK',
           \A t \in ConsoleToken : InPlay(t)' => InPlay(t) \/ MayHave(t),
           FieldOK', GuideOK', CopyHoldsRequest'
    PROVE  ConsoleInv'
<1>1. \A t : MayHave(t)' <=> MayHave(t)
  BY DEF MayHave, baseVars
<1> QED
  BY <1>1 DEF ConsoleInv, PlayOK

LEMMA WarmKeepsInv ==
    ASSUME ConsoleInv, NEW t \in ConsoleToken, NEW inline \in BOOLEAN, MayHave(t), WarmTokenSecret(t, inline),
           UNCHANGED <<baseVars, fieldVars, consoleCopies, manualBubble, guideVars>>
    PROVE  ConsoleInv'
<1>0. ConsoleTypeOK /\ PlayOK /\ FieldOK /\ GuideOK /\ CopyHoldsRequest
  BY DEF ConsoleInv
<1>1. warmTimers' = {w \in warmTimers : w.token # t}
  BY DEF WarmTokenSecret
<1>2. UNCHANGED <<consolePage, availability, ownTokens, consoleLoad, secretField, reveals,
                  consoleCopies, manualBubble, guide, guideRuns>>
  BY DEF baseVars, fieldVars, guideVars
<1>3. \/ UNCHANGED <<consoleSecrets, pendingSecret, warmOwned>>
      \/ consoleSecrets' = consoleSecrets \cup {t} /\ UNCHANGED <<pendingSecret, warmOwned>>
      \/ /\ pendingSecret[t] = "none" /\ warmOwned' = warmOwned \cup {t}
         /\ pendingSecret' = [pendingSecret EXCEPT ![t] = "sent"] /\ consoleSecrets' = consoleSecrets
  BY <1>0 DEF WarmTokenSecret, AskFor, ConsoleTypeOK
<1>4. pendingSecret \in [ConsoleToken -> {"none", "sent", "uncached"}]
  BY <1>0 DEF ConsoleTypeOK
<1>5. ConsoleTypeOK'
  BY <1>0, <1>1, <1>2, <1>3 DEF ConsoleTypeOK
<1>6. \A s \in ConsoleToken : InPlay(s)' => InPlay(s) \/ MayHave(s)
  BY <1>1, <1>2, <1>3, <1>4 DEF InPlay
<1>7. CopyHoldsRequest'
  BY <1>0, <1>2, <1>3, <1>4 DEF CopyHoldsRequest, ConsoleTypeOK
<1>8. FieldOK' /\ GuideOK'
  BY <1>0, <1>2 DEF FieldOK, GuideOK
<1> QED
  BY <1>5, <1>6, <1>7, <1>8, StepOnPage

\* A request that fails or is aborted ends those that wait for it.
LEMMA WaitersFailIs ==
    ASSUME ConsoleInv, NEW t \in ConsoleToken, WaitersFail(t)
    PROVE  /\ consoleCopies' = {c \in consoleCopies : c.token # t \/ c.phase = "writing"}
           /\ guideRuns' \subseteq guideRuns /\ GuideOK'
           /\ guide' \in [value : OptToken, key : ContextKey, loading : BOOLEAN]
<1>1. guide' \in {guide, NoGuide} /\ guideRuns' \subseteq guideRuns
  BY DEF WaitersFail
<1>2. guide \in [value : OptToken, key : ContextKey, loading : BOOLEAN] /\ GuideOK
  BY DEF ConsoleInv, ConsoleTypeOK
<1> QED
  BY <1>1, <1>2, NoFieldOrGuide DEF WaitersFail, GuideOK

\* What the field becomes: the secret of a token, or nothing of it.
LEMMA FieldOfToken ==
    ASSUME NEW t \in ConsoleToken
    PROVE  LET shown == [id |-> t, value |-> t, visible |-> TRUE, loading |-> FALSE]
               failed == [NoField EXCEPT !.id = t]
           IN  /\ {shown, failed} \subseteq [id : OptToken, value : OptToken, visible : BOOLEAN, loading : BOOLEAN]
               /\ shown.value = t /\ shown.id = t /\ failed.value = NoToken
<1>1. t \in OptToken
  BY DEF OptToken
<1>2. /\ [NoField EXCEPT !.id = t] \in [id : OptToken, value : OptToken, visible : BOOLEAN, loading : BOOLEAN]
      /\ [NoField EXCEPT !.id = t].value = NoToken
  BY <1>1, NoFieldOrGuide
<1>3. [id |-> t, value |-> t, visible |-> TRUE, loading |-> FALSE] \in
          [id : OptToken, value : OptToken, visible : BOOLEAN, loading : BOOLEAN]
  BY <1>1
<1>4. /\ [id |-> t, value |-> t, visible |-> TRUE, loading |-> FALSE].value = t
      /\ [id |-> t, value |-> t, visible |-> TRUE, loading |-> FALSE].id = t
  OBVIOUS
<1> QED
  BY <1>2, <1>3, <1>4

LEMMA ConsoleStepInv == ConsoleInv /\ [ConsoleNext]_consoleVars => ConsoleInv'
<1> SUFFICES ASSUME ConsoleInv, [ConsoleNext]_consoleVars PROVE ConsoleInv'
  OBVIOUS
<1>t. ConsoleTypeOK /\ PlayOK /\ FieldOK /\ GuideOK /\ CopyHoldsRequest
  BY DEF ConsoleInv
<1>s. /\ pendingSecret \in [ConsoleToken -> {"none", "sent", "uncached"}]
      /\ secretField \in [id : OptToken, value : OptToken, visible : BOOLEAN, loading : BOOLEAN]
      /\ reveals \subseteq RevealRec /\ guideRuns \subseteq GuideRec
      /\ guide \in [value : OptToken, key : ContextKey, loading : BOOLEAN]
      /\ consoleLoad \in [waits : {"profile", "lists", "none"}, sent : 1 .. MaxBaseLoads]
      /\ consolePage \in ConsolePage /\ ownTokens \subseteq ConsoleToken
      /\ availability \in {"unknown", "enabled", "disabled", "logged_out"}
  BY <1>t DEF ConsoleTypeOK, RevealRec, GuideRec
\* What leaves everything alone but the load of the base data and the bubble.
<1>b. ASSUME consoleLoad' \in [waits : {"profile", "lists", "none"}, sent : 1 .. MaxBaseLoads],
             manualBubble' \in OptToken,
             UNCHANGED <<consolePage, availability, ownTokens, fieldVars, requestVars, consoleCopies, guideVars>>
      PROVE  ConsoleInv'
  <2>1. UNCHANGED <<secretField, reveals, consoleSecrets, pendingSecret, warmTimers, warmOwned, guide, guideRuns>>
    BY <1>b DEF fieldVars, requestVars, guideVars
  <2>2. ConsoleTypeOK'
    BY <1>b, <1>t, <2>1 DEF ConsoleTypeOK
  <2>3. \A t : (MayHave(t)' <=> MayHave(t)) /\ (InPlay(t)' <=> InPlay(t))
    BY <1>b, <2>1 DEF MayHave, InPlay
  <2> QED
    BY <1>b, <1>t, <2>1, <2>2, <2>3 DEF ConsoleInv, PlayOK, FieldOK, GuideOK, CopyHoldsRequest
<1>1. ASSUME NEW p \in ConsolePage, NavigateToRoute(p) PROVE ConsoleInv'
  BY <1>1, <1>s, EffectsKeepInv DEF NavigateToRoute
<1>2. ASSUME NEW a \in {"enabled", "disabled", "logged_out"}, ProfileAnswered(a) PROVE ConsoleInv'
  <2>1. consoleLoad' \in [waits : {"profile", "lists", "none"}, sent : 1 .. MaxBaseLoads]
    BY <1>2, <1>s DEF ProfileAnswered
  <2>2. RunConsoleEffects(consolePage, a, {}) \/ RunConsoleEffects(consolePage, a, ownTokens)
    BY <1>2 DEF ProfileAnswered
  <2> QED
    BY <1>s, <2>1, <2>2, EffectsKeepInv
<1>3. ASSUME NEW ts \in SUBSET ConsoleToken, ListsAnswered(ts) PROVE ConsoleInv'
  <2>1. consoleLoad' \in [waits : {"profile", "lists", "none"}, sent : 1 .. MaxBaseLoads]
    BY <1>3, <1>s DEF ListsAnswered
  <2> QED
    BY <1>3, <1>s, <2>1, EffectsKeepInv DEF ListsAnswered
<1>4. CASE BaseFails
  BY <1>4, <1>b, <1>s, <1>t DEF BaseFails, ConsoleTypeOK
<1>5. CASE ChangeLanguage
  <2>1. consoleLoad' \in [waits : {"profile", "lists", "none"}, sent : 1 .. MaxBaseLoads]
    BY <1>5, <1>s, ConsoleConstants DEF ChangeLanguage
  <2> QED
    BY <1>5, <1>b, <1>t, <2>1 DEF ChangeLanguage, ConsoleTypeOK
<1>6. CASE CloseManualBubble
  BY <1>6, <1>b, <1>s DEF CloseManualBubble, baseVars, OptToken
<1>7. CASE ToggleTokenSecretVisibility
  <2>1. /\ UNCHANGED <<baseVars, consoleSecrets, warmTimers, warmOwned, consoleCopies, manualBubble, guideVars>>
        /\ HideTokenSecret \/ RevealTokenSecret
        /\ TokenPage
    BY <1>7 DEF ToggleTokenSecretVisibility, ToggleOffered
  <2>2. consolePage \in ConsoleToken /\ MayHave(consolePage)
    BY <2>1, OfferedMayBeHad
  <2> DEFINE passed == {[r EXCEPT !.stale = TRUE] : r \in reveals}
             new == [token |-> consolePage, stale |-> FALSE]
             field == [NoField EXCEPT !.id = consolePage, !.loading = TRUE]
  <2>3. passed \subseteq RevealRec /\ \A r \in passed : r.stale
    BY <1>s, StaleReveals
  <2>4. new \in RevealRec /\ new.token = consolePage
    BY <2>2 DEF RevealRec
  <2>5. /\ field \in [id : OptToken, value : OptToken, visible : BOOLEAN, loading : BOOLEAN]
        /\ field.value = NoToken
    BY <2>2 DEF NoField, OptToken
  <2>6. /\ secretField' \in {NoField, field} /\ reveals' \in {passed, passed \cup {new}}
        /\ pendingSecret' = PassedRequests
    BY <2>1 DEF HideTokenSecret, RevealTokenSecret, PassReveals
  <2> HIDE DEF passed, new, field
  <2>7. /\ pendingSecret' \in [ConsoleToken -> {"none", "sent", "uncached"}]
        /\ \A t \in ConsoleToken : pendingSecret'[t] = "none" <=> pendingSecret[t] = "none"
    BY <2>6 DEF PassedRequests
  <2>8. reveals' \subseteq RevealRec /\ \A r \in reveals' : ~r.stale => r.token = consolePage
    BY <2>3, <2>4, <2>6
  <2>9. FieldOK' /\ secretField' \in [id : OptToken, value : OptToken, visible : BOOLEAN, loading : BOOLEAN]
    BY <2>5, <2>6, NoFieldOrGuide DEF FieldOK
  <2>10. UNCHANGED <<consolePage, availability, ownTokens, consoleLoad, guide, guideRuns>>
    BY <2>1 DEF baseVars, guideVars
  <2>11. ConsoleTypeOK'
    BY <1>t, <2>1, <2>7, <2>8, <2>9, <2>10 DEF ConsoleTypeOK, RevealRec
  <2>12. \A t \in ConsoleToken : InPlay(t)' => InPlay(t) \/ MayHave(t)
    BY <2>1, <2>2, <2>7, <2>8 DEF InPlay
  <2>13. CopyHoldsRequest'
    BY <1>t, <2>1, <2>7 DEF CopyHoldsRequest, ConsoleTypeOK
  <2>14. GuideOK'
    BY <1>t, <2>10 DEF GuideOK
  <2> QED
    BY <2>1, <2>9, <2>11, <2>12, <2>13, <2>14, StepOnPage
<1>8. CASE ToggleGuideTokenVisibility
  <2>1. /\ UNCHANGED <<baseVars, fieldVars, consoleSecrets, warmTimers, warmOwned, consoleCopies, manualBubble>>
        /\ HideGuideToken \/ RevealGuideToken
        /\ GuideTokenId \in ConsoleToken /\ MayHave(GuideTokenId)
    BY <1>8, OfferedMayBeHad DEF ToggleGuideTokenVisibility
  <2>2. GuideKey \in ContextKey /\ KeyToken(GuideKey) = GuideTokenId
    BY <1>s, TokenOfKey DEF GuideKey, GuideTokenId
  <2>3. /\ PassGuideRuns(guideRuns) \subseteq GuideRec
        /\ \A r \in PassGuideRuns(guideRuns) : r.token = KeyToken(r.key)
    BY <1>s, <1>t, StaleGuideRuns DEF GuideOK
  <2> DEFINE t == GuideTokenId
             shown == [value |-> t, key |-> GuideKey, loading |-> FALSE]
             waits == [NoGuide EXCEPT !.loading = TRUE]
             new == [token |-> t, key |-> GuideKey, stale |-> FALSE]
  <2>4. /\ shown \in [value : OptToken, key : ContextKey, loading : BOOLEAN]
        /\ shown.value = KeyToken(shown.key)
    BY <2>1, <2>2 DEF OptToken
  <2>5. waits \in [value : OptToken, key : ContextKey, loading : BOOLEAN] /\ waits.value = NoToken
    BY NoFieldOrGuide
  <2>6. new \in GuideRec /\ new.token = KeyToken(new.key)
    BY <2>1, <2>2 DEF GuideRec
  <2>7. \/ guide' = NoGuide /\ guideRuns' = PassGuideRuns(guideRuns) /\ UNCHANGED pendingSecret
        \/ guide' = shown /\ guideRuns' = PassGuideRuns(guideRuns) /\ UNCHANGED pendingSecret
        \/ guide' = waits /\ guideRuns' = PassGuideRuns(guideRuns) \cup {new} /\ AskFor(t)
    <3>1. CASE HideGuideToken
      BY <3>1 DEF HideGuideToken
    <3>2. CASE RevealGuideToken
      BY <3>2 DEF RevealGuideToken
    <3> QED
      BY <2>1, <3>1, <3>2
  <2> HIDE DEF shown, waits, new
  <2>8. /\ guide' \in [value : OptToken, key : ContextKey, loading : BOOLEAN]
        /\ guideRuns' \subseteq GuideRec /\ GuideOK'
    BY <2>3, <2>4, <2>5, <2>6, <2>7, NoFieldOrGuide DEF GuideOK
  <2>9. /\ pendingSecret' \in [ConsoleToken -> {"none", "sent", "uncached"}]
        /\ \A s \in ConsoleToken : s = t \/ pendingSecret'[s] = pendingSecret[s]
        /\ \A s \in ConsoleToken : pendingSecret[s] # "none" => pendingSecret'[s] # "none"
    BY <1>s, <2>1, <2>7 DEF AskFor
  <2>10. UNCHANGED <<consolePage, availability, ownTokens, consoleLoad, secretField, reveals>>
    BY <2>1 DEF baseVars, fieldVars
  <2>11. ConsoleTypeOK'
    BY <1>t, <2>1, <2>8, <2>9, <2>10 DEF ConsoleTypeOK, GuideRec
  <2>12. \A s \in ConsoleToken : InPlay(s)' => InPlay(s) \/ MayHave(s)
    BY <2>1, <2>9, <2>10 DEF InPlay
  <2>13. CopyHoldsRequest' /\ FieldOK'
    BY <1>t, <2>1, <2>9, <2>10 DEF CopyHoldsRequest, ConsoleTypeOK, FieldOK
  <2> QED
    BY <2>1, <2>8, <2>11, <2>12, <2>13, StepOnPage
<1>9. ASSUME NEW r \in reveals, NEW ok \in BOOLEAN, RevealAnswered(r, ok) PROVE ConsoleInv'
  <2>1. /\ UNCHANGED <<baseVars, pendingSecret, warmTimers, warmOwned, consoleCopies, manualBubble, guideVars>>
        /\ reveals' = reveals \ {r}
    BY <1>9 DEF RevealAnswered
  <2>2. r.token \in ConsoleToken
    BY <1>s DEF RevealRec
  <2>3. \/ UNCHANGED <<secretField, consoleSecrets>>
        \/ /\ ~r.stale /\ consoleSecrets' = consoleSecrets \cup {r.token}
           /\ secretField' = [id |-> r.token, value |-> r.token, visible |-> TRUE, loading |-> FALSE]
        \/ secretField' = [NoField EXCEPT !.id = r.token] /\ UNCHANGED consoleSecrets
    BY <1>9 DEF RevealAnswered, RevealIsCurrent
  <2>4. FieldOK' /\ secretField' \in [id : OptToken, value : OptToken, visible : BOOLEAN, loading : BOOLEAN]
    <3> DEFINE shown == [id |-> r.token, value |-> r.token, visible |-> TRUE, loading |-> FALSE]
               failed == [NoField EXCEPT !.id = r.token]
    <3>1. /\ {shown, failed} \subseteq [id : OptToken, value : OptToken, visible : BOOLEAN, loading : BOOLEAN]
          /\ shown.value = r.token /\ shown.id = r.token /\ failed.value = NoToken
      BY <2>2, FieldOfToken
    <3>2. secretField' \in {secretField, shown, failed}
      BY <2>3
    <3> HIDE DEF shown, failed
    <3> QED
      BY <1>s, <1>t, <3>1, <3>2 DEF FieldOK
  <2>5. ~r.stale => InPlay(r.token)
    BY DEF InPlay
  <2>6. UNCHANGED <<consolePage, availability, ownTokens, consoleLoad, guide, guideRuns>>
    BY <2>1 DEF baseVars, guideVars
  <2>7. consoleSecrets' \subseteq ConsoleToken
    BY <1>t, <2>2, <2>3 DEF ConsoleTypeOK
  <2>8. ConsoleTypeOK'
    BY <1>t, <2>1, <2>4, <2>6, <2>7 DEF ConsoleTypeOK
  <2>9. \A t \in ConsoleToken : InPlay(t)' => InPlay(t)
    BY <2>1, <2>3, <2>5 DEF InPlay
  <2>10. CopyHoldsRequest' /\ GuideOK'
    BY <1>t, <2>1, <2>6 DEF CopyHoldsRequest, GuideOK
  <2> QED
    BY <2>1, <2>4, <2>8, <2>9, <2>10, StepOnPage
<1>10. ASSUME NEW w \in warmTimers, WarmTimerElapses(w) PROVE ConsoleInv'
  <2>1. w.token \in ConsoleToken /\ w.inline \in BOOLEAN
    BY <1>t DEF ConsoleTypeOK
  <2>2. MayHave(w.token)
    BY <1>t, <2>1 DEF PlayOK, InPlay
  <2> QED
    BY <1>10, <2>1, <2>2, WarmKeepsInv DEF WarmTimerElapses
<1>11. ASSUME NEW c \in consoleCopies, NEW ok \in BOOLEAN, CopyWritten(c, ok) PROVE ConsoleInv'
  <2>1. /\ UNCHANGED <<baseVars, reveals, pendingSecret, warmTimers, warmOwned, guideVars>>
        /\ consoleCopies' \subseteq consoleCopies /\ consoleSecrets' \subseteq consoleSecrets
    BY <1>11 DEF CopyWritten
  <2>2. c.token \in ConsoleToken
    BY <1>t DEF ConsoleTypeOK
  <2>3. /\ manualBubble' \in {NoToken, manualBubble, c.token}
        /\ secretField' \in {secretField, [id |-> c.token, value |-> c.token, visible |-> TRUE, loading |-> FALSE]}
    BY <1>11 DEF CopyWritten, ShowForManualCopy
  <2>4. FieldOK' /\ secretField' \in [id : OptToken, value : OptToken, visible : BOOLEAN, loading : BOOLEAN]
    <3> DEFINE shown == [id |-> c.token, value |-> c.token, visible |-> TRUE, loading |-> FALSE]
    <3>1. /\ shown \in [id : OptToken, value : OptToken, visible : BOOLEAN, loading : BOOLEAN]
          /\ shown.value = c.token /\ shown.id = c.token
      BY <2>2, FieldOfToken
    <3>2. secretField' \in {secretField, shown}
      BY <2>3
    <3> HIDE DEF shown
    <3> QED
      BY <1>s, <1>t, <3>1, <3>2 DEF FieldOK
  <2>5. UNCHANGED <<consolePage, availability, ownTokens, consoleLoad, guide, guideRuns>>
    BY <2>1 DEF baseVars, guideVars
  <2>6. ConsoleTypeOK'
    BY <1>t, <2>1, <2>2, <2>3, <2>4, <2>5 DEF ConsoleTypeOK, OptToken
  <2>7. \A t \in ConsoleToken : InPlay(t)' => InPlay(t)
    BY <2>1 DEF InPlay
  <2>8. CopyHoldsRequest' /\ GuideOK'
    BY <1>t, <2>1, <2>5 DEF CopyHoldsRequest, GuideOK
  <2> QED
    BY <2>1, <2>4, <2>6, <2>7, <2>8, StepOnPage
<1>12. ASSUME NEW t \in ConsoleToken, ScheduleWarmTokenSecret(t) PROVE ConsoleInv'
  <2>1. /\ UNCHANGED <<baseVars, fieldVars, consoleSecrets, pendingSecret, warmOwned, consoleCopies,
                       manualBubble, guideVars>>
        /\ warmTimers' = {w \in warmTimers : w.token # t} \cup {[token |-> t, inline |-> Inline(t)]}
        /\ MayHave(t)
    BY <1>12, OfferedMayBeHad DEF ScheduleWarmTokenSecret
  <2>2. Inline(t) \in BOOLEAN
    BY DEF Inline
  <2>3. UNCHANGED <<consolePage, availability, ownTokens, consoleLoad, secretField, reveals, guide, guideRuns>>
    BY <2>1 DEF baseVars, fieldVars, guideVars
  <2>4. ConsoleTypeOK'
    BY <1>t, <2>1, <2>2, <2>3 DEF ConsoleTypeOK
  <2>5. \A s \in ConsoleToken : InPlay(s)' => InPlay(s) \/ MayHave(s)
    BY <2>1, <2>3 DEF InPlay
  <2>6. CopyHoldsRequest' /\ GuideOK' /\ FieldOK'
    BY <1>t, <2>1, <2>3 DEF CopyHoldsRequest, GuideOK, FieldOK
  <2> QED
    BY <2>1, <2>4, <2>5, <2>6, StepOnPage
<1>13. ASSUME NEW t \in ConsoleToken, PressCopy(t) PROVE ConsoleInv'
  <2>1. MayHave(t) /\ Inline(t) \in BOOLEAN
    BY <1>13, OfferedMayBeHad DEF PressCopy, Inline
  <2> QED
    BY <1>13, <2>1, WarmKeepsInv DEF PressCopy
<1>14. ASSUME NEW t \in ConsoleToken, CancelWarmTokenSecret(t) PROVE ConsoleInv'
  <2>1. /\ UNCHANGED <<baseVars, fieldVars, consoleSecrets, manualBubble>>
        /\ warmTimers' \subseteq warmTimers /\ warmOwned' = warmOwned \ {t}
        /\ \/ pendingSecret' = [pendingSecret EXCEPT ![t] = "none"] /\ WaitersFail(t)
           \/ UNCHANGED <<pendingSecret, consoleCopies, guideVars>>
    BY <1>14 DEF CancelWarmTokenSecret
  <2>2. UNCHANGED <<consolePage, availability, ownTokens, consoleLoad, secretField, reveals>>
    BY <2>1 DEF baseVars, fieldVars
  <2>3. /\ consoleCopies' \subseteq consoleCopies /\ guideRuns' \subseteq guideRuns /\ GuideOK'
        /\ guide' \in [value : OptToken, key : ContextKey, loading : BOOLEAN]
    <3>1. CASE WaitersFail(t)
      BY <3>1, WaitersFailIs
    <3>2. CASE UNCHANGED <<consoleCopies, guideVars>>
      BY <3>2, <1>s, <1>t DEF guideVars, GuideOK
    <3> QED
      BY <2>1, <3>1, <3>2
  <2>4. /\ pendingSecret' \in [ConsoleToken -> {"none", "sent", "uncached"}]
        /\ \A s \in ConsoleToken : pendingSecret'[s] # "none" => pendingSecret[s] # "none"
    BY <1>s, <2>1
  <2>5. ConsoleTypeOK'
    BY <1>t, <2>1, <2>2, <2>3, <2>4 DEF ConsoleTypeOK
  <2>6. \A s \in ConsoleToken : InPlay(s)' => InPlay(s)
    BY <2>1, <2>2, <2>4 DEF InPlay
  <2>7. CopyHoldsRequest'
    <3>1. CASE pendingSecret' = [pendingSecret EXCEPT ![t] = "none"] /\ WaitersFail(t)
      BY <1>s, <1>t, <2>1, <3>1, WaitersFailIs DEF CopyHoldsRequest, ConsoleTypeOK
    <3>2. CASE UNCHANGED <<pendingSecret, consoleCopies, guideVars>>
      BY <1>t, <2>1, <3>2 DEF CopyHoldsRequest
    <3> QED
      BY <2>1, <3>1, <3>2
  <2>8. FieldOK'
    BY <1>t, <2>2 DEF FieldOK
  <2> QED
    BY <2>1, <2>3, <2>5, <2>6, <2>7, <2>8, StepOnPage
<1>15. ASSUME NEW t \in ConsoleToken, SecretAnswered(t) PROVE ConsoleInv'
  <2>1. /\ pendingSecret[t] # "none" /\ pendingSecret' = [pendingSecret EXCEPT ![t] = "none"]
        /\ consoleSecrets' \subseteq consoleSecrets \cup {t} /\ warmOwned' = warmOwned \ {t}
        /\ consoleCopies' = {IF c.token = t THEN [c EXCEPT !.phase = "writing"] ELSE c : c \in consoleCopies}
        /\ guideRuns' \subseteq guideRuns
        /\ UNCHANGED <<baseVars, fieldVars, warmTimers, manualBubble>>
    BY <1>15 DEF SecretAnswered
  <2>2. UNCHANGED <<consolePage, availability, ownTokens, consoleLoad, secretField, reveals>>
    BY <2>1 DEF baseVars, fieldVars
  <2>3. guide' \in [value : OptToken, key : ContextKey, loading : BOOLEAN] /\ GuideOK'
    <3>1. CASE \E r \in guideRuns : r.token = t /\ ~r.stale
      <4> DEFINE r == CHOOSE r \in guideRuns : r.token = t /\ ~r.stale
      <4>1. r \in guideRuns /\ r.token = t
        BY <3>1
      <4>2. guide' = [value |-> t, key |-> r.key, loading |-> FALSE]
        BY <1>15, <3>1 DEF SecretAnswered
      <4> HIDE DEF r
      <4>3. r.key \in ContextKey /\ KeyToken(r.key) = t
        BY <1>s, <1>t, <4>1 DEF GuideRec, GuideOK
      <4>4. guide' \in [value : OptToken, key : ContextKey, loading : BOOLEAN]
        BY <4>2, <4>3 DEF OptToken
      <4>5. guide'.value = t /\ guide'.key = r.key
        BY <4>2
      <4> QED
        BY <1>t, <2>1, <4>3, <4>4, <4>5 DEF GuideOK
    <3>2. CASE ~\E r \in guideRuns : r.token = t /\ ~r.stale
      <4>1. guide' = guide
        BY <1>15, <3>2 DEF SecretAnswered
      <4> QED
        BY <1>s, <1>t, <2>1, <4>1 DEF GuideOK
    <3> QED
      BY <3>1, <3>2
  <2>4. /\ consoleCopies' \subseteq [token : ConsoleToken, page : ConsolePage, sameId : BOOLEAN,
                                     cached : BOOLEAN, phase : {"resolving", "writing"}]
        /\ \A c \in consoleCopies' : c.phase = "resolving" => c \in consoleCopies /\ c.token # t
    <3>1. \A c \in consoleCopies : c \in [token : ConsoleToken, page : ConsolePage, sameId : BOOLEAN,
                                          cached : BOOLEAN, phase : {"resolving", "writing"}]
      BY <1>t DEF ConsoleTypeOK
    <3>2. \A c \in consoleCopies : LET d == [c EXCEPT !.phase = "writing"]
                                   IN  /\ d \in [token : ConsoleToken, page : ConsolePage, sameId : BOOLEAN,
                                                 cached : BOOLEAN, phase : {"resolving", "writing"}]
                                       /\ d.phase = "writing"
      BY <3>1
    <3> QED
      BY <2>1, <3>1, <3>2
  <2>5. /\ pendingSecret' \in [ConsoleToken -> {"none", "sent", "uncached"}]
        /\ \A s \in ConsoleToken : pendingSecret'[s] # "none" => pendingSecret[s] # "none"
        /\ \A s \in ConsoleToken : s # t => pendingSecret'[s] = pendingSecret[s]
    BY <1>s, <2>1
  <2>6. ConsoleTypeOK'
    BY <1>t, <2>1, <2>2, <2>3, <2>4, <2>5 DEF ConsoleTypeOK
  <2>7. \A s \in ConsoleToken : InPlay(s)' => InPlay(s)
    BY <2>1, <2>2, <2>5 DEF InPlay
  <2>8. CopyHoldsRequest' /\ FieldOK'
    BY <1>t, <2>1, <2>2, <2>4, <2>5 DEF CopyHoldsRequest, ConsoleTypeOK, FieldOK
  <2> QED
    BY <2>1, <2>3, <2>6, <2>7, <2>8, StepOnPage
<1>16. ASSUME NEW t \in ConsoleToken, SecretFails(t) PROVE ConsoleInv'
  <2>1. /\ UNCHANGED <<baseVars, fieldVars, consoleSecrets, warmTimers, manualBubble>>
        /\ warmOwned' = warmOwned \ {t} /\ WaitersFail(t)
        /\ pendingSecret' = [pendingSecret EXCEPT ![t] = "none"]
    BY <1>16 DEF SecretFails
  <2>2. UNCHANGED <<consolePage, availability, ownTokens, consoleLoad, secretField, reveals>>
    BY <2>1 DEF baseVars, fieldVars
  <2>3. /\ consoleCopies' = {c \in consoleCopies : c.token # t \/ c.phase = "writing"}
        /\ guideRuns' \subseteq guideRuns /\ GuideOK'
        /\ guide' \in [value : OptToken, key : ContextKey, loading : BOOLEAN]
    BY <2>1, WaitersFailIs
  <2>4. /\ pendingSecret' \in [ConsoleToken -> {"none", "sent", "uncached"}]
        /\ \A s \in ConsoleToken : pendingSecret'[s] # "none" => pendingSecret[s] # "none"
        /\ \A s \in ConsoleToken : s # t => pendingSecret'[s] = pendingSecret[s]
    BY <1>s, <2>1
  <2>5. ConsoleTypeOK'
    BY <1>t, <2>1, <2>2, <2>3, <2>4 DEF ConsoleTypeOK
  <2>6. \A s \in ConsoleToken : InPlay(s)' => InPlay(s)
    BY <2>1, <2>2, <2>4 DEF InPlay
  <2>7. CopyHoldsRequest' /\ FieldOK'
    BY <1>t, <2>1, <2>2, <2>3, <2>4 DEF CopyHoldsRequest, ConsoleTypeOK, FieldOK
  <2> QED
    BY <2>1, <2>3, <2>5, <2>6, <2>7, StepOnPage
<1>17. ASSUME NEW t \in ConsoleToken, CacheElapses(t) PROVE ConsoleInv'
  <2>1. /\ UNCHANGED <<baseVars, fieldVars, pendingSecret, warmTimers, warmOwned, consoleCopies,
                       manualBubble, guideVars>>
        /\ consoleSecrets' \subseteq consoleSecrets
    BY <1>17 DEF CacheElapses
  <2>2. UNCHANGED <<consolePage, availability, ownTokens, consoleLoad, secretField, reveals, guide, guideRuns>>
    BY <2>1 DEF baseVars, fieldVars, guideVars
  <2>3. ConsoleTypeOK'
    BY <1>t, <2>1, <2>2 DEF ConsoleTypeOK
  <2>4. \A s \in ConsoleToken : InPlay(s)' => InPlay(s)
    BY <2>1, <2>2 DEF InPlay
  <2>5. CopyHoldsRequest' /\ GuideOK' /\ FieldOK'
    BY <1>t, <2>1, <2>2 DEF CopyHoldsRequest, GuideOK, FieldOK
  <2> QED
    BY <2>1, <2>3, <2>4, <2>5, StepOnPage
<1>18. ASSUME NEW t \in ConsoleToken, CopyToken(t) PROVE ConsoleInv'
  <2> DEFINE cached == Inline(t) \/ t \in consoleSecrets
             new == [token |-> t, page |-> consolePage, sameId |-> secretField.id = t, cached |-> cached,
                     phase |-> IF cached THEN "writing" ELSE "resolving"]
  <2>1. /\ UNCHANGED <<baseVars, fieldVars, consoleSecrets, guideVars>>
        /\ manualBubble' = NoToken /\ MayHave(t)
        /\ warmTimers' = {w \in warmTimers : w.token # t} /\ warmOwned' = warmOwned \ {t}
        /\ consoleCopies' = consoleCopies \cup {new}
        /\ IF cached THEN UNCHANGED pendingSecret ELSE AskFor(t)
    BY <1>18, OfferedMayBeHad DEF CopyToken, CommitWarmTokenSecret
  <2>2. new \in [token : ConsoleToken, page : ConsolePage, sameId : BOOLEAN, cached : BOOLEAN,
                 phase : {"resolving", "writing"}]
    BY <1>s DEF Inline
  <2>3. new.token = t /\ (new.phase = "resolving" => ~cached)
    OBVIOUS
  <2>4. /\ pendingSecret' \in [ConsoleToken -> {"none", "sent", "uncached"}]
        /\ \A s \in ConsoleToken : pendingSecret[s] # "none" => pendingSecret'[s] # "none"
        /\ \A s \in ConsoleToken : s # t => pendingSecret'[s] = pendingSecret[s]
        /\ ~cached => pendingSecret'[t] # "none"
    BY <1>s, <2>1 DEF AskFor
  <2> HIDE DEF new, cached
  <2>5. UNCHANGED <<consolePage, availability, ownTokens, consoleLoad, secretField, reveals, guide, guideRuns>>
    BY <2>1 DEF baseVars, fieldVars, guideVars
  <2>6. ConsoleTypeOK'
    BY <1>t, <2>1, <2>2, <2>4, <2>5 DEF ConsoleTypeOK, OptToken
  <2>7. \A s \in ConsoleToken : InPlay(s)' => InPlay(s) \/ MayHave(s)
    BY <2>1, <2>4, <2>5 DEF InPlay
  <2>8. CopyHoldsRequest'
    BY <1>t, <2>1, <2>3, <2>4 DEF CopyHoldsRequest, ConsoleTypeOK
  <2>9. FieldOK' /\ GuideOK'
    BY <1>t, <2>5 DEF FieldOK, GuideOK
  <2> QED
    BY <2>1, <2>6, <2>7, <2>8, <2>9, StepOnPage
<1>19. CASE UNCHANGED consoleVars
  <2>1. UNCHANGED <<consolePage, availability, ownTokens, fieldVars, requestVars, consoleCopies, guideVars,
                    consoleLoad, manualBubble>>
    BY <1>19 DEF consoleVars, fieldVars, requestVars, guideVars
  <2> QED
    BY <1>b, <1>t, <2>1 DEF ConsoleTypeOK
<1> QED
  BY <1>1, <1>2, <1>3, <1>4, <1>5, <1>6, <1>7, <1>8, <1>9, <1>10, <1>11, <1>12, <1>13, <1>14, <1>15, <1>16,
     <1>17, <1>18, <1>19 DEF ConsoleNext, FieldProgress, RequestProgress

LEMMA ConsoleInvImplies == ConsoleInv => ConsoleTypeOK /\ SecretsStayOnPage /\ CopyHoldsRequest
<1> SUFFICES ASSUME ConsoleInv PROVE SecretsStayOnPage
  BY DEF ConsoleInv
<1>1. FieldShows \subseteq {consolePage}
  BY DEF FieldShows, DetailTokenVisible, ConsoleInv, FieldOK
<1>2. ASSUME GuideTokenVisible PROVE guide.value = GuideTokenId
  <2>1. guide.value = KeyToken(GuideKey)
    BY <1>2 DEF GuideTokenVisible, ConsoleInv, GuideOK
  <2> QED
    BY <2>1, TokenOfKey DEF GuideKey, GuideTokenId, ConsoleInv, ConsoleTypeOK
<1>3. BuildGuideContent(guide.value) \subseteq {guide.value}
  BY DEF BuildGuideContent, StepsWith, SamplesWith
<1>4. GuideShows \subseteq {GuideTokenId}
  BY <1>2, <1>3 DEF GuideShows
<1>5. \A t \in consoleSecrets : MayHave(t)
  BY DEF ConsoleInv, ConsoleTypeOK, PlayOK, InPlay
<1> QED
  BY <1>1, <1>4, <1>5 DEF SecretsStayOnPage, MayHave

-----------------------------------------------------------------------------
(* The connectivity checks of a token's page (ConsoleProbe).                  *)

Plans == Seq(McpStep \cup ApiStep)

\* A run always has a step left, and holds back the billable calls for a reason.
GoodRun(r) ==
    /\ r \in Run /\ r.plan # <<>>
    /\ r.blocked /\ r.phase \in {"call", "refresh"} => r.sawSpent \/ r.recheckFailed

\* A run that was not passed is of the page, and knows when its quota is spent.
OfThisPage(r) == r.token = probePage /\ (r.token \in quotaSpent => r.sawSpent)

RunsOK ==
    /\ \A r \in probeRuns : GoodRun(r) /\ (~r.stale => OfThisPage(r))
    /\ \A r, s \in probeRuns : ~r.stale /\ ~s.stale => r = s
    /\ \A k \in Kind : probeButton[k] = "running" <=> \E r \in probeRuns : ~r.stale /\ r.kind = k
    /\ probeButton \in [Kind -> {"idle", "running", "success", "partial", "failed"}]

BubbleRec == [token : ProbeToken, kind : Kind, items : Items]
DetailRec == [token : ProbeToken, spent : BOOLEAN]
BubbleOK == \/ probeBubble = NoPage
            \/ probeBubble \in BubbleRec /\ probeBubble.token = probePage
DetailOK == \/ tokenDetail = NoPage
            \/ tokenDetail \in DetailRec /\ tokenDetail.token = probePage
LoadOK ==
    /\ probePage \in ProbeToken \cup {NoPage} /\ quotaSpent \subseteq ProbeToken
    /\ tokenLogs \in {probePage, NoPage} /\ tokenLoading \in BOOLEAN /\ tokenLoad \in BOOLEAN
    /\ tokenLoad => probePage # NoPage

ProbeInv == RunsOK /\ BubbleOK /\ DetailOK /\ LoadOK

LEMMA ProbeInvImplies ==
    ProbeInv => ProbeTypeOK /\ SpinsWithRun /\ ShowsOwnToken /\ HeldBackOnlyIfSpent
<1> SUFFICES ASSUME ProbeInv PROVE ProbeTypeOK /\ SpinsWithRun /\ ShowsOwnToken /\ HeldBackOnlyIfSpent
  OBVIOUS
<1>1. probeRuns \subseteq Run
  BY DEF ProbeInv, RunsOK, GoodRun
<1>2. ProbeTypeOK
  BY <1>1 DEF ProbeInv, RunsOK, BubbleOK, BubbleRec, DetailOK, DetailRec, LoadOK, ProbeTypeOK
<1>3. Cardinality({r \in probeRuns : ~r.stale}) <= 1
  <2> DEFINE S == {r \in probeRuns : ~r.stale}
  <2>1. CASE S = {}
    BY <2>1, FS_EmptySet
  <2>2. CASE S # {}
    <3>1. PICK x \in S : TRUE
      BY <2>2
    <3>2. S = {x}
      BY <3>1 DEF ProbeInv, RunsOK
    <3> QED
      BY <3>2, FS_Singleton
  <2> QED
    BY <2>1, <2>2
<1>4. SpinsWithRun
  BY <1>3 DEF SpinsWithRun, ProbeInv, RunsOK
<1>5. ShowsOwnToken
  BY DEF ShowsOwnToken, LogsShown, ProbeInv, BubbleOK, DetailOK, LoadOK
<1>6. HeldBackOnlyIfSpent
  BY DEF HeldBackOnlyIfSpent, ProbeInv, RunsOK, GoodRun
<1> QED
  BY <1>2, <1>4, <1>5, <1>6

LEMMA PlansAre == /\ McpPlan \in Plans /\ ApiPlan \in Plans
                  /\ McpPlan # <<>> /\ ApiPlan # <<>>
                  /\ \A k : Plan(k) \in Plans /\ Plan(k) # <<>>
<1> DEFINE S == McpStep \cup ApiStep
<1>1. {"initialize", "initialized", "ping", "toolsList"} \subseteq S /\ ApiStep \subseteq S
  BY DEF McpStep
<1> HIDE DEF S
<1>2. McpPlan \in Seq(S) /\ McpPlan # <<>>
  BY <1>1 DEF McpPlan
<1>3. ApiPlan \in Seq(S) /\ ApiPlan # <<>>
  BY <1>1 DEF ApiPlan, ApiStep
<1> QED
  BY <1>2, <1>3 DEF Plan, Plans, S

LEMMA ProbeInitInv == ProbeInit => ProbeInv
<1> SUFFICES ASSUME ProbeInit PROVE ProbeInv
  OBVIOUS
<1>1. {tokenLoading, tokenLoad} \subseteq BOOLEAN
  BY Zenon DEF ProbeInit
<1>2. tokenLoad = FALSE
  BY DEF ProbeInit
<1>3. LoadOK
  BY <1>1, <1>2 DEF ProbeInit, LoadOK
<1>4. RunsOK
  BY DEF ProbeInit, RunsOK, IdleButtons
<1> QED
  BY <1>3, <1>4 DEF ProbeInit, ProbeInv, BubbleOK, DetailOK

\* The smallest of some naturals.
LEMMA SmallestNat ==
    ASSUME NEW T \in SUBSET Nat, T # {}
    PROVE  \E n \in T : \A m \in T : ~(m < n)
<1>1. PICK n \in T : \A m \in T : ~(<<m, n>> \in OpToRel(<, Nat))
  BY NatLessThanWellFounded, WFMin, Zenon
<1> QED
  BY <1>1 DEF OpToRel

\* The loop ends the run with a verdict, or sends the call of the first step that makes one.
LEMMA GoOnIs ==
    ASSUME NEW old, NEW r \in Run, GoOn(old, r)
    PROVE  \E items \in Items :
              /\ probeBubble' = [token |-> r.token, kind |-> r.kind, items |-> items]
              /\ \/ /\ probeRuns' = probeRuns \ {old}
                    /\ \E v \in {"success", "partial", "failed"} : probeButton' = [probeButton EXCEPT ![r.kind] = v]
                 \/ \E left \in Plans :
                      /\ left # <<>>
                      /\ probeRuns' = (probeRuns \ {old}) \cup
                                          {[r EXCEPT !.phase = "call", !.items = items, !.plan = left]}
                      /\ probeButton' = [probeButton EXCEPT ![r.kind] = "running"]
<1> DEFINE Quiet(n) == /\ \A i \in 1 .. n : ~Calls(r, r.plan[i])
                       /\ n = Len(r.plan) \/ Calls(r, r.plan[n + 1])
           quiet == CHOOSE n \in 0 .. Len(r.plan) : Quiet(n)
           items == r.items \cup {CountQuiet(r, r.plan[i]) : i \in 1 .. quiet}
           left == SubSeq(r.plan, quiet + 1, Len(r.plan))
<1>1. r.plan \in Plans /\ Len(r.plan) \in Nat /\ r.items \in Items
  BY DEF Run, Plans
<1>2. \E n \in 0 .. Len(r.plan) : Quiet(n)
  <2> DEFINE T == {n \in 0 .. Len(r.plan) : n = Len(r.plan) \/ Calls(r, r.plan[n + 1])}
  <2>1. T \in SUBSET Nat /\ Len(r.plan) \in T
    BY <1>1
  <2> HIDE DEF T
  <2>2. PICK n \in T : \A m \in T : ~(m < n)
    BY <2>1, SmallestNat
  <2> USE DEF T
  <2>3. n \in 0 .. Len(r.plan) /\ (n = Len(r.plan) \/ Calls(r, r.plan[n + 1]))
    OBVIOUS
  <2>4. ASSUME NEW i \in 1 .. n PROVE ~Calls(r, r.plan[i])
    <3>1. i - 1 \in 0 .. Len(r.plan) /\ i - 1 < n /\ (i - 1) + 1 = i
      BY <1>1, <2>3
    <3>2. i - 1 \notin T
      BY <2>2, <3>1
    <3> HIDE DEF Quiet, quiet
    <3> QED
      BY <3>1, <3>2
  <2> QED
    BY <2>3, <2>4
<1>3. quiet \in 0 .. Len(r.plan)
  <2> HIDE DEF Quiet
  <2> QED
    BY <1>2
<1>4. items \in Items
  <2>1. \A s : CountQuiet(r, s) \in {"passed", "failing", "skipped"}
    BY DEF CountQuiet
  <2> QED
    BY <1>1, <2>1 DEF Items
<1>5. left \in Plans
  <2> HIDE DEF quiet
  <2>1. quiet + 1 \in 1 .. Len(r.plan) + 1
    BY <1>1, <1>3
  <2> QED
    BY <1>1, <2>1 DEF Plans
<1>6. Verdict(items) \in {"success", "partial", "failed"}
  BY DEF Verdict
<1>7. /\ probeBubble' = [token |-> r.token, kind |-> r.kind, items |-> items]
      /\ IF left = <<>>
         THEN /\ probeRuns' = probeRuns \ {old}
              /\ probeButton' = [probeButton EXCEPT ![r.kind] = Verdict(items)]
         ELSE /\ probeRuns' = (probeRuns \ {old}) \cup
                    {[r EXCEPT !.phase = "call", !.items = items, !.plan = left]}
              /\ probeButton' = [probeButton EXCEPT ![r.kind] = "running"]
  BY DEF GoOn
<1> HIDE DEF items, left
<1> QED
  BY <1>4, <1>5, <1>6, <1>7

\* The only run that was not passed ends.
LEMMA RunEnds ==
    ASSUME ProbeInv, NEW old \in probeRuns, ~old.stale,
           NEW v \in {"success", "partial", "failed"}, NEW items \in Items,
           probeRuns' = probeRuns \ {old}, probeButton' = [probeButton EXCEPT ![old.kind] = v],
           probeBubble' = [token |-> old.token, kind |-> old.kind, items |-> items],
           UNCHANGED <<probePage, tokenLogs, tokenLoading, tokenLoad, quotaSpent>>, DetailOK'
    PROVE  ProbeInv'
<1>0. RunsOK /\ LoadOK
  BY DEF ProbeInv
<1>1. GoodRun(old) /\ OfThisPage(old) /\ old.kind \in Kind /\ old.token \in ProbeToken
  BY <1>0 DEF RunsOK, GoodRun, Run
<1>2. \A r \in probeRuns' : r.stale
  BY <1>0 DEF RunsOK
<1>3. \A k \in Kind : probeButton[k] = "running" => k = old.kind
  BY <1>0 DEF RunsOK
<1>4. /\ probeButton' \in [Kind -> {"idle", "running", "success", "partial", "failed"}]
      /\ \A k \in Kind : probeButton'[k] # "running"
  BY <1>0, <1>1, <1>3 DEF RunsOK
<1>5. RunsOK'
  BY <1>0, <1>2, <1>4 DEF RunsOK, GoodRun
<1>6. BubbleOK'
  BY <1>1 DEF BubbleOK, BubbleRec, OfThisPage
<1>7. LoadOK'
  BY <1>0 DEF LoadOK
<1> QED
  BY <1>5, <1>6, <1>7 DEF ProbeInv

\* The only run that was not passed goes on as "new".
LEMMA RunGoesOn ==
    ASSUME ProbeInv, NEW old \in probeRuns, ~old.stale,
           NEW new, GoodRun(new), ~new.stale, OfThisPage(new), new.kind = old.kind,
           probeRuns' = (probeRuns \ {old}) \cup {new},
           probeButton' \in {probeButton, [probeButton EXCEPT ![old.kind] = "running"]},
           BubbleOK', DetailOK',
           UNCHANGED <<probePage, tokenLogs, tokenLoading, tokenLoad, quotaSpent>>
    PROVE  ProbeInv'
<1>0. RunsOK /\ LoadOK
  BY DEF ProbeInv
<1>1. old.kind \in Kind /\ probeButton[old.kind] = "running"
  BY <1>0 DEF RunsOK, GoodRun, Run
<1>2. \A k \in Kind : probeButton[k] = "running" => k = old.kind
  BY <1>0 DEF RunsOK
<1>3. /\ probeButton' \in [Kind -> {"idle", "running", "success", "partial", "failed"}]
      /\ \A k \in Kind : probeButton'[k] = "running" <=> k = old.kind
  BY <1>0, <1>1, <1>2 DEF RunsOK
<1>4. /\ \A r \in probeRuns' : ~r.stale => r = new
      /\ new \in probeRuns'
  BY <1>0 DEF RunsOK
<1>5. \A r \in probeRuns' : GoodRun(r)
  BY <1>0 DEF RunsOK
<1>6. \A r \in probeRuns' : GoodRun(r)' /\ (~r.stale => OfThisPage(r)')
  BY <1>4, <1>5 DEF GoodRun, OfThisPage
<1>7. RunsOK'
  BY <1>3, <1>4, <1>6 DEF RunsOK
<1>8. LoadOK'
  BY <1>0 DEF LoadOK
<1> QED
  BY <1>7, <1>8 DEF ProbeInv

\* The loop goes on, with what the run has learnt.
LEMMA GoOnKeepsInv ==
    ASSUME ProbeInv, NEW old \in probeRuns, ~old.stale, NEW r \in Run, GoOn(old, r),
           ~r.stale, r.kind = old.kind, OfThisPage(r), r.blocked => r.sawSpent \/ r.recheckFailed,
           DetailOK', UNCHANGED <<probePage, tokenLogs, tokenLoading, tokenLoad, quotaSpent>>
    PROVE  ProbeInv'
<1>0. GoodRun(old) /\ OfThisPage(old) /\ r.token = old.token /\ r.kind = old.kind
  BY DEF ProbeInv, RunsOK, OfThisPage
<1>1. PICK items \in Items :
        /\ probeBubble' = [token |-> r.token, kind |-> r.kind, items |-> items]
        /\ \/ /\ probeRuns' = probeRuns \ {old}
              /\ \E v \in {"success", "partial", "failed"} : probeButton' = [probeButton EXCEPT ![r.kind] = v]
           \/ \E left \in Plans :
                /\ left # <<>>
                /\ probeRuns' = (probeRuns \ {old}) \cup
                                    {[r EXCEPT !.phase = "call", !.items = items, !.plan = left]}
                /\ probeButton' = [probeButton EXCEPT ![r.kind] = "running"]
  BY GoOnIs
<1>2. CASE /\ probeRuns' = probeRuns \ {old}
           /\ \E v \in {"success", "partial", "failed"} : probeButton' = [probeButton EXCEPT ![r.kind] = v]
  BY <1>0, <1>1, <1>2, RunEnds
<1>3. ASSUME NEW left \in Plans, left # <<>>,
             probeRuns' = (probeRuns \ {old}) \cup {[r EXCEPT !.phase = "call", !.items = items, !.plan = left]},
             probeButton' = [probeButton EXCEPT ![r.kind] = "running"]
      PROVE  ProbeInv'
  <2> DEFINE new == [r EXCEPT !.phase = "call", !.items = items, !.plan = left]
  <2>1. /\ new \in Run /\ new.plan = left /\ new.kind = r.kind /\ new.token = r.token
        /\ new.stale = r.stale /\ new.blocked = r.blocked /\ new.sawSpent = r.sawSpent
        /\ new.recheckFailed = r.recheckFailed
    BY <1>3 DEF Run, Plans
  <2>2. probeRuns' = (probeRuns \ {old}) \cup {new}
    BY <1>3
  <2> HIDE DEF new
  <2>3. GoodRun(new) /\ ~new.stale /\ OfThisPage(new) /\ new.kind = old.kind
    BY <1>3, <2>1 DEF GoodRun, OfThisPage
  <2>4. r.kind \in Kind /\ r.token \in ProbeToken /\ r.token = probePage
    BY DEF Run, OfThisPage
  <2>5. BubbleOK'
    BY <1>1, <2>4 DEF BubbleOK, BubbleRec
  <2> QED
    BY <1>0, <1>3, <2>2, <2>3, <2>5, RunGoesOn
<1> QED
  BY <1>1, <1>2, <1>3

\* A run that was passed returns without a trace.
LEMMA PassedReturns ==
    ASSUME ProbeInv, NEW r \in probeRuns, r.stale, Returns(r),
           UNCHANGED <<probePage, tokenLogs, tokenLoading, tokenLoad, quotaSpent>>
    PROVE  ProbeInv'
<1>0. RunsOK /\ LoadOK /\ BubbleOK /\ DetailOK
  BY DEF ProbeInv
<1>1. probeRuns' = probeRuns \ {r} /\ UNCHANGED <<tokenDetail, probeButton, probeBubble>>
  BY DEF Returns
<1>2. RunsOK'
  BY <1>0, <1>1 DEF RunsOK, GoodRun, OfThisPage
<1> QED
  BY <1>0, <1>1, <1>2 DEF ProbeInv, LoadOK, BubbleOK, DetailOK

\* Runs that are passed forget what they counted.
LEMMA PassedRuns ==
    ASSUME NEW rs \in SUBSET Run
    PROVE  \A r \in PassRuns(rs) : GoodRun(r) /\ r.stale
<1>1. ASSUME NEW r \in rs
      PROVE  LET s == [r EXCEPT !.stale = TRUE, !.plan = Plan(r.kind), !.items = NoItems,
                                !.blocked = FALSE, !.researchId = FALSE, !.sawSpent = FALSE,
                                !.recheckFailed = FALSE]
             IN  s \in Run /\ s.stale /\ ~s.blocked /\ s.plan = Plan(r.kind)
  <2>1. Plan(r.kind) \in Plans /\ NoItems \in Items
    BY PlansAre DEF NoItems, Items
  <2> QED
    BY <2>1 DEF Run, Plans
<1> QED
  BY <1>1, PlansAre DEF PassRuns, GoodRun

\* What a run that was not passed is while its call is on the way.
LEMMA HeadAndTail ==
    ASSUME NEW r \in Run, r.plan # <<>>, NEW tools \in {<<>>} \cup Advertised
    PROVE  Tail(r.plan) \o tools \in Plans /\ Tail(r.plan) \in Plans
<1>1. Tool \subseteq McpStep \cup ApiStep
  BY DEF McpStep
<1> DEFINE S == McpStep \cup ApiStep
<1>2. tools \in Seq(S)
  <2>1. Seq(Tool) \subseteq Seq(S)
    BY <1>1
  <2>2. <<>> \in Seq(S)
    OBVIOUS
  <2> QED
    BY <2>1, <2>2, ProbeConstants, Zenon
<1>3. r.plan \in Seq(S)
  BY DEF Run
<1> HIDE DEF S
<1>4. Tail(r.plan) \in Seq(S)
  BY <1>3
<1>5. Tail(r.plan) \o tools \in Seq(S)
  BY <1>2, <1>4
<1> QED
  BY <1>4, <1>5 DEF Plans, S

\* What the server answers about a run's token is about the page's.
LEMMA SnapshotOfPage ==
    ASSUME NEW t \in ProbeToken, t = probePage, UNCHANGED probePage, tokenDetail' = Snapshot(t)
    PROVE  DetailOK'
<1>1. (t \in quotaSpent) \in BOOLEAN
  OBVIOUS
<1>2. Snapshot(t) \in DetailRec /\ Snapshot(t).token = t
  BY <1>1 DEF Snapshot, DetailRec
<1> QED
  BY <1>2 DEF DetailOK

\* A check starts: the runs before it are passed.
LEMMA StartKeepsInv == ASSUME ProbeInv, NEW kind \in Kind, StartProbe(kind) PROVE ProbeInv'
<1>0. RunsOK /\ LoadOK /\ DetailOK
  BY DEF ProbeInv
<1>1. /\ probePage \in ProbeToken /\ \A k \in Kind : probeButton[k] # "running"
      /\ UNCHANGED pageVars
      /\ probeBubble' = [token |-> probePage, kind |-> kind, items |-> NoItems]
      /\ probeButton' = [probeButton EXCEPT ![kind] = "running"]
  BY <1>0 DEF StartProbe, ProbeOffered, AnyProbeRunning, LoadOK
<1> DEFINE b == (kind = "mcp" /\ GetTokenBusinessQuotaWindow)
           spent == (probePage \in quotaSpent)
           new == [kind |-> kind, token |-> probePage, stale |-> FALSE, phase |-> "secret",
                   plan |-> Plan(kind), items |-> NoItems, blocked |-> b, researchId |-> FALSE,
                   sawSpent |-> spent, recheckFailed |-> FALSE]
<1>2. b \in BOOLEAN /\ spent \in BOOLEAN
  <2>1. CASE tokenDetail = NoPage
    BY <2>1 DEF GetTokenBusinessQuotaWindow
  <2>2. CASE tokenDetail \in DetailRec
    BY <2>2 DEF GetTokenBusinessQuotaWindow, DetailRec
  <2> QED
    BY <1>0, <2>1, <2>2 DEF DetailOK
<1>3. probeRuns' = PassRuns(probeRuns) \cup {new}
  BY DEF StartProbe
<1> HIDE DEF b
<1>4. new \in Run /\ new.plan # <<>> /\ new.phase = "secret" /\ ~new.stale /\ new.kind = kind
      /\ new.token = probePage /\ (new.sawSpent <=> probePage \in quotaSpent)
  <2>1. Plan(kind) \in Plans /\ Plan(kind) # <<>> /\ NoItems \in Items
    BY PlansAre DEF NoItems, Items
  <2> HIDE DEF spent
  <2>2. new \in Run
    BY <1>1, <1>2, <2>1 DEF Run, Plans
  <2> QED
    BY <2>1, <2>2 DEF spent
<1> HIDE DEF new
<1>5. GoodRun(new) /\ OfThisPage(new)
  BY <1>4 DEF GoodRun, OfThisPage
<1>6. probeRuns \in SUBSET Run
  BY <1>0 DEF RunsOK, GoodRun
<1>7. \A r \in PassRuns(probeRuns) : GoodRun(r) /\ r.stale
  BY <1>6, PassedRuns
<1>8. /\ probeButton' \in [Kind -> {"idle", "running", "success", "partial", "failed"}]
      /\ \A k \in Kind : probeButton'[k] = "running" <=> k = kind
  BY <1>0, <1>1 DEF RunsOK
<1>9. \A r \in probeRuns' : GoodRun(r) /\ (~r.stale => r = new)
  BY <1>3, <1>5, <1>7
<1>10. UNCHANGED <<probePage, quotaSpent>>
  BY <1>1 DEF pageVars
<1>11. \A r \in probeRuns' : GoodRun(r)' /\ (~r.stale => OfThisPage(r)')
  BY <1>5, <1>9, <1>10 DEF GoodRun, OfThisPage
<1>12. new \in probeRuns'
  BY <1>3
<1>13. RunsOK'
  BY <1>4, <1>8, <1>9, <1>11, <1>12 DEF RunsOK
<1>14. BubbleOK'
  BY <1>1, <1>10 DEF BubbleOK, BubbleRec, NoItems, Items
<1>15. LoadOK' /\ DetailOK'
  BY <1>0, <1>1 DEF LoadOK, DetailOK, pageVars
<1> QED
  BY <1>13, <1>14, <1>15 DEF ProbeInv

LEMMA ProbeStepInv == ProbeInv /\ [ProbeNext]_probeVars => ProbeInv'
<1> SUFFICES ASSUME ProbeInv, [ProbeNext]_probeVars PROVE ProbeInv'
  OBVIOUS
<1>0. RunsOK /\ LoadOK /\ BubbleOK /\ DetailOK
  BY DEF ProbeInv
<1>r. probeRuns \in SUBSET Run
  BY <1>0 DEF RunsOK, GoodRun
<1>1. ASSUME NEW p \in ProbeToken \cup {NoPage}, OpenPage(p) PROVE ProbeInv'
  <2>1. \A r \in probeRuns' : GoodRun(r) /\ r.stale
    BY <1>r, <1>1, PassedRuns DEF OpenPage
  <2>2. RunsOK'
    <3>1. \A r \in probeRuns' : GoodRun(r)'
      BY <2>1 DEF GoodRun
    <3>2. /\ probeButton' \in [Kind -> {"idle", "running", "success", "partial", "failed"}]
          /\ \A k \in Kind : probeButton'[k] # "running"
      BY <1>1 DEF OpenPage, IdleButtons
    <3> QED
      BY <2>1, <3>1, <3>2 DEF RunsOK
  <2>3. (p # NoPage) \in BOOLEAN /\ (p # NoPage /\ ~tokenLoad) \in BOOLEAN
    BY Zenon
  <2>4. LoadOK'
    BY <1>0, <1>1, <2>3 DEF OpenPage, LoadOK
  <2> QED
    BY <1>1, <2>2, <2>4 DEF OpenPage, ProbeInv, BubbleOK, DetailOK
<1>2. ASSUME NEW t \in ProbeToken, QuotaChanges(t) PROVE ProbeInv'
  <2> DEFINE spent == (quotaSpent \ {t}) \cup ({t} \ quotaSpent)
             Seen(r) == IF ~r.stale /\ r.token \in spent THEN [r EXCEPT !.sawSpent = TRUE] ELSE r
  <2>1. /\ quotaSpent' = spent /\ probeRuns' = {Seen(r) : r \in probeRuns}
        /\ UNCHANGED <<probePage, tokenDetail, tokenLogs, tokenLoading, tokenLoad, probeButton, probeBubble>>
    BY <1>2 DEF QuotaChanges
  <2>2. LoadOK' /\ BubbleOK' /\ DetailOK'
    BY <1>0, <2>1 DEF LoadOK, BubbleOK, DetailOK
  <2> HIDE DEF spent
  <2>3. \A r \in probeRuns : /\ Seen(r).stale = r.stale /\ Seen(r).kind = r.kind
                             /\ Seen(r).token = r.token
    BY <1>r DEF Run
  <2>4. ASSUME NEW r \in probeRuns PROVE GoodRun(Seen(r)) /\ (~r.stale /\ r.token \in spent => Seen(r).sawSpent)
    <3>1. GoodRun(r) /\ r \in Run
      BY <1>0 DEF RunsOK, GoodRun
    <3>2. CASE ~r.stale /\ r.token \in spent
      <4> DEFINE s == [r EXCEPT !.sawSpent = TRUE]
      <4>1. s \in Run /\ s.plan = r.plan /\ s.sawSpent
        BY <3>1 DEF Run
      <4>2. Seen(r) = s
        BY <3>2
      <4> HIDE DEF s, Seen
      <4> QED
        BY <3>1, <4>1, <4>2 DEF GoodRun
    <3>3. CASE ~(~r.stale /\ r.token \in spent)
      <4>1. Seen(r) = r
        BY <3>3
      <4> HIDE DEF Seen
      <4> QED
        BY <3>1, <3>3, <4>1
    <3> QED
      BY <3>2, <3>3
  <2> HIDE DEF Seen
  <2>5. \A r \in probeRuns' : GoodRun(r)' /\ (~r.stale => OfThisPage(r)')
    <3>1. ASSUME NEW r \in probeRuns, NEW s, s = Seen(r) PROVE GoodRun(s)' /\ (~s.stale => OfThisPage(s)')
      <4>1. ~r.stale => r.token = probePage
        BY <1>0 DEF RunsOK, OfThisPage
      <4>2. /\ s.stale = r.stale /\ s.token = r.token
            /\ GoodRun(s) /\ (~r.stale /\ r.token \in spent => s.sawSpent)
        BY <2>3, <2>4, <3>1
      <4> QED
        BY <2>1, <4>1, <4>2 DEF GoodRun, OfThisPage
    <3> QED
      BY <2>1, <3>1
  <2>6. \A r, s \in probeRuns' : ~r.stale /\ ~s.stale => r = s
    BY <1>0, <2>1, <2>3 DEF RunsOK
  <2>7. \A k \in Kind : (\E r \in probeRuns' : ~r.stale /\ r.kind = k) <=> (\E r \in probeRuns : ~r.stale /\ r.kind = k)
    BY <2>1, <2>3
  <2>8. RunsOK'
    BY <1>0, <2>1, <2>5, <2>6, <2>7 DEF RunsOK
  <2> QED
    BY <2>2, <2>8 DEF ProbeInv
<1>3. CASE RunMcpProbe
  BY <1>3, StartKeepsInv DEF RunMcpProbe, Kind
<1>4. CASE RunApiProbe
  BY <1>4, StartKeepsInv DEF RunApiProbe, Kind
<1>5. ASSUME NEW ok \in BOOLEAN, DetailLoaded(ok) PROVE ProbeInv'
  <2>1. UNCHANGED <<probePage, quotaSpent, probeRuns, probeButton, probeBubble>> /\ tokenLoad
    BY <1>5 DEF DetailLoaded
  <2>2. probePage \in ProbeToken
    BY <1>0, <2>1 DEF LoadOK
  <2>3. LoadOK'
    <3>1. {tokenLoading', tokenLoad'} \subseteq BOOLEAN /\ tokenLoad' = FALSE
      BY <1>5, Zenon DEF DetailLoaded
    <3>2. tokenLogs' \in {probePage, NoPage}
      BY <1>5 DEF DetailLoaded
    <3> QED
      BY <1>0, <2>1, <3>1, <3>2 DEF LoadOK
  <2>4. DetailOK'
    <3>1. tokenDetail' = Snapshot(probePage) \/ tokenDetail' = NoPage
      BY <1>5 DEF DetailLoaded
    <3> QED
      BY <2>1, <2>2, <3>1, SnapshotOfPage DEF DetailOK
  <2>5. RunsOK' /\ BubbleOK'
    BY <1>0, <2>1 DEF RunsOK, GoodRun, OfThisPage, BubbleOK
  <2> QED
    BY <2>3, <2>4, <2>5 DEF ProbeInv
<1>6. ASSUME NEW r \in probeRuns, NEW ok \in BOOLEAN, SecretFetched(r, ok) PROVE ProbeInv'
  <2>0. GoodRun(r) /\ r \in Run /\ (~r.stale => OfThisPage(r))
        /\ UNCHANGED <<probePage, tokenLogs, tokenLoading, tokenLoad, quotaSpent>>
    BY <1>0, <1>6 DEF RunsOK, GoodRun, SecretFetched
  <2>1. CASE r.stale /\ Returns(r)
    BY <2>0, <2>1, PassedReturns
  <2>2. CASE ~r.stale /\ PreflightFails(r) /\ UNCHANGED tokenDetail
    <3>1. {"failing"} \in Items
      BY DEF Items
    <3>2. DetailOK'
      BY <1>0, <2>0, <2>2 DEF DetailOK
    <3>3. /\ probeRuns' = probeRuns \ {r}
          /\ probeButton' = [probeButton EXCEPT ![r.kind] = "failed"]
          /\ probeBubble' = [token |-> r.token, kind |-> r.kind, items |-> {"failing"}]
      BY <2>2 DEF PreflightFails
    <3> QED
      BY <2>0, <2>2, <3>1, <3>2, <3>3, RunEnds
  <2>3. CASE ~r.stale /\ Proceed(r) /\ UNCHANGED tokenDetail
    <3>1. DetailOK'
      BY <1>0, <2>0, <2>3 DEF DetailOK
    <3>2. CASE r.blocked
      <4> DEFINE new == [r EXCEPT !.phase = "recheck"]
      <4>1. /\ new \in Run /\ new.plan = r.plan /\ new.phase = "recheck" /\ new.kind = r.kind
            /\ new.token = r.token /\ new.stale = r.stale /\ new.sawSpent = r.sawSpent
        BY <2>0 DEF Run
      <4>2. probeRuns' = (probeRuns \ {r}) \cup {new} /\ UNCHANGED <<probeButton, probeBubble>>
        BY <2>3, <3>2 DEF Proceed
      <4> HIDE DEF new
      <4>3. GoodRun(new) /\ ~new.stale /\ OfThisPage(new)
        BY <2>0, <2>3, <4>1 DEF GoodRun, OfThisPage
      <4>4. BubbleOK'
        BY <1>0, <2>0, <4>2 DEF BubbleOK
      <4> QED
        BY <2>0, <2>3, <3>1, <4>1, <4>2, <4>3, <4>4, RunGoesOn
    <3>3. CASE ~r.blocked
      <4>1. GoOn(r, r)
        BY <2>3, <3>3 DEF Proceed
      <4> QED
        BY <2>0, <2>3, <3>1, <3>3, <4>1, GoOnKeepsInv
    <3> QED
      BY <3>2, <3>3
  <2> QED
    BY <1>6, <2>1, <2>2, <2>3 DEF SecretFetched, IsActiveRun
<1>7. ASSUME NEW r \in probeRuns, NEW ok \in BOOLEAN, QuotaRechecked(r, ok) PROVE ProbeInv'
  <2>0. GoodRun(r) /\ r \in Run /\ (~r.stale => OfThisPage(r)) /\ r.token \in ProbeToken
        /\ UNCHANGED <<probePage, tokenLogs, tokenLoading, tokenLoad, quotaSpent>>
    BY <1>0, <1>7 DEF RunsOK, GoodRun, Run, QuotaRechecked
  <2>1. CASE r.stale /\ Returns(r)
    BY <2>0, <2>1, PassedReturns
  <2>2. CASE ~r.stale /\ tokenDetail' = Snapshot(r.token) /\ GoOn(r, [r EXCEPT !.blocked = r.token \in quotaSpent])
    <3> DEFINE b == (r.token \in quotaSpent)
               s == [r EXCEPT !.blocked = b]
    <3>1. b \in BOOLEAN
      OBVIOUS
    <3>2. GoOn(r, s)
      BY <2>2
    <3> HIDE DEF b
    <3>3. /\ s \in Run /\ s.kind = r.kind /\ s.token = r.token /\ s.stale = r.stale
          /\ s.sawSpent = r.sawSpent /\ (s.blocked <=> b)
      BY <2>0, <3>1 DEF Run
    <3> USE DEF b
    <3> HIDE DEF s
    <3>4. ~s.stale /\ OfThisPage(s) /\ (s.blocked => s.sawSpent \/ s.recheckFailed)
      BY <2>0, <2>2, <3>3 DEF OfThisPage
    <3>5. DetailOK'
      BY <2>0, <2>2, SnapshotOfPage DEF OfThisPage
    <3> QED
      BY <2>0, <2>2, <3>2, <3>3, <3>4, <3>5, GoOnKeepsInv
  <2>3. CASE ~r.stale /\ UNCHANGED tokenDetail /\ GoOn(r, [r EXCEPT !.recheckFailed = TRUE])
    <3> DEFINE s == [r EXCEPT !.recheckFailed = TRUE]
    <3>1. GoOn(r, s)
      BY <2>3
    <3>2. /\ s \in Run /\ s.kind = r.kind /\ s.token = r.token /\ s.stale = r.stale
          /\ s.sawSpent = r.sawSpent /\ s.recheckFailed
      BY <2>0 DEF Run
    <3> HIDE DEF s
    <3>3. ~s.stale /\ OfThisPage(s)
      BY <2>0, <2>3, <3>2 DEF OfThisPage
    <3>4. DetailOK'
      BY <1>0, <2>0, <2>3 DEF DetailOK
    <3> QED
      BY <2>0, <2>3, <3>1, <3>2, <3>3, <3>4, GoOnKeepsInv
  <2> QED
    BY <1>7, <2>1, <2>2, <2>3 DEF QuotaRechecked, IsActiveRun
<1>8. ASSUME NEW r \in probeRuns, NEW ok \in BOOLEAN, DetailRefreshed(r, ok) PROVE ProbeInv'
  <2>0. GoodRun(r) /\ r \in Run /\ (~r.stale => OfThisPage(r)) /\ r.token \in ProbeToken
        /\ r.phase = "refresh" /\ r.plan # <<>>
        /\ UNCHANGED <<probePage, tokenLogs, tokenLoading, tokenLoad, quotaSpent>>
    BY <1>0, <1>8 DEF RunsOK, GoodRun, Run, DetailRefreshed
  <2>1. CASE r.stale /\ Returns(r)
    BY <2>0, <2>1, PassedReturns
  <2>2. CASE /\ ~r.stale /\ tokenDetail' = IF ok THEN Snapshot(r.token) ELSE tokenDetail
             /\ GoOn(r, [r EXCEPT !.items = @ \cup {"failing"}, !.plan = Tail(@)])
    <3> DEFINE s == [r EXCEPT !.items = @ \cup {"failing"}, !.plan = Tail(@)]
    <3>1. GoOn(r, s)
      BY <2>2
    <3>2. r.items \cup {"failing"} \in Items /\ Tail(r.plan) \in Seq(McpStep \cup ApiStep)
      BY <2>0, HeadAndTail DEF Run, Items, Plans
    <3>3. /\ s \in Run /\ s.kind = r.kind /\ s.token = r.token /\ s.stale = r.stale
          /\ s.sawSpent = r.sawSpent /\ s.recheckFailed = r.recheckFailed /\ s.blocked = r.blocked
      BY <2>0, <3>2 DEF Run
    <3> HIDE DEF s
    <3>4. ~s.stale /\ OfThisPage(s) /\ (s.blocked => s.sawSpent \/ s.recheckFailed)
      BY <2>0, <2>2, <3>3 DEF OfThisPage, GoodRun
    <3>5. tokenDetail' = Snapshot(r.token) \/ UNCHANGED tokenDetail
      BY <2>2
    <3>6. DetailOK'
      BY <1>0, <2>0, <2>2, <3>5, SnapshotOfPage DEF OfThisPage, DetailOK
    <3> QED
      BY <2>0, <2>2, <3>1, <3>3, <3>4, <3>6, GoOnKeepsInv
  <2> QED
    BY <1>8, <2>1, <2>2 DEF DetailRefreshed, IsActiveRun
<1>9. ASSUME NEW r \in probeRuns, r.phase = "call", ~r.stale,
             NEW outcome \in {"passed", "failing"}, NEW tools \in {<<>>} \cup Advertised,
             StepDone(r, outcome, tools),
             UNCHANGED <<probePage, tokenLogs, tokenLoading, tokenLoad, quotaSpent>>
      PROVE  ProbeInv'
  <2>0. GoodRun(r) /\ r \in Run /\ OfThisPage(r) /\ r.plan # <<>>
    BY <1>0, <1>9 DEF RunsOK, GoodRun
  <2> DEFINE plan == Tail(r.plan) \o tools
             items == r.items \cup {outcome}
             id == (r.researchId \/ (Head(r.plan) = "research" /\ outcome = "passed"))
             s == [r EXCEPT !.items = items, !.plan = plan, !.researchId = id]
  <2>1. GoOn(r, s) /\ UNCHANGED tokenDetail
    BY <1>9 DEF StepDone
  <2>2. items \in Items /\ plan \in Seq(McpStep \cup ApiStep)
    BY <1>9, <2>0, HeadAndTail DEF Run, Items, Plans
  <2>3. id \in BOOLEAN
    <3>1. r.researchId \in BOOLEAN
      BY <2>0 DEF Run
    <3> QED
      BY <3>1, Zenon
  <2> HIDE DEF plan, items, id
  <2>4. /\ s \in Run /\ s.kind = r.kind /\ s.token = r.token /\ s.stale = r.stale
        /\ s.sawSpent = r.sawSpent /\ s.recheckFailed = r.recheckFailed /\ s.blocked = r.blocked
    BY <2>0, <2>2, <2>3 DEF Run
  <2> HIDE DEF s
  <2>5. ~s.stale /\ OfThisPage(s) /\ (s.blocked => s.sawSpent \/ s.recheckFailed)
    BY <1>9, <2>0, <2>4 DEF OfThisPage, GoodRun
  <2>6. DetailOK'
    BY <1>0, <1>9, <2>1 DEF DetailOK
  <2> QED
    BY <1>9, <2>1, <2>4, <2>5, <2>6, GoOnKeepsInv
<1>10. ASSUME NEW r \in probeRuns, NEW ok \in BOOLEAN, NEW body \in Body, ApiAnswered(r, ok, body)
       PROVE  ProbeInv'
  <2>0. r.phase = "call" /\ UNCHANGED <<probePage, tokenLogs, tokenLoading, tokenLoad, quotaSpent>>
    BY <1>10 DEF ApiAnswered
  <2>1. CASE r.stale /\ Returns(r)
    BY <2>0, <2>1, PassedReturns
  <2>2. CASE ~r.stale /\ StepDone(r, ApiOutcome(Head(r.plan), ok, body), <<>>)
    <3>1. ApiOutcome(Head(r.plan), ok, body) \in {"passed", "failing"}
      BY DEF ApiOutcome
    <3> QED
      BY <1>9, <2>0, <2>2, <3>1
  <2> QED
    BY <1>10, <2>1, <2>2 DEF ApiAnswered, IsActiveRun
<1>11. ASSUME NEW r \in probeRuns, NEW ok \in BOOLEAN, NEW body \in Body,
              NEW tools \in {<<>>} \cup Advertised, McpAnswered(r, ok, body, tools)
       PROVE  ProbeInv'
  <2> DEFINE outcome == McpOutcome(Head(r.plan), ok, body)
             counted == IF (Head(r.plan) = "toolsList" /\ outcome = "passed") /\ tools = <<>>
                        THEN "failing" ELSE outcome
  <2>0. /\ GoodRun(r) /\ r \in Run /\ (~r.stale => OfThisPage(r)) /\ r.phase = "call"
        /\ UNCHANGED <<probePage, tokenLogs, tokenLoading, tokenLoad, quotaSpent>>
        /\ body = "quota" => r.token \in quotaSpent
    BY <1>0, <1>11 DEF RunsOK, GoodRun, McpAnswered
  <2>1. CASE r.stale /\ Returns(r)
    BY <2>0, <2>1, PassedReturns
  <2>2. outcome \in {"passed", "failing", "quota"} /\ (outcome = "quota" => body = "quota")
    BY DEF McpOutcome
  <2>3. CASE ~r.stale /\ outcome = "quota"
    <3> DEFINE new == [r EXCEPT !.blocked = TRUE, !.phase = "refresh"]
    <3>1. /\ new \in Run /\ new.plan = r.plan /\ new.kind = r.kind
          /\ new.token = r.token /\ new.stale = r.stale /\ new.sawSpent = r.sawSpent
      BY <2>0 DEF Run
    <3>2. probeRuns' = (probeRuns \ {r}) \cup {new} /\ UNCHANGED <<tokenDetail, probeButton, probeBubble>>
      BY <1>11, <2>3 DEF McpAnswered, IsActiveRun
    <3> HIDE DEF new
    <3>3. GoodRun(new) /\ ~new.stale /\ OfThisPage(new)
      BY <2>0, <2>2, <2>3, <3>1 DEF GoodRun, OfThisPage
    <3>4. BubbleOK' /\ DetailOK'
      BY <1>0, <2>0, <3>2 DEF BubbleOK, DetailOK
    <3> QED
      BY <2>0, <2>3, <3>1, <3>2, <3>3, <3>4, RunGoesOn
  <2>4. CASE ~r.stale /\ outcome # "quota" /\ StepDone(r, counted, tools)
    <3>1. counted \in {"passed", "failing"}
      BY <2>2, <2>4
    <3> QED
      BY <1>9, <2>0, <2>4, <3>1
  <2>5. \/ r.stale /\ Returns(r)
        \/ ~r.stale /\ outcome = "quota"
        \/ ~r.stale /\ outcome # "quota" /\ StepDone(r, counted, tools)
    BY <1>11 DEF McpAnswered, IsActiveRun
  <2> QED
    BY <2>1, <2>3, <2>4, <2>5
<1>12. CASE UNCHANGED probeVars
  BY <1>0, <1>12 DEF probeVars, ProbeInv, RunsOK, GoodRun, OfThisPage, LoadOK, BubbleOK, DetailOK
<1> QED
  BY <1>1, <1>2, <1>3, <1>4, <1>5, <1>6, <1>7, <1>8, <1>10, <1>11, <1>12
     DEF ProbeNext, LoadProgress, RunProgress

-----------------------------------------------------------------------------
(* The pages of a user.                                                       *)

\* Every part keeps its own invariant, whichever part the behaviour is about.
UserPagesInv == ProbeInv /\ ConsoleInv /\ HomeInv /\ AccessInv

LEMMA UserPagesInitInv == UserPagesInit => UserPagesInv
  BY ProbeInitInv, ConsoleInitInv, HomeInitInv, AccessInitInv DEF UserPagesInit, UserPagesInv

\* A step of the pages is a step of one part, or of none.
LEMMA UserPagesStepIsOfPart ==
    ASSUME [UserPagesNext]_userPageVars
    PROVE  /\ [ProbeNext]_probeVars /\ [ConsoleNext]_consoleVars
           /\ [HomeNext]_homeVars /\ [AccessNext]_accessVars /\ UNCHANGED focus
  BY DEF UserPagesNext, userPageVars

LEMMA UserPagesStepInv == UserPagesInv /\ [UserPagesNext]_userPageVars => UserPagesInv'
  BY UserPagesStepIsOfPart, ProbeStepInv, ConsoleStepInv, HomeStepInv, AccessStepInv DEF UserPagesInv

\* Every state of the pages satisfies the invariants of all the parts.
LEMMA UserPagesAlwaysInv == UserPagesSpec => []UserPagesInv
  BY UserPagesInitInv, UserPagesStepInv, PTL DEF UserPagesSpec

\* A page shows its own token, for any tokens, tools and lists of tools, and any number of
\* requests and of runs on their way: the checks spin exactly while the one run of the page goes on,
\* their bubble and the detail are of the page's token, and a run leaves out the billable calls only
\* of a token whose quota was spent or could not be looked up (the effects of the route, isActiveRun,
\* revalidateBlockedQuotaWindow).  On the home page the poll and the stream bring figures of the
\* token in the box, whatever is typed; the records are of the accepted token if none of another
\* one were on their way, or still to be asked for by the load, when it was accepted.  Records that
\* cross an acceptance, and the figures persistToken asks for itself, may be of another token.
THEOREM PageShowsItsToken == UserPagesSpec => []ShowsItsToken
<1>1. UserPagesInv => ShowsItsToken
  BY ProbeInvImplies, HomeInvImplies DEF UserPagesInv, ShowsItsToken
<1> QED
  BY <1>1, UserPagesAlwaysInv, PTL

\* A secret stays with the page and the token it belongs to, whatever warm-ups, reveals, copies,
\* guides, answers and changes of page come in between; a copy keeps the request it waits for; a
\* home page that is loaded again finds its own token; and one that is masked stays masked (the
\* secret cache of the console, persistToken, the masked field of the access panel).
THEOREM SecretsStayHeld == UserPagesSpec => []SecretsAreHeld
<1>1. UserPagesInv => SecretsAreHeld
  BY ConsoleInvImplies, HomeInvImplies, AccessInvImplies DEF UserPagesInv, SecretsAreHeld
<1> QED
  BY <1>1, UserPagesAlwaysInv, PTL

\* Every part keeps to its types, among them that a run always has a step left to make, and that
\* requests, timers and copies are of tokens the page may have (the state of UserConsole and
\* PublicHome).
THEOREM UserPagesTypeCorrect == UserPagesSpec => []UserPagesTypeOK
<1>1. UserPagesInv => ProbeTypeOK /\ ConsoleTypeOK /\ HomeTypeOK /\ AccessTypeOK
  BY ProbeInvImplies, ConsoleInvImplies, HomeInvImplies, AccessInvImplies DEF UserPagesInv
<1>2. UserPagesInv /\ focus \in UserPart => UserPagesTypeOK
  BY <1>1 DEF UserPart, UserPagesTypeOK
<1>3. UserPagesInit => focus \in UserPart
  BY DEF UserPagesInit
<1>4. focus \in UserPart /\ [UserPagesNext]_userPageVars => (focus \in UserPart)'
  BY UserPagesStepIsOfPart
<1>5. UserPagesSpec => [](focus \in UserPart)
  BY <1>3, <1>4, PTL DEF UserPagesSpec
<1> QED
  BY <1>2, <1>5, UserPagesAlwaysInv, PTL
==============================================================================
