------------------------ MODULE ServerServicesProofs ------------------------
(***************************************************************************)
(* Proofs about parts of the server and the web application that share no  *)
(* state with one another, for every value of their constants: each one's  *)
(* inductive invariant, its preservation by the steps of that part, and    *)
(* what follows for the specification in which the first state chooses it. *)
(***************************************************************************)
EXTENDS ProtocolProofs, MCServerServices, FiniteSetTheorems, SequenceTheorems, Integers, TLAPS

-----------------------------------------------------------------------------
(* The backup page                                                         *)

\* A list under way, and a request under way, are records of these fields.
IsAsk(r) ==
  /\ r = [nr |-> r.nr, lists |-> r.lists]
  /\ r.lists = [d \in DOMAIN r.lists |-> r.lists[d]]

IsPost(p) == p = [nr |-> p.nr, kind |-> p.kind, left |-> p.left, named |-> p.named]

\* The lists under way: numbered apart; what a device answered are its backups; the
\* last one asked for is of the devices chosen, and without what was removed.
PageLists ==
  /\ lastAsk \in Nat
  /\ \A r \in asks :
       /\ IsAsk(r)
       /\ r.nr \in Nat /\ r.nr <= lastAsk
       /\ \A s \in asks : r.nr = s.nr => r = s
       /\ r.nr = lastAsk => DOMAIN r.lists = Page!Targets(chosen)
       /\ \A d \in DOMAIN r.lists :
            r.lists[d] # Page!None =>
              /\ \A b \in r.lists[d] : Owner[b] = d
              /\ r.nr = lastAsk => r.lists[d] \cap removed = {}

\* Backups that do not exist yet: not asked for, or in a request to make them.
PageUnmade == unborn \cup UNION {p.left : p \in {q \in posts : q.kind = "create"}}

\* A backup is made once, by one request; nothing the page can name is unmade; and
\* what a request to delete is done with is gone.
PagePosts ==
  /\ \A p \in posts :
       /\ IsPost(p)
       /\ p.left \subseteq p.named
       /\ p.kind = "create" =>
            /\ p.left \cap (unborn \cup stock) = {}
            /\ \A q \in posts : q.kind = "create" /\ q # p => p.left \cap q.left = {}
       /\ p.kind # "create" =>
            /\ p.named \cap PageUnmade = {}
            /\ (p.named \ p.left) \cap stock = {}
  /\ stock \cap unborn = {}
  /\ shown \cap PageUnmade = {}
  /\ removed \cap (stock \cup PageUnmade) = {}
  /\ \A r \in asks : \A d \in DOMAIN r.lists :
       r.lists[d] # Page!None => r.lists[d] \cap PageUnmade = {}

PageInv == Page!PageIsTrue /\ PageLists /\ PagePosts

LEMMA InitPage == Page!Init => PageInv
<1> SUFFICES ASSUME Page!Init PROVE PageInv
  OBVIOUS
<1>1. asks = {[nr |-> 1, lists |-> [x \in Page!Targets(First) |-> Page!None]]}
  BY DEF Page!Init, Page!Ask
<1>2. Page!PageIsTrue
  BY <1>1 DEF Page!Init, Page!PageIsTrue
<1>3. PageLists
  BY <1>1 DEF Page!Init, PageLists, IsAsk
<1>4. PageUnmade = unborn
  BY DEF Page!Init, PageUnmade
<1>5. PagePosts
  BY <1>1, <1>4 DEF Page!Init, PagePosts
<1> QED
  BY <1>2, <1>3, <1>5 DEF PageInv

\* A list asked for has no answers yet, and is the only one of its number.
LEMMA PageLoad ==
  ASSUME PageInv, NEW d, Page!Load(d), chosen' = d
  PROVE  PageLists' /\ loading' = TRUE /\ \E r \in asks' : r.nr = lastAsk'
<1> DEFINE n == [nr |-> lastAsk + 1, lists |-> [x \in Page!Targets(d) |-> Page!None]]
<1>1. asks' = asks \cup {n} /\ lastAsk' = lastAsk + 1 /\ loading' = TRUE
  BY DEF Page!Load, Page!Ask
<1>2. /\ IsAsk(n) /\ n.nr = lastAsk + 1
      /\ DOMAIN n.lists = Page!Targets(d)
      /\ \A x \in DOMAIN n.lists : n.lists[x] = Page!None
  BY DEF IsAsk
<1> HIDE DEF n
<1>3. Page!Targets(chosen)' = Page!Targets(d)
  BY DEF Page!Targets
<1>4. lastAsk' \in Nat /\ \A r \in asks : r.nr \in Nat /\ r.nr < lastAsk'
  BY <1>1 DEF PageInv, PageLists
<1>5. ASSUME NEW r \in asks'
      PROVE  /\ IsAsk(r)
             /\ r.nr \in Nat /\ r.nr <= lastAsk'
             /\ \A s \in asks' : r.nr = s.nr => r = s
             /\ r.nr = lastAsk' => DOMAIN r.lists = Page!Targets(d)
             /\ \A x \in DOMAIN r.lists :
                  r.lists[x] # Page!None =>
                    /\ \A b \in r.lists[x] : Owner[b] = x
                    /\ r.nr = lastAsk' => r.lists[x] \cap removed' = {}
  <2>1. CASE r \in asks
    BY <1>1, <1>2, <1>4, <2>1 DEF PageInv, PageLists
  <2>2. CASE r = n
    BY <1>1, <1>2, <1>4, <2>2
  <2> QED
    BY <1>1, <2>1, <2>2
<1>6. PageLists'
  BY <1>3, <1>4, <1>5 DEF PageLists
<1> QED
  BY <1>1, <1>2, <1>6

LEMMA PageAnswer ==
  ASSUME PageInv, NEW r \in asks, NEW d \in DOMAIN r.lists, Page!Answer(r, d)
  PROVE  PageInv'
<1> DEFINE v == {b \in stock : Owner[b] = d}
           n == [r EXCEPT !.lists[d] = v]
<1>1. /\ asks' = (asks \ {r}) \cup {n} /\ r.lists[d] = Page!None
      /\ UNCHANGED <<chosen, shown, loading, failed, lastAsk, selected, busy, posts, stock, unborn,
                     events, ticked, removed, posted>>
  BY DEF Page!Answer
<1>2. IsAsk(r)
  BY DEF PageInv, PageLists
<1>3. /\ IsAsk(n) /\ n.nr = r.nr /\ DOMAIN n.lists = DOMAIN r.lists
      /\ n.lists[d] = v
      /\ \A x \in DOMAIN r.lists \ {d} : n.lists[x] = r.lists[x]
  BY <1>2 DEF IsAsk
<1>4. v \subseteq stock /\ \A b \in v : Owner[b] = d
  OBVIOUS
<1> HIDE DEF n, v
<1>5. Page!PageIsTrue'
  <2>1. (\E s \in asks : s.nr = lastAsk) <=> (\E s \in asks' : s.nr = lastAsk)
    BY <1>1, <1>3
  <2> QED
    BY <1>1, <2>1 DEF PageInv, Page!PageIsTrue, Page!Targets, Page!Routers
<1>6. PageLists'
  <2>1. Page!Targets(chosen)' = Page!Targets(chosen)
    BY <1>1 DEF Page!Targets
  <2>2. stock \cap removed = {}
    BY DEF PageInv, PagePosts
  <2>3. ASSUME NEW s \in asks'
        PROVE  /\ IsAsk(s)
               /\ s.nr \in Nat /\ s.nr <= lastAsk
               /\ \A t \in asks' : s.nr = t.nr => s = t
               /\ s.nr = lastAsk => DOMAIN s.lists = Page!Targets(chosen)
               /\ \A x \in DOMAIN s.lists :
                    s.lists[x] # Page!None =>
                      /\ \A b \in s.lists[x] : Owner[b] = x
                      /\ s.nr = lastAsk => s.lists[x] \cap removed = {}
    <3>1. CASE s \in asks \ {r}
      BY <1>1, <1>3, <3>1 DEF PageInv, PageLists
    <3>2. CASE s = n
      BY <1>1, <1>3, <1>4, <2>2, <3>2 DEF PageInv, PageLists
    <3> QED
      BY <1>1, <3>1, <3>2
  <2> QED
    BY <1>1, <2>1, <2>3 DEF PageInv, PageLists
<1>7. PagePosts'
  <2>1. PageUnmade' = PageUnmade
    BY <1>1 DEF PageUnmade
  <2>2. stock \cap PageUnmade = {}
    BY DEF PageInv, PagePosts, PageUnmade
  <2>3. \A s \in asks' : \A x \in DOMAIN s.lists :
          s.lists[x] # Page!None => s.lists[x] \cap PageUnmade = {}
    BY <1>1, <1>3, <1>4, <2>2 DEF PageInv, PagePosts
  <2> QED
    BY <1>1, <2>1, <2>3 DEF PageInv, PagePosts
<1> QED
  BY <1>5, <1>6, <1>7 DEF PageInv

LEMMA PageLoaded ==
  ASSUME PageInv, NEW r \in asks, Page!Loaded(r)
  PROVE  PageInv'
<1> DEFINE L == UNION {r.lists[d] : d \in DOMAIN r.lists}
<1>1. /\ asks' = asks \ {r}
      /\ \A d \in DOMAIN r.lists : r.lists[d] # Page!None
      /\ IF r.nr = lastAsk
         THEN shown' = L /\ selected' = selected \cap L /\ loading' = FALSE
         ELSE UNCHANGED <<shown, selected, loading>>
      /\ UNCHANGED <<chosen, failed, lastAsk, busy, posts, stock, unborn, events, ticked, removed, posted>>
  BY DEF Page!Loaded, Page!Mounted, Page!Prune
<1>2. L \cap PageUnmade = {}
  BY <1>1 DEF PageInv, PagePosts
<1>3. r.nr = lastAsk => {Owner[b] : b \in L} \subseteq Page!Targets(chosen) /\ L \cap removed = {}
  BY <1>1 DEF PageInv, PageLists
<1> HIDE DEF L
<1>4. Page!Targets(chosen)' = Page!Targets(chosen)
  BY <1>1 DEF Page!Targets
<1>5. \A s \in asks : s.nr = r.nr => s = r
  BY DEF PageInv, PageLists
<1>6. Page!PageIsTrue'
  <2>0. Page!PageIsTrue
    BY DEF PageInv
  <2>1. CASE r.nr = lastAsk
    BY <1>1, <1>3, <1>4, <1>5, <2>0, <2>1 DEF Page!PageIsTrue
  <2>2. CASE r.nr # lastAsk
    BY <1>1, <1>4, <2>0, <2>2 DEF Page!PageIsTrue
  <2> QED
    BY <2>1, <2>2
<1>7. PageLists'
  BY <1>1, <1>4 DEF PageInv, PageLists
<1>8. PagePosts'
  <2>1. PageUnmade' = PageUnmade
    BY <1>1 DEF PageUnmade
  <2>2. shown' \cap PageUnmade = {}
    BY <1>1, <1>2 DEF PageInv, PagePosts
  <2> QED
    BY <1>1, <2>1, <2>2 DEF PageInv, PagePosts
<1> QED
  BY <1>6, <1>7, <1>8 DEF PageInv

LEMMA PageLoadFails ==
  ASSUME PageInv, NEW r \in asks, Page!LoadFails(r)
  PROVE  PageInv'
<1>1. /\ asks' = asks \ {r}
      /\ IF r.nr = lastAsk THEN failed' = TRUE /\ loading' = FALSE ELSE UNCHANGED <<failed, loading>>
      /\ UNCHANGED <<chosen, shown, lastAsk, selected, busy, posts, stock, unborn, events, ticked,
                     removed, posted>>
  BY DEF Page!LoadFails, Page!Mounted
<1>2. Page!Targets(chosen)' = Page!Targets(chosen)
  BY <1>1 DEF Page!Targets
<1>3. \A s \in asks : s.nr = r.nr => s = r
  BY DEF PageInv, PageLists
<1>4. Page!PageIsTrue'
  BY <1>1, <1>2, <1>3 DEF PageInv, Page!PageIsTrue
<1>5. PageLists'
  BY <1>1, <1>2 DEF PageInv, PageLists
<1>6. PageUnmade' = PageUnmade
  BY <1>1 DEF PageUnmade
<1>7. PagePosts'
  BY <1>1, <1>6 DEF PageInv, PagePosts
<1> QED
  BY <1>4, <1>5, <1>7 DEF PageInv

\* What asking for a list leaves of the rest.
LEMMA PageLoadKeeps ==
  ASSUME PageInv, NEW d, Page!Load(d)
  PROVE  /\ shown' = shown
         /\ \A K : (\A r \in asks : \A x \in DOMAIN r.lists :
                      r.lists[x] # Page!None => r.lists[x] \cap K = {})
              => \A r \in asks' : \A x \in DOMAIN r.lists :
                   r.lists[x] # Page!None => r.lists[x] \cap K = {}
<1> DEFINE n == [nr |-> lastAsk + 1, lists |-> [x \in Page!Targets(d) |-> Page!None]]
<1>1. asks' = asks \cup {n} /\ shown' = shown
  BY DEF Page!Load, Page!Ask
<1>2. \A x \in DOMAIN n.lists : n.lists[x] = Page!None
  OBVIOUS
<1> HIDE DEF n
<1> QED
  BY <1>1, <1>2

LEMMA PageChoose ==
  ASSUME PageInv, NEW d, Page!Choose(d)
  PROVE  PageInv'
<1>1. /\ chosen' = d /\ Page!Load(d) /\ selected' = {} /\ ticked' = {}
      /\ UNCHANGED <<busy, posts, stock, unborn, removed, posted>>
  BY DEF Page!Choose, Page!Clear
<1>2. PageLists' /\ loading' = TRUE /\ \E r \in asks' : r.nr = lastAsk'
  BY <1>1, PageLoad
<1>3. Page!PageIsTrue'
  BY <1>1, <1>2 DEF Page!PageIsTrue
<1>4. PageUnmade' = PageUnmade
  BY <1>1 DEF PageUnmade
<1>5. \A r \in asks' : \A x \in DOMAIN r.lists :
        r.lists[x] # Page!None => r.lists[x] \cap PageUnmade = {}
  BY <1>1, PageLoadKeeps DEF PageInv, PagePosts
<1>6. shown' = shown
  BY <1>1, PageLoadKeeps
<1>7. PagePosts'
  BY <1>1, <1>4, <1>5, <1>6 DEF PageInv, PagePosts
<1> QED
  BY <1>2, <1>3, <1>7 DEF PageInv

LEMMA PageTicks ==
  ASSUME PageInv, NEW V \in SUBSET shown, selected' \subseteq selected \cup V, ticked' = ticked \cup V,
         UNCHANGED <<chosen, shown, loading, failed, lastAsk, asks, busy, posts, stock, unborn, events,
                     removed, posted>>
  PROVE  PageInv'
<1>1. Page!Targets(chosen)' = Page!Targets(chosen)
  BY DEF Page!Targets
<1>2. Page!PageIsTrue'
  BY <1>1 DEF PageInv, Page!PageIsTrue
<1>3. PageUnmade' = PageUnmade
  BY DEF PageUnmade
<1>4. PageLists' /\ PagePosts'
  BY <1>1, <1>3 DEF PageInv, PageLists, PagePosts
<1> QED
  BY <1>2, <1>4 DEF PageInv

\* A request posted: what it names is the page's own, or not asked for before.
LEMMA PagePost ==
  ASSUME PageInv, NEW kind, NEW S, Page!Post(kind, S),
         \/ kind # "create" /\ S \subseteq shown /\ unborn' = unborn
         \/ kind = "create" /\ S \subseteq unborn /\ unborn' = unborn \ S,
         UNCHANGED <<chosen, shown, loading, failed, lastAsk, asks, selected, stock, events, ticked, removed>>
  PROVE  PageInv'
<1> DEFINE n == [nr |-> posted, kind |-> kind, left |-> S, named |-> S]
<1>1. posts' = posts \cup {n}
  BY DEF Page!Post
<1>2. IsPost(n) /\ n.kind = kind /\ n.left = S /\ n.named = S
  BY DEF IsPost
<1> HIDE DEF n
<1>3. Page!Targets(chosen)' = Page!Targets(chosen)
  BY DEF Page!Targets
<1>4. Page!PageIsTrue' /\ PageLists'
  BY <1>3 DEF PageInv, Page!PageIsTrue, PageLists
<1>5. PageUnmade' = PageUnmade
  <2>1. CASE kind # "create"
    BY <1>1, <1>2, <2>1 DEF PageUnmade
  <2>2. CASE kind = "create"
    BY <1>1, <1>2, <2>2 DEF PageUnmade
  <2> QED
    BY <2>1, <2>2
<1>6. PagePosts
  BY DEF PageInv
<1>7. S \subseteq unborn => S \cap stock = {}
  BY <1>6 DEF PagePosts
<1>8. ASSUME NEW p \in posts'
      PROVE  /\ IsPost(p)
             /\ p.left \subseteq p.named
             /\ p.kind = "create" =>
                  /\ p.left \cap (unborn' \cup stock) = {}
                  /\ \A q \in posts' : q.kind = "create" /\ q # p => p.left \cap q.left = {}
             /\ p.kind # "create" =>
                  /\ p.named \cap PageUnmade = {}
                  /\ (p.named \ p.left) \cap stock = {}
  <2>1. CASE p \in posts
    BY <1>1, <1>2, <1>6, <2>1 DEF PagePosts
  <2>2. CASE p = n
    BY <1>1, <1>2, <1>6, <1>7, <2>2 DEF PagePosts
  <2> QED
    BY <1>1, <2>1, <2>2
<1>9. PagePosts'
  BY <1>5, <1>6, <1>8 DEF PagePosts
<1> QED
  BY <1>4, <1>9 DEF PageInv

\* The server makes or deletes one backup of a request.
LEMMA PageServe ==
  ASSUME PageInv, NEW p \in posts, NEW b \in p.left, Page!Serve(p, b)
  PROVE  PageInv'
<1> DEFINE n == [p EXCEPT !.left = p.left \ {b}]
<1>1. /\ posts' = (posts \ {p}) \cup {n}
      /\ stock' = IF p.kind = "create" THEN stock \cup {b} ELSE stock \ {b}
      /\ UNCHANGED <<chosen, shown, loading, failed, lastAsk, asks, selected, unborn, ticked, removed>>
  BY DEF Page!Serve, Page!list
<1>2. PagePosts /\ IsPost(p) /\ p.left \subseteq p.named
  BY DEF PageInv, PagePosts
<1>3. IsPost(n) /\ n.kind = p.kind /\ n.left = p.left \ {b} /\ n.named = p.named
  BY <1>2 DEF IsPost
<1> HIDE DEF n
<1>4. Page!Targets(chosen)' = Page!Targets(chosen)
  BY <1>1 DEF Page!Targets
<1>5. Page!PageIsTrue' /\ PageLists'
  BY <1>1, <1>4 DEF PageInv, Page!PageIsTrue, PageLists
<1>6. PageUnmade' \subseteq PageUnmade
  BY <1>1, <1>3 DEF PageUnmade
<1>7. p.kind = "create" => b \in PageUnmade /\ b \notin PageUnmade'
  <2> SUFFICES ASSUME p.kind = "create" PROVE b \in PageUnmade /\ b \notin PageUnmade'
    OBVIOUS
  <2>1. b \in PageUnmade
    BY DEF PageUnmade
  <2>2. b \notin unborn
    BY <1>2 DEF PagePosts
  <2>3. \A q \in posts : q.kind = "create" /\ q # p => b \notin q.left
    BY <1>2 DEF PagePosts
  <2> QED
    BY <1>1, <1>3, <2>1, <2>2, <2>3 DEF PageUnmade
<1>8. ASSUME NEW q \in posts'
      PROVE  /\ IsPost(q)
             /\ q.left \subseteq q.named
             /\ q.kind = "create" =>
                  /\ q.left \cap (unborn \cup stock') = {}
                  /\ \A s \in posts' : s.kind = "create" /\ s # q => q.left \cap s.left = {}
             /\ q.kind # "create" =>
                  /\ q.named \cap PageUnmade' = {}
                  /\ (q.named \ q.left) \cap stock' = {}
  <2>1. CASE q \in posts \ {p}
    <3>1. q.kind = "create" =>
             /\ q.left \cap (unborn \cup stock') = {}
             /\ \A s \in posts' : s.kind = "create" /\ s # q => q.left \cap s.left = {}
      BY <1>1, <1>2, <1>3, <2>1 DEF PagePosts
    <3>2. q.kind # "create" =>
             /\ q.named \cap PageUnmade' = {}
             /\ (q.named \ q.left) \cap stock' = {}
      BY <1>1, <1>2, <1>6, <1>7, <2>1 DEF PagePosts
    <3> QED
      BY <1>2, <2>1, <3>1, <3>2 DEF PagePosts
  <2>2. CASE q = n
    <3>1. q.kind = "create" =>
             /\ q.left \cap (unborn \cup stock') = {}
             /\ \A s \in posts' : s.kind = "create" /\ s # q => q.left \cap s.left = {}
      BY <1>1, <1>2, <1>3, <2>2 DEF PagePosts
    <3>2. q.kind # "create" =>
             /\ q.named \cap PageUnmade' = {}
             /\ (q.named \ q.left) \cap stock' = {}
      BY <1>1, <1>2, <1>3, <1>6, <2>2 DEF PagePosts
    <3> QED
      BY <1>2, <1>3, <2>2, <3>1, <3>2
  <2> QED
    BY <1>1, <2>1, <2>2
<1>9. PagePosts'
  <2>1. stock' \cap unborn = {} /\ removed \cap (stock' \cup PageUnmade') = {}
    BY <1>1, <1>2, <1>6, <1>7 DEF PagePosts, PageUnmade
  <2>2. shown \cap PageUnmade' = {}
    BY <1>2, <1>6 DEF PagePosts
  <2>3. \A r \in asks : \A d \in DOMAIN r.lists :
          r.lists[d] # Page!None => r.lists[d] \cap PageUnmade' = {}
    BY <1>2, <1>6 DEF PagePosts
  <2> QED
    BY <1>1, <1>8, <2>1, <2>2, <2>3 DEF PagePosts
<1> QED
  BY <1>5, <1>9 DEF PageInv

\* A request that is over, with or without another list asked for.
LEMMA PagePostOver ==
  ASSUME PageInv, NEW p \in posts, posts' = posts \ {p},
         \/ removed' = removed
         \/ p.kind # "create" /\ p.left = {} /\ removed' = removed \cup p.named /\ Page!Load(chosen),
         selected' \subseteq selected,
         Page!Load(chosen) \/ UNCHANGED <<shown, loading, failed, lastAsk, asks>>,
         UNCHANGED <<chosen, stock, unborn, events, ticked>>
  PROVE  PageInv'
<1>1. PagePosts
  BY DEF PageInv
<1>2. PageUnmade' \subseteq PageUnmade
  BY DEF PageUnmade
<1>3. shown' = shown
  BY PageLoadKeeps
<1>4. removed' \cap (stock \cup PageUnmade) = {}
  BY <1>1 DEF PagePosts
<1>5. \A r \in asks' : \A d \in DOMAIN r.lists :
        r.lists[d] # Page!None => r.lists[d] \cap PageUnmade = {}
  <2>1. CASE Page!Load(chosen)
    BY <1>1, <2>1, PageLoadKeeps DEF PagePosts
  <2>2. CASE asks' = asks
    BY <1>1, <2>2 DEF PagePosts
  <2> QED
    BY <2>1, <2>2
<1>6. \A q \in posts' : q \in posts
  OBVIOUS
<1>7. PagePosts'
  BY <1>1, <1>2, <1>3, <1>4, <1>5, <1>6 DEF PagePosts
<1>8. Page!Targets(chosen)' = Page!Targets(chosen)
  BY DEF Page!Targets
<1>9. CASE Page!Load(chosen)
  <2>1. PageLists' /\ loading' = TRUE /\ \E r \in asks' : r.nr = lastAsk'
    BY <1>9, PageLoad
  <2>2. Page!PageIsTrue'
    BY <1>3, <2>1 DEF PageInv, Page!PageIsTrue
  <2> QED
    BY <1>7, <2>1, <2>2 DEF PageInv
<1>10. CASE ~Page!Load(chosen)
  BY <1>7, <1>8, <1>10 DEF PageInv, Page!PageIsTrue, PageLists
<1> QED
  BY <1>9, <1>10

LEMMA PageElsewhere ==
  ASSUME PageInv, Page!Elsewhere
  PROVE  PageInv'
<1>1. UNCHANGED <<chosen, shown, loading, failed, lastAsk, asks, selected, posts, ticked, removed>>
  BY DEF Page!Elsewhere, Page!list
<1>2. PICK b : \/ b \in unborn /\ stock' = stock \cup {b} /\ unborn' = unborn \ {b}
               \/ b \in stock /\ stock' = stock \ {b} /\ unborn' = unborn
  BY DEF Page!Elsewhere
<1>3. PagePosts
  BY DEF PageInv
<1>4. Page!Targets(chosen)' = Page!Targets(chosen)
  BY <1>1 DEF Page!Targets
<1>5. Page!PageIsTrue' /\ PageLists'
  BY <1>1, <1>4 DEF PageInv, Page!PageIsTrue, PageLists
<1>6. PageUnmade' \subseteq PageUnmade
  BY <1>1, <1>2 DEF PageUnmade
<1>7. stock' \subseteq stock \/ (stock' = stock \cup {b} /\ b \in PageUnmade /\ b \notin PageUnmade')
  BY <1>1, <1>2, <1>3 DEF PagePosts, PageUnmade
<1>8. ASSUME NEW p \in posts
      PROVE  /\ p.kind = "create" => p.left \cap (unborn' \cup stock') = {}
             /\ p.kind # "create" =>
                  /\ p.named \cap PageUnmade' = {}
                  /\ (p.named \ p.left) \cap stock' = {}
  <2>1. p.kind = "create" => p.left \cap (unborn \cup stock) = {}
    BY <1>3 DEF PagePosts
  <2>2. p.kind # "create" => p.named \cap PageUnmade = {} /\ (p.named \ p.left) \cap stock = {}
    BY <1>3 DEF PagePosts
  <2>3. unborn' \cup stock' \subseteq unborn \cup stock
    BY <1>2
  <2> QED
    BY <1>6, <1>7, <2>1, <2>2, <2>3
<1>9. stock' \cap unborn' = {}
  BY <1>2, <1>3 DEF PagePosts
<1>10. shown \cap PageUnmade' = {} /\ removed \cap (stock' \cup PageUnmade') = {}
  BY <1>3, <1>6, <1>7 DEF PagePosts
<1>11. \A r \in asks : \A d \in DOMAIN r.lists :
         r.lists[d] # Page!None => r.lists[d] \cap PageUnmade' = {}
  BY <1>3, <1>6 DEF PagePosts
<1>12. PagePosts'
  BY <1>1, <1>3, <1>8, <1>9, <1>10, <1>11 DEF PagePosts
<1> QED
  BY <1>5, <1>12 DEF PageInv

LEMMA NextPage == PageInv /\ (Page!Next \/ UNCHANGED pageVars) => PageInv'
<1> SUFFICES ASSUME PageInv, Page!Next \/ UNCHANGED pageVars PROVE PageInv'
  OBVIOUS
<1>1. ASSUME NEW r \in asks, Page!Loaded(r) \/ Page!LoadFails(r) \/ \E d \in DOMAIN r.lists : Page!Answer(r, d)
      PROVE  PageInv'
  BY <1>1, PageLoaded, PageLoadFails, PageAnswer
<1>2. ASSUME NEW d, Page!Choose(d) PROVE PageInv'
  BY <1>2, PageChoose
<1>3. ASSUME NEW b \in shown, Page!Toggle(b) PROVE PageInv'
  <2>1. /\ selected' \subseteq selected \cup {b} /\ ticked' = ticked \cup {b} /\ {b} \in SUBSET shown
        /\ UNCHANGED <<chosen, shown, loading, failed, lastAsk, asks, busy, posts, stock, unborn, events,
                       removed, posted>>
    BY <1>3 DEF Page!Toggle, Page!list
  <2> QED
    BY <2>1, PageTicks
<1>4. ASSUME NEW V \in SUBSET shown, Page!ToggleAll(V) PROVE PageInv'
  <2>1. /\ selected' \subseteq selected \cup V /\ ticked' = ticked \cup V
        /\ UNCHANGED <<chosen, shown, loading, failed, lastAsk, asks, busy, posts, stock, unborn, events,
                       removed, posted>>
    BY <1>4 DEF Page!ToggleAll, Page!list
  <2> QED
    BY <2>1, PageTicks
<1>5. ASSUME NEW b \in shown, Page!DeleteOne(b) PROVE PageInv'
  <2>1. /\ Page!Post("delete", {b}) /\ unborn' = unborn /\ {b} \subseteq shown
        /\ UNCHANGED <<chosen, shown, loading, failed, lastAsk, asks, selected, stock, events, ticked, removed>>
    BY <1>5 DEF Page!DeleteOne, Page!list
  <2> QED
    BY <2>1, PagePost
<1>6. CASE Page!DeleteSelected
  <2>1. /\ Page!Post("deleteMany", selected) /\ unborn' = unborn
        /\ UNCHANGED <<chosen, shown, loading, failed, lastAsk, asks, selected, stock, events, ticked, removed>>
    BY <1>6 DEF Page!DeleteSelected, Page!list
  <2>2. selected \subseteq shown
    BY DEF PageInv, Page!PageIsTrue
  <2> QED
    BY <2>1, <2>2, PagePost
<1>7. ASSUME NEW S \in SUBSET unborn, Page!Create(S) PROVE PageInv'
  <2>1. /\ Page!Post("create", S) /\ unborn' = unborn \ S
        /\ UNCHANGED <<chosen, shown, loading, failed, lastAsk, asks, selected, stock, events, ticked, removed>>
    BY <1>7 DEF Page!Create, Page!list
  <2> QED
    BY <2>1, PagePost
<1>8. CASE Page!Elsewhere
  BY <1>8, PageElsewhere
<1>9. ASSUME NEW p \in posts, Page!Succeeds(p) PROVE PageInv'
  <2>1. /\ p.left = {} /\ posts' = posts \ {p}
        /\ selected' \subseteq selected
        /\ removed' = IF p.kind = "create" THEN removed ELSE removed \cup p.named
        /\ Page!Load(chosen)
        /\ UNCHANGED <<chosen, stock, unborn, events, ticked>>
    BY <1>9 DEF Page!Succeeds, Page!Refresh
  <2> QED
    BY <2>1, PagePostOver
<1>10. ASSUME NEW p \in posts, Page!Rejected(p) PROVE PageInv'
  <2>1. /\ posts' = posts \ {p} /\ selected' = selected /\ removed' = removed
        /\ Page!Load(chosen) \/ UNCHANGED <<shown, loading, failed, lastAsk, asks>>
        /\ UNCHANGED <<chosen, stock, unborn, events, ticked>>
    BY <1>10 DEF Page!Rejected, Page!Refresh, Page!list
  <2> QED
    BY <2>1, PagePostOver
<1>11. ASSUME NEW p \in posts, NEW b \in p.left, Page!Serve(p, b) PROVE PageInv'
  BY <1>11, PageServe
<1>12. CASE UNCHANGED pageVars
  BY <1>12 DEF pageVars, PageInv, Page!PageIsTrue, Page!Targets, Page!Routers, PageLists, PagePosts, PageUnmade
<1> QED
  BY <1>1, <1>2, <1>3, <1>4, <1>5, <1>6, <1>7, <1>8, <1>9, <1>10, <1>11, <1>12 DEF Page!Next

\* The page acts on what it shows, whatever answers come late and whatever
\* requests fail.
THEOREM PageAlwaysTrue == Spec => []PageIsTrue
<1> DEFINE I == part = "backup page" => PageInv
<1>1. Init => I
  BY InitPage DEF Init
<1>2. I /\ [Next]_allVars => I'
  <2> SUFFICES ASSUME I, [Next]_allVars, part' = "backup page" PROVE PageInv'
    OBVIOUS
  <2>1. part = "backup page"
    BY DEF Next, allVars
  <2>2. Page!Next \/ UNCHANGED pageVars
    BY <2>1 DEF Next, allVars, pageVars
  <2> QED
    BY <2>1, <2>2, NextPage
<1>3. I => PageIsTrue
  BY DEF PageIsTrue, PageInv
<1> QED
  BY <1>1, <1>2, <1>3, PTL DEF Spec

-----------------------------------------------------------------------------
(* The syslog settings                                                     *)

AllConfigs == Configs \cup {Default}
Ports == {0} \cup {c.port : c \in AllConfigs}

Calls ==
  [pc : {"none", "stopped", "udp", "udpDone", "tcp", "done"}, cfg : AllConfigs, port : Ports]

SettingsTypes ==
  /\ {memory, persisted, bound} \subseteq AllConfigs
  /\ held \in [Settings!Transports -> Ports]
  /\ call \in [Settings!Actors -> Calls]
  /\ boot \in {"read", "identities", "starting", "done"}
  /\ update \in
       [pc : {"idle", "start", "refused", "firewall", "save", "undo", "undoFirewall"},
        next : AllConfigs, prev : AllConfigs]
  /\ waiting \in Seq(AllConfigs)
  /\ raced \in BOOLEAN

\* The sockets the receiver keeps.
Kept == {<<t, held[t]>> : t \in {x \in Settings!Transports : held[x] # 0}}

\* The receiver listens for c, as far as its ports were free.
Serving(c) ==
  /\ open = Kept
  /\ \A t \in Settings!Transports : held[t] # 0 => t \in c.wants /\ held[t] = c.port

\* Where the start() of actor a has come to.
Receiving(a) ==
  LET k == call[a] IN
  /\ k.pc \in {"stopped", "udp", "udpDone", "tcp", "done"}
  /\ k.pc # "stopped" => bound = k.cfg
  /\ k.pc \in {"udp", "tcp"} => k.port = k.cfg.port /\ k.pc \in k.cfg.wants /\ held[k.pc] = 0
  /\ open = Kept \cup (IF k.pc \in {"udp", "tcp"} THEN {<<k.pc, k.port>>} ELSE {})
  /\ \A t \in Settings!Transports : held[t] # 0 => t \in k.cfg.wants /\ held[t] = k.cfg.port
  /\ k.pc \in {"stopped", "udp", "udpDone"} => held["tcp"] = 0
  /\ k.pc \in {"stopped", "udp"} => held["udp"] = 0

\* Nobody is in start() but the actors of A.
OnlyIn(A) == \A a \in Settings!Actors \ A : call[a].pc = "none"

\* The program begins: the row is read, then the listeners are started for it.
Booting ==
  /\ update.pc = "idle"
  /\ boot # "read" => memory = persisted
  /\ boot \in {"read", "identities"} => OnlyIn({}) /\ held = Settings!Closed /\ open = {}
  /\ boot = "starting" => OnlyIn({"boot"}) /\ Receiving("boot") /\ call["boot"].cfg = memory
  /\ unsynced

\* An update under way: which configuration each place holds.
Updating ==
  /\ memory = persisted
  /\ update.pc # "idle" => update.prev = memory
  /\ update.pc \in {"idle", "firewall", "save", "undoFirewall"} => OnlyIn({})
  /\ update.pc = "idle" => Serving(memory) /\ (degraded \/ ~Settings!Refused(memory))
  /\ update.pc \in {"start", "refused", "undo"} =>
       /\ OnlyIn({"update"}) /\ Receiving("update")
       /\ call["update"].cfg = IF update.pc = "start" THEN update.next ELSE update.prev
  /\ update.pc \in {"firewall", "save"} => Serving(update.next) /\ ~Settings!Refused(update.next)
  /\ update.pc = "undoFirewall" =>
       Serving(update.prev) /\ (degraded \/ ~Settings!Refused(update.prev))
  /\ update.pc \in {"idle", "start", "refused", "firewall"} =>
       unsynced \/ rule = Settings!RuleOf(memory)
  /\ update.pc = "save" => rule = Settings!RuleOf(update.next)

SettingsInv ==
  /\ SettingsTypes
  /\ raced \/ (IF boot = "done" THEN Updating ELSE Booting)

LEMMA PortsDiffer ==
  /\ \A c \in AllConfigs : c.port # 0 /\ c.wants \subseteq {"udp", "tcp"} /\ c.port \in Ports
  /\ Default \in AllConfigs /\ 0 \in Ports
BY SettingsAssumption DEF AllConfigs, Ports

LEMMA SettingsNothing ==
  /\ Settings!NoUpdate \in
       [pc : {"idle", "start", "refused", "firewall", "save", "undo", "undoFirewall"},
        next : AllConfigs, prev : AllConfigs]
  /\ Settings!NoUpdate.pc = "idle"
  /\ Settings!NoCall \in Calls /\ Settings!NoCall.pc = "none"
BY PortsDiffer DEF Settings!NoUpdate, Settings!NoCall, Calls

LEMMA InitSettings == Settings!Init => SettingsInv
<1> SUFFICES ASSUME Settings!Init PROVE SettingsInv
  OBVIOUS
<1>1. SettingsTypes
  <2>1. held \in [Settings!Transports -> Ports] /\ call \in [Settings!Actors -> Calls]
    BY PortsDiffer, SettingsNothing DEF Settings!Init, Settings!Closed
  <2>2. {memory, persisted, bound} \subseteq AllConfigs /\ waiting \in Seq(AllConfigs)
    BY PortsDiffer DEF Settings!Init
  <2>3. /\ update.pc = "idle"
        /\ update \in [pc : {"idle", "start", "refused", "firewall", "save", "undo", "undoFirewall"},
                      next : AllConfigs, prev : AllConfigs]
    BY SettingsNothing DEF Settings!Init
  <2> QED
    BY <2>1, <2>2, <2>3 DEF Settings!Init, SettingsTypes
<1>2. Booting
  BY SettingsNothing DEF Settings!Init, Booting, OnlyIn
<1> QED
  BY <1>1, <1>2 DEF SettingsInv, Settings!Init

LEMMA SettingsCallStartTypes ==
  ASSUME SettingsTypes, NEW a \in Settings!Actors, NEW c \in AllConfigs, Settings!CallStart(a, c)
  PROVE  /\ held' \in [Settings!Transports -> Ports] /\ bound' = bound
         /\ call' \in [Settings!Actors -> Calls]
         /\ held' = Settings!Closed
         /\ call'[a] = [pc |-> "stopped", cfg |-> c, port |-> 0]
         /\ \A b \in Settings!Actors \ {a} : call'[b] = call[b]
BY PortsDiffer DEF Settings!CallStart, Settings!Closed, SettingsTypes, Calls

\* Closing what is kept leaves nothing open, wherever the receiver was.
LEMMA SettingsCallStart ==
  ASSUME SettingsTypes, NEW a \in Settings!Actors, NEW c \in AllConfigs, Settings!CallStart(a, c),
         open \subseteq Kept, OnlyIn({a})
  PROVE  Receiving(a)' /\ call'[a].cfg = c /\ OnlyIn({a})'
<1>1. /\ open' = open \ {<<t, held[t]>> : t \in Settings!Transports}
      /\ held' = Settings!Closed
      /\ call'[a] = [pc |-> "stopped", cfg |-> c, port |-> 0]
      /\ \A b \in Settings!Actors \ {a} : call'[b] = call[b]
  BY SettingsCallStartTypes DEF Settings!CallStart
<1>2. open' = {} /\ Kept' = {}
  BY <1>1 DEF Kept, Settings!Closed
<1>3. Receiving(a)'
  BY <1>1, <1>2 DEF Receiving, Settings!Transports, Settings!Closed
<1>4. OnlyIn({a})'
  BY <1>1 DEF OnlyIn
<1> QED
  BY <1>1, <1>3, <1>4

LEMMA SettingsStepTypes ==
  ASSUME SettingsTypes, NEW a \in Settings!Actors, Settings!StartStep(a)
  PROVE  /\ SettingsTypes'
         /\ call'[a].cfg = call[a].cfg
         /\ \A b \in Settings!Actors \ {a} : call'[b] = call[b]
         /\ call[a].pc \in {"stopped", "udp", "udpDone", "tcp"}
         /\ UNCHANGED <<memory, persisted, rule, taken, boot, update, waiting, raced, degraded, unsynced>>
<1>0. \A t \in {"udp", "tcp"}, s1 \in Ports : bound.port \in Ports /\ t \in Settings!Transports
  BY PortsDiffer DEF SettingsTypes, Settings!Transports
<1>1. call \in [Settings!Actors -> Calls] /\ bound \in AllConfigs /\ held \in [Settings!Transports -> Ports]
  BY DEF SettingsTypes
<1>2. UNCHANGED <<memory, persisted, rule, taken, boot, update, waiting, raced, degraded, unsynced>>
  BY DEF Settings!StartStep, Settings!Stopped, Settings!KeepUdp, Settings!StartTcp, Settings!KeepTcp,
         Settings!places, Settings!ssHistory
<1>3. SUFFICES /\ call' \in [Settings!Actors -> Calls] /\ bound' \in AllConfigs /\ held' \in [Settings!Transports -> Ports]
               /\ call'[a].cfg = call[a].cfg
               /\ \A b \in Settings!Actors \ {a} : call'[b] = call[b]
               /\ call[a].pc \in {"stopped", "udp", "udpDone", "tcp"}
  BY <1>2 DEF SettingsTypes, Calls
<1>4. ASSUME NEW t, NEW here \in {"udp", "tcp"}, NEW c \in AllConfigs, NEW next \in {"udpDone", "done"},
             Settings!Bind(a, t, here, c, next)
      PROVE  /\ call' \in [Settings!Actors -> Calls]
             /\ call'[a].cfg = call[a].cfg
             /\ \A b \in Settings!Actors \ {a} : call'[b] = call[b]
  <2>1. PICK k : /\ call' = [call EXCEPT ![a] = k]
                 /\ \/ k = [call[a] EXCEPT !.pc = next]
                    \/ k = [call[a] EXCEPT !.pc = here, !.port = c.port]
    BY <1>4 DEF Settings!Bind
  <2>2. call[a] \in Calls
    BY <1>1
  <2>3. k \in Calls /\ k.cfg = call[a].cfg
    BY <2>1, <2>2, PortsDiffer DEF Calls
  <2> QED
    BY <1>1, <2>1, <2>3
<1>5. CASE Settings!Stopped(a)
  <2>1. call[a].cfg \in AllConfigs
    BY <1>1 DEF Calls
  <2> QED
    BY <1>1, <1>4, <1>5, <2>1 DEF Settings!Stopped
<1>6. CASE Settings!StartTcp(a)
  BY <1>1, <1>4, <1>6 DEF Settings!StartTcp
<1>7. CASE Settings!KeepUdp(a)
  BY <1>1, <1>7 DEF Settings!KeepUdp, Calls, Settings!Transports
<1>8. CASE Settings!KeepTcp(a)
  BY <1>1, <1>8 DEF Settings!KeepTcp, Calls, Settings!Transports
<1> QED
  BY <1>5, <1>6, <1>7, <1>8 DEF Settings!StartStep

\* A step of start() opens or keeps one port of its configuration.
LEMMA SettingsReceives ==
  ASSUME SettingsTypes, NEW a \in Settings!Actors, Settings!StartStep(a), Receiving(a)
  PROVE  Receiving(a)'
<1> DEFINE c == call[a].cfg
<1>1. /\ c.port # 0 /\ c.wants \subseteq {"udp", "tcp"} /\ c \in AllConfigs
  BY PortsDiffer DEF SettingsTypes, Calls
<1>2. call \in [Settings!Actors -> Calls] /\ call[a] \in Calls
      /\ held \in [Settings!Transports -> Ports]
  BY DEF SettingsTypes
<1>3. CASE Settings!Stopped(a)
  <2>1. /\ call[a].pc = "stopped" /\ bound' = c /\ held' = held
        /\ \/ call' = [call EXCEPT ![a] = [call[a] EXCEPT !.pc = "udpDone"]] /\ open' = open
           \/ /\ "udp" \in c.wants
              /\ call' = [call EXCEPT ![a] = [call[a] EXCEPT !.pc = "udp", !.port = c.port]]
              /\ open' = open \cup {<<"udp", c.port>>}
    BY <1>2, <1>3 DEF Settings!Stopped, Settings!Bind
  <2>2. Kept' = Kept
    BY <2>1 DEF Kept
  <2>3. /\ call'[a].cfg = c
        /\ \/ call'[a].pc = "udpDone" /\ open' = open
           \/ "udp" \in c.wants /\ call'[a].pc = "udp" /\ call'[a].port = c.port
              /\ open' = open \cup {<<"udp", c.port>>}
    <3>1. CASE call' = [call EXCEPT ![a] = [call[a] EXCEPT !.pc = "udpDone"]] /\ open' = open
      <4>1. call'[a] = [call[a] EXCEPT !.pc = "udpDone"]
        BY <1>2, <3>1
      <4> QED
        BY <1>2, <3>1, <4>1 DEF Calls
    <3>2. CASE /\ "udp" \in c.wants
               /\ call' = [call EXCEPT ![a] = [call[a] EXCEPT !.pc = "udp", !.port = c.port]]
               /\ open' = open \cup {<<"udp", c.port>>}
      <4>1. call'[a] = [call[a] EXCEPT !.pc = "udp", !.port = c.port]
        BY <1>2, <3>2
      <4> QED
        BY <1>2, <2>1, <3>2, <4>1 DEF Calls
    <3> QED
      BY <2>1, <3>1, <3>2
  <2>4. open = Kept /\ held["udp"] = 0 /\ held["tcp"] = 0
    BY <2>1 DEF Receiving
  <2> QED
    BY <2>1, <2>2, <2>3, <2>4 DEF Receiving, Settings!Transports
<1>4. CASE Settings!KeepUdp(a)
  <2>1. /\ call[a].pc = "udp" /\ bound' = bound /\ open' = open
        /\ held' = [held EXCEPT !["udp"] = call[a].port]
        /\ call' = [call EXCEPT ![a] = [call[a] EXCEPT !.pc = "udpDone"]]
    BY <1>4 DEF Settings!KeepUdp
  <2>2. call[a].port = c.port /\ "udp" \in c.wants /\ held["udp"] = 0
    BY <2>1 DEF Receiving
  <2>3. Kept' = Kept \cup {<<"udp", c.port>>}
    BY <1>1, <1>2, <2>1, <2>2 DEF Kept, Settings!Transports
  <2> QED
    BY <1>1, <1>2, <2>1, <2>2, <2>3 DEF Receiving, Settings!Transports
<1>5. CASE Settings!StartTcp(a)
  <2>1. /\ call[a].pc = "udpDone" /\ bound' = bound /\ held' = held /\ bound = c
        /\ \/ call' = [call EXCEPT ![a] = [call[a] EXCEPT !.pc = "done"]] /\ open' = open
           \/ /\ "tcp" \in c.wants
              /\ call' = [call EXCEPT ![a] = [call[a] EXCEPT !.pc = "tcp", !.port = bound.port]]
              /\ open' = open \cup {<<"tcp", bound.port>>}
    BY <1>2, <1>5 DEF Settings!StartTcp, Settings!Bind, Receiving
  <2>2. Kept' = Kept
    BY <2>1 DEF Kept
  <2>3. /\ call'[a].cfg = c
        /\ \/ call'[a].pc = "done" /\ open' = open
           \/ "tcp" \in c.wants /\ call'[a].pc = "tcp" /\ call'[a].port = c.port
              /\ open' = open \cup {<<"tcp", c.port>>}
    <3>1. CASE call' = [call EXCEPT ![a] = [call[a] EXCEPT !.pc = "done"]] /\ open' = open
      <4>1. call'[a] = [call[a] EXCEPT !.pc = "done"]
        BY <1>2, <3>1
      <4> QED
        BY <1>2, <3>1, <4>1 DEF Calls
    <3>2. CASE /\ "tcp" \in c.wants
               /\ call' = [call EXCEPT ![a] = [call[a] EXCEPT !.pc = "tcp", !.port = bound.port]]
               /\ open' = open \cup {<<"tcp", bound.port>>}
      <4>1. call'[a] = [call[a] EXCEPT !.pc = "tcp", !.port = bound.port]
        BY <1>2, <3>2
      <4> QED
        BY <1>2, <2>1, <3>2, <4>1 DEF Calls
    <3> QED
      BY <2>1, <3>1, <3>2
  <2>4. /\ open = Kept /\ held["tcp"] = 0
        /\ \A t \in Settings!Transports : held[t] # 0 => t \in c.wants /\ held[t] = c.port
    BY <2>1 DEF Receiving
  <2> QED
    BY <2>1, <2>2, <2>3, <2>4 DEF Receiving, Settings!Transports
<1>6. CASE Settings!KeepTcp(a)
  <2>1. /\ call[a].pc = "tcp" /\ bound' = bound /\ open' = open
        /\ held' = [held EXCEPT !["tcp"] = call[a].port]
        /\ call' = [call EXCEPT ![a] = [call[a] EXCEPT !.pc = "done"]]
    BY <1>6 DEF Settings!KeepTcp
  <2>2. call[a].port = c.port /\ "tcp" \in c.wants /\ held["tcp"] = 0
    BY <2>1 DEF Receiving
  <2>3. Kept' = Kept \cup {<<"tcp", c.port>>}
    BY <1>1, <1>2, <2>1, <2>2 DEF Kept, Settings!Transports
  <2> QED
    BY <1>1, <1>2, <2>1, <2>2, <2>3 DEF Receiving, Settings!Transports
<1> QED
  BY <1>3, <1>4, <1>5, <1>6 DEF Settings!StartStep

\* Steps that only touch other programs' ports or the queue of updates.
LEMMA SettingsSame ==
  ASSUME SettingsInv, waiting' \in Seq(AllConfigs),
         UNCHANGED <<memory, persisted, rule, bound, held, open, call, boot, update, raced, degraded, unsynced>>
  PROVE  SettingsInv'
<1>1. SettingsTypes'
  BY DEF SettingsInv, SettingsTypes
<1>2. Booting => Booting'
  BY DEF Booting, OnlyIn, Receiving, Kept
<1>3. Updating => Updating'
  BY DEF Updating, OnlyIn, Receiving, Serving, Kept, Settings!Refused
<1> QED
  BY <1>1, <1>2, <1>3 DEF SettingsInv

LEMMA SettingsStartStep ==
  ASSUME SettingsInv, NEW a \in Settings!Actors, Settings!StartStep(a)
  PROVE  SettingsInv'
<1>1. SettingsTypes
  BY DEF SettingsInv
<1>2. /\ SettingsTypes'
      /\ call'[a].cfg = call[a].cfg
      /\ \A b \in Settings!Actors \ {a} : call'[b] = call[b]
      /\ call[a].pc \in {"stopped", "udp", "udpDone", "tcp"}
      /\ UNCHANGED <<memory, persisted, rule, taken, boot, update, waiting, raced, degraded, unsynced>>
  BY <1>1, SettingsStepTypes
<1>3. ASSUME NEW b \in Settings!Actors, OnlyIn({b}) PROVE a = b /\ OnlyIn({b})'
  BY <1>2, <1>3 DEF OnlyIn
<1>4. ~OnlyIn({})
  BY <1>2 DEF OnlyIn
<1>5. Receiving(a) => Receiving(a)'
  BY <1>1, SettingsReceives
<1>6. "boot" \in Settings!Actors /\ "update" \in Settings!Actors
  BY DEF Settings!Actors
<1>7. CASE ~raced /\ boot = "done"
  <2>1. Updating /\ update.pc \in {"start", "refused", "undo"}
    BY <1>1, <1>4, <1>7 DEF SettingsInv, Updating, SettingsTypes
  <2>2. a = "update" /\ OnlyIn({"update"})' /\ Receiving("update")'
    BY <1>3, <1>5, <1>6, <2>1 DEF Updating
  <2>3. Updating'
    BY <1>2, <2>1, <2>2 DEF Updating
  <2> QED
    BY <1>2, <1>7, <2>3 DEF SettingsInv
<1>8. CASE ~raced /\ boot # "done"
  <2>1. Booting /\ boot = "starting"
    BY <1>1, <1>4, <1>8 DEF SettingsInv, Booting, SettingsTypes
  <2>2. a = "boot" /\ OnlyIn({"boot"})' /\ Receiving("boot")'
    BY <1>3, <1>5, <1>6, <2>1 DEF Booting
  <2>3. Booting'
    BY <1>2, <2>1, <2>2 DEF Booting
  <2> QED
    BY <1>2, <1>8, <2>3 DEF SettingsInv
<1> QED
  BY <1>2, <1>7, <1>8 DEF SettingsInv

LEMMA SettingsBootRead ==
  ASSUME SettingsInv, Settings!BootRead
  PROVE  SettingsInv'
<1>1. /\ boot = "read" /\ boot' = "identities" /\ memory' = persisted
      /\ UNCHANGED <<persisted, rule, bound, held, open, call, update, waiting, raced, degraded, unsynced>>
  BY DEF Settings!BootRead, Settings!sockets, Settings!ssHistory
<1>2. SettingsTypes'
  BY <1>1 DEF SettingsInv, SettingsTypes
<1>3. ~raced => Booting'
  BY <1>1 DEF SettingsInv, Booting, OnlyIn
<1> QED
  BY <1>1, <1>2, <1>3 DEF SettingsInv

LEMMA SettingsBootStart ==
  ASSUME SettingsInv, Settings!BootStart
  PROVE  SettingsInv'
<1>1. /\ boot = "identities" /\ boot' = "starting" /\ Settings!CallStart("boot", memory)
      /\ UNCHANGED <<memory, persisted, rule, update, waiting, raced, degraded, unsynced>>
  BY DEF Settings!BootStart, Settings!places, Settings!ssHistory
<1>2. SettingsTypes /\ memory \in AllConfigs /\ "boot" \in Settings!Actors
  BY DEF SettingsInv, SettingsTypes, Settings!Actors
<1>3. SettingsTypes'
  BY <1>1, <1>2, SettingsCallStartTypes, ZenonT(40) DEF SettingsTypes
<1>4. ASSUME ~raced PROVE Booting'
  <2>1. Booting
    BY <1>1, <1>4 DEF SettingsInv
  <2>2. open \subseteq Kept /\ OnlyIn({"boot"})
    BY <1>1, <2>1 DEF Booting, OnlyIn
  <2>3. Receiving("boot")' /\ call'["boot"].cfg = memory /\ OnlyIn({"boot"})'
    BY <1>1, <1>2, <2>2, SettingsCallStart
  <2> QED
    BY <1>1, <2>1, <2>3 DEF Booting
<1> QED
  BY <1>1, <1>3, <1>4 DEF SettingsInv

\* start() is over: what is kept is what the receiver listens on.
LEMMA SettingsReturned ==
  ASSUME NEW a \in Settings!Actors, Receiving(a), Settings!Returned(a), OnlyIn({a})
  PROVE  Serving(call[a].cfg) /\ open \subseteq Kept
BY DEF Receiving, Settings!Returned, Serving

LEMMA SettingsBack ==
  ASSUME SettingsTypes, NEW a \in Settings!Actors, Settings!Back(a)
  PROVE  /\ call' \in [Settings!Actors -> Calls]
         /\ OnlyIn({a}) => OnlyIn({})'
<1>1. Settings!NoCall \in Calls /\ Settings!NoCall.pc = "none"
  BY SettingsNothing
<1>2. /\ call' = [call EXCEPT ![a] = Settings!NoCall]
      /\ call \in [Settings!Actors -> Calls]
  BY DEF Settings!Back, SettingsTypes
<1>3. call' \in [Settings!Actors -> Calls]
  BY <1>1, <1>2
<1>4. ASSUME OnlyIn({a}) PROVE OnlyIn({})'
  BY <1>1, <1>2, <1>4 DEF OnlyIn
<1> QED
  BY <1>3, <1>4

LEMMA SettingsBootEnd ==
  ASSUME SettingsInv, Settings!BootEnd
  PROVE  SettingsInv'
<1>1. /\ boot = "starting" /\ boot' = "done" /\ Settings!Returned("boot") /\ Settings!Back("boot")
      /\ degraded' = Settings!Refused(call["boot"].cfg)
      /\ UNCHANGED <<memory, persisted, rule, bound, held, open, update, waiting, raced, unsynced>>
  BY DEF Settings!BootEnd, Settings!places, Settings!sockets
<1>2. SettingsTypes /\ "boot" \in Settings!Actors
  BY DEF SettingsInv, Settings!Actors
<1>3. call' \in [Settings!Actors -> Calls] /\ (OnlyIn({"boot"}) => OnlyIn({})')
  BY <1>1, <1>2, SettingsBack
<1>4. SettingsTypes'
  BY <1>1, <1>2, <1>3 DEF SettingsTypes
<1>5. ASSUME ~raced PROVE Updating'
  <2>1. Booting
    BY <1>1, <1>5 DEF SettingsInv
  <2>2. /\ OnlyIn({"boot"}) /\ Receiving("boot") /\ call["boot"].cfg = memory
        /\ update.pc = "idle" /\ memory = persisted /\ unsynced
    BY <1>1, <2>1 DEF Booting
  <2>3. Serving(memory)
    BY <1>1, <1>2, <2>2, SettingsReturned
  <2>4. Serving(memory)' /\ (degraded' \/ ~Settings!Refused(memory)')
    BY <1>1, <2>2, <2>3 DEF Serving, Kept, Settings!Refused
  <2> QED
    BY <1>1, <1>3, <2>2, <2>4 DEF Updating
<1> QED
  BY <1>1, <1>4, <1>5 DEF SettingsInv

LEMMA SettingsApply ==
  ASSUME SettingsInv, Settings!Apply
  PROVE  SettingsInv'
<1>1. /\ update.pc = "idle" /\ waiting # <<>> /\ waiting' = Tail(waiting)
      /\ update' = [pc |-> "start", next |-> Head(waiting), prev |-> memory]
      /\ raced' = (raced \/ boot # "done")
      /\ Settings!CallStart("update", Head(waiting))
      /\ UNCHANGED <<memory, persisted, rule, boot, degraded, unsynced>>
  BY DEF Settings!Apply, Settings!places
<1>2. SettingsTypes /\ "update" \in Settings!Actors
  BY DEF SettingsInv, Settings!Actors
<1>3. Head(waiting) \in AllConfigs /\ waiting' \in Seq(AllConfigs) /\ memory \in AllConfigs
  BY <1>1, <1>2 DEF SettingsTypes
<1>4. SettingsTypes'
  <2>1. update' \in [pc : {"idle", "start", "refused", "firewall", "save", "undo", "undoFirewall"},
                     next : AllConfigs, prev : AllConfigs]
    BY <1>1, <1>3
  <2>2. held' \in [Settings!Transports -> Ports] /\ bound' = bound /\ call' \in [Settings!Actors -> Calls]
    BY <1>1, <1>2, <1>3, SettingsCallStartTypes
  <2> QED
    BY <1>1, <1>2, <1>3, <2>1, <2>2 DEF SettingsTypes
<1>5. ASSUME ~raced' PROVE Updating'
  <2>1. Updating
    BY <1>1, <1>5 DEF SettingsInv
  <2>2. open \subseteq Kept /\ OnlyIn({"update"})
    BY <1>1, <2>1 DEF Updating, Serving, OnlyIn
  <2>3. Receiving("update")' /\ call'["update"].cfg = Head(waiting) /\ OnlyIn({"update"})'
    BY <1>1, <1>2, <1>3, <2>2, SettingsCallStart
  <2> QED
    BY <1>1, <2>1, <2>3 DEF Updating
<1> QED
  BY <1>1, <1>2, <1>4, <1>5 DEF SettingsInv, SettingsTypes

LEMMA SettingsUpdateGo ==
  ASSUME SettingsTypes, NEW l \in {"refused", "firewall", "save", "undo", "undoFirewall"},
         Settings!UpdateGo(l)
  PROVE  /\ update' \in
              [pc : {"idle", "start", "refused", "firewall", "save", "undo", "undoFirewall"},
               next : AllConfigs, prev : AllConfigs]
         /\ update'.pc = l /\ update'.next = update.next /\ update'.prev = update.prev
BY DEF SettingsTypes, Settings!UpdateGo

\* An update is past the receiver, or not begun, only when start() was through
\* before it, unless it raced.
LEMMA SettingsUpdating ==
  ASSUME SettingsInv, update.pc # "idle", ~raced
  PROVE  Updating /\ boot = "done"
BY DEF SettingsInv, Booting

LEMMA SettingsStarted ==
  ASSUME SettingsInv, Settings!Started
  PROVE  SettingsInv'
<1>1. /\ update.pc = "start" /\ Settings!Returned("update")
      /\ IF Settings!Refused(update.next)
         THEN Settings!UpdateGo("refused") /\ Settings!CallStart("update", update.prev)
         ELSE Settings!UpdateGo("firewall") /\ Settings!Back("update") /\ UNCHANGED <<bound, held, open>>
      /\ UNCHANGED <<memory, persisted, rule, boot, waiting, raced, degraded, unsynced>>
  BY DEF Settings!Started, Settings!places, Settings!sockets, Settings!ssHistory
<1>2. SettingsTypes /\ "update" \in Settings!Actors /\ update.prev \in AllConfigs
  BY DEF SettingsInv, Settings!Actors, SettingsTypes
<1>3. ~raced => /\ Updating /\ boot = "done"
                /\ OnlyIn({"update"}) /\ Receiving("update") /\ call["update"].cfg = update.next
                /\ Serving(update.next) /\ open \subseteq Kept
                /\ memory = persisted /\ update.prev = memory
  <2> SUFFICES ASSUME ~raced
               PROVE  /\ Updating /\ boot = "done"
                      /\ OnlyIn({"update"}) /\ Receiving("update") /\ call["update"].cfg = update.next
                      /\ Serving(update.next) /\ open \subseteq Kept
                      /\ memory = persisted /\ update.prev = memory
    OBVIOUS
  <2>1. Updating /\ boot = "done"
    BY <1>1, SettingsUpdating
  <2>2. OnlyIn({"update"}) /\ Receiving("update") /\ call["update"].cfg = update.next
        /\ memory = persisted /\ update.prev = memory
    BY <1>1, <2>1 DEF Updating
  <2> QED
    BY <1>1, <1>2, <2>1, <2>2, SettingsReturned
<1>4. CASE Settings!Refused(update.next)
  <2>1. Settings!UpdateGo("refused") /\ Settings!CallStart("update", update.prev)
    BY <1>1, <1>4
  <2>2. SettingsTypes'
    BY <1>1, <1>2, <2>1, SettingsUpdateGo, SettingsCallStartTypes, ZenonT(40) DEF SettingsTypes
  <2>3. ASSUME ~raced PROVE Updating'
    <3>1. Receiving("update")' /\ call'["update"].cfg = update.prev /\ OnlyIn({"update"})'
      BY <1>2, <1>3, <2>1, <2>3, SettingsCallStart
    <3>2. update'.pc = "refused" /\ update'.prev = update.prev
      BY <1>2, <2>1, SettingsUpdateGo
    <3> QED
      BY <1>1, <1>3, <2>3, <3>1, <3>2 DEF Updating
  <2> QED
    BY <1>1, <1>3, <2>2, <2>3 DEF SettingsInv
<1>5. CASE ~Settings!Refused(update.next)
  <2>1. Settings!UpdateGo("firewall") /\ Settings!Back("update") /\ UNCHANGED <<bound, held, open>>
    BY <1>1, <1>5
  <2>2. SettingsTypes'
    BY <1>1, <1>2, <2>1, SettingsUpdateGo, SettingsBack DEF SettingsTypes
  <2>3. ASSUME ~raced PROVE Updating'
    <3>1. OnlyIn({})'
      BY <1>2, <1>3, <2>1, <2>3, SettingsBack
    <3>2. update'.pc = "firewall" /\ update'.next = update.next /\ update'.prev = update.prev
      BY <1>2, <2>1, SettingsUpdateGo
    <3>3. Serving(update.next)' /\ ~Settings!Refused(update.next)'
      BY <1>3, <1>5, <2>1, <2>3, <3>2 DEF Serving, Kept, Settings!Refused
    <3> QED
      BY <1>1, <1>3, <2>3, <3>1, <3>2, <3>3 DEF Updating
  <2> QED
    BY <1>1, <1>3, <2>2, <2>3 DEF SettingsInv
<1> QED
  BY <1>4, <1>5

\* The previous configuration is started again.
LEMMA SettingsUndo ==
  ASSUME SettingsInv, update.pc \in {"firewall", "save"}, Settings!UpdateGo("undo"),
         Settings!CallStart("update", update.prev),
         UNCHANGED <<memory, persisted, boot, waiting, raced, degraded, unsynced>>
  PROVE  SettingsInv'
<1>1. SettingsTypes /\ "update" \in Settings!Actors /\ update.prev \in AllConfigs
  BY DEF SettingsInv, Settings!Actors, SettingsTypes
<1>2. SettingsTypes'
  BY <1>1, SettingsUpdateGo, SettingsCallStartTypes, ZenonT(40) DEF SettingsTypes
<1>3. ASSUME ~raced PROVE Updating' /\ boot = "done"
  <2>1. Updating /\ boot = "done"
    BY <1>3, SettingsUpdating
  <2>2. open \subseteq Kept /\ OnlyIn({"update"}) /\ memory = persisted /\ update.prev = memory
    BY <2>1 DEF Updating, Serving, OnlyIn
  <2>3. Receiving("update")' /\ call'["update"].cfg = update.prev /\ OnlyIn({"update"})'
    BY <1>1, <2>2, SettingsCallStart
  <2>4. update'.pc = "undo" /\ update'.prev = update.prev
    BY <1>1, SettingsUpdateGo
  <2> QED
    BY <2>1, <2>2, <2>3, <2>4 DEF Updating
<1> QED
  BY <1>2, <1>3 DEF SettingsInv

LEMMA SettingsFirewallOk ==
  ASSUME SettingsInv, Settings!FirewallOk
  PROVE  SettingsInv'
<1>1. /\ update.pc = "firewall" /\ rule' = Settings!RuleOf(update.next) /\ Settings!UpdateGo("save")
      /\ UNCHANGED <<memory, persisted, bound, held, open, call, boot, waiting, raced, degraded, unsynced>>
  BY DEF Settings!FirewallOk, Settings!sockets, Settings!ssHistory
<1>2. SettingsTypes
  BY DEF SettingsInv
<1>3. update'.pc = "save" /\ update'.next = update.next /\ update'.prev = update.prev
  BY <1>1, <1>2, SettingsUpdateGo
<1>4. SettingsTypes'
  BY <1>1, <1>2, SettingsUpdateGo DEF SettingsTypes
<1>5. ASSUME ~raced PROVE Updating' /\ boot = "done"
  <2>1. Updating /\ boot = "done"
    BY <1>1, <1>5, SettingsUpdating
  <2>2. Serving(update.next)' /\ ~Settings!Refused(update.next)' /\ OnlyIn({})'
    BY <1>1, <1>3, <2>1 DEF Updating, Serving, Kept, Settings!Refused, OnlyIn
  <2>3. rule' = Settings!RuleOf(update.next)'
    BY <1>1, <1>3 DEF Settings!RuleOf
  <2> QED
    BY <1>1, <1>3, <2>1, <2>2, <2>3 DEF Updating
<1> QED
  BY <1>1, <1>4, <1>5 DEF SettingsInv

LEMMA SettingsSaveOk ==
  ASSUME SettingsInv, Settings!SaveOk
  PROVE  SettingsInv'
<1>1. /\ update.pc = "save" /\ persisted' = update.next /\ memory' = update.next
      /\ update' = Settings!NoUpdate
      /\ degraded' = FALSE /\ unsynced' = FALSE
      /\ UNCHANGED <<rule, bound, held, open, call, boot, waiting, raced>>
  BY DEF Settings!SaveOk, Settings!sockets
<1>2. SettingsTypes
  BY DEF SettingsInv
<1>3. SettingsTypes'
  BY <1>1, <1>2, SettingsNothing DEF SettingsTypes
<1>4. ASSUME ~raced PROVE Updating' /\ boot = "done"
  <2>1. Updating /\ boot = "done"
    BY <1>1, <1>4, SettingsUpdating
  <2>2. Serving(memory)' /\ ~Settings!Refused(memory)' /\ OnlyIn({})'
    BY <1>1, <2>1 DEF Updating, Serving, Kept, Settings!Refused, OnlyIn
  <2>3. rule' = Settings!RuleOf(memory)'
    BY <1>1, <2>1 DEF Updating, Settings!RuleOf
  <2> QED
    BY <1>1, <2>1, <2>2, <2>3, SettingsNothing DEF Updating
<1> QED
  BY <1>1, <1>3, <1>4 DEF SettingsInv

LEMMA SettingsRolledBack ==
  ASSUME SettingsInv, Settings!RolledBack
  PROVE  SettingsInv'
<1>1. /\ update.pc \in {"refused", "undo"} /\ Settings!Returned("update") /\ Settings!Back("update")
      /\ degraded' = Settings!Refused(update.prev)
      /\ IF update.pc = "undo" THEN Settings!UpdateGo("undoFirewall") /\ memory' = update.prev
                               ELSE update' = Settings!NoUpdate /\ memory' = memory
      /\ UNCHANGED <<persisted, rule, bound, held, open, boot, waiting, raced, unsynced>>
  BY DEF Settings!RolledBack, Settings!sockets
<1>2. SettingsTypes /\ "update" \in Settings!Actors /\ update.prev \in AllConfigs
  BY DEF SettingsInv, Settings!Actors, SettingsTypes
<1>3. call' \in [Settings!Actors -> Calls] /\ (OnlyIn({"update"}) => OnlyIn({})')
  BY <1>1, <1>2, SettingsBack
<1>4. SettingsTypes'
  <2>1. CASE update.pc = "undo"
    BY <1>1, <1>2, <1>3, <2>1, SettingsUpdateGo DEF SettingsTypes
  <2>2. CASE update.pc # "undo"
    BY <1>1, <1>2, <1>3, <2>2, SettingsNothing DEF SettingsTypes
  <2> QED
    BY <2>1, <2>2
<1>5. ASSUME ~raced PROVE Updating' /\ boot = "done"
  <2>1. Updating /\ boot = "done"
    BY <1>1, <1>5, SettingsUpdating
  <2>2. /\ OnlyIn({"update"}) /\ Receiving("update") /\ call["update"].cfg = update.prev
        /\ memory = persisted /\ update.prev = memory
    BY <1>1, <2>1 DEF Updating
  <2>3. Serving(update.prev)
    BY <1>1, <1>2, <2>2, SettingsReturned
  <2>4. memory' = memory
    BY <1>1, <2>2
  <2>5. Serving(memory)' /\ (degraded' \/ ~Settings!Refused(memory)')
    BY <1>1, <2>2, <2>3, <2>4 DEF Serving, Kept, Settings!Refused
  <2>6. CASE update.pc = "undo"
    <3>1. update'.pc = "undoFirewall" /\ update'.prev = update.prev
      BY <1>1, <1>2, <2>6, SettingsUpdateGo
    <3>2. Serving(update.prev)' /\ (degraded' \/ ~Settings!Refused(update.prev)')
      BY <2>2, <2>4, <2>5, <3>1
    <3> QED
      BY <1>1, <1>3, <2>1, <2>2, <2>4, <3>1, <3>2 DEF Updating
  <2>7. CASE update.pc = "refused"
    <3>1. update'.pc = "idle"
      BY <1>1, <2>7, SettingsNothing
    <3>2. unsynced' \/ rule' = Settings!RuleOf(memory)'
      BY <1>1, <2>1, <2>4, <2>7 DEF Updating, Settings!RuleOf
    <3> QED
      BY <1>1, <1>3, <2>1, <2>2, <2>4, <2>5, <3>1, <3>2 DEF Updating
  <2> QED
    BY <1>1, <2>1, <2>6, <2>7
<1> QED
  BY <1>1, <1>4, <1>5 DEF SettingsInv

LEMMA SettingsUndoFirewall ==
  ASSUME SettingsInv, Settings!UndoFirewall
  PROVE  SettingsInv'
<1>1. /\ update.pc = "undoFirewall" /\ update' = Settings!NoUpdate
      /\ (rule' = Settings!RuleOf(update.prev)) \/ unsynced' = TRUE
      /\ UNCHANGED <<memory, persisted, bound, held, open, call, boot, waiting, raced, degraded>>
  BY DEF Settings!UndoFirewall, Settings!sockets
<1>2. SettingsTypes
  BY DEF SettingsInv
<1>3. SettingsTypes'
  BY <1>1, <1>2, SettingsNothing DEF SettingsTypes
<1>4. ASSUME ~raced PROVE Updating' /\ boot = "done"
  <2>1. Updating /\ boot = "done"
    BY <1>1, <1>4, SettingsUpdating
  <2>2. memory = update.prev
    BY <1>1, <2>1 DEF Updating
  <2>3. Serving(memory)' /\ (degraded' \/ ~Settings!Refused(memory)') /\ OnlyIn({})'
    BY <1>1, <2>1, <2>2 DEF Updating, Serving, Kept, Settings!Refused, OnlyIn
  <2>4. unsynced' \/ rule' = Settings!RuleOf(memory)'
    BY <1>1, <2>2 DEF Settings!RuleOf
  <2> QED
    BY <1>1, <2>1, <2>3, <2>4, SettingsNothing DEF Updating
<1> QED
  BY <1>1, <1>3, <1>4 DEF SettingsInv

LEMMA SettingsReboot ==
  ASSUME SettingsInv, Settings!Reboot
  PROVE  SettingsInv'
<1>1. /\ memory' = Default /\ bound' = Default /\ held' = Settings!Closed /\ open' = {}
      /\ call' = [a \in Settings!Actors |-> Settings!NoCall]
      /\ boot' = "read" /\ update' = Settings!NoUpdate /\ waiting' = <<>>
      /\ raced' = FALSE /\ degraded' = FALSE /\ unsynced' = TRUE
      /\ UNCHANGED <<persisted, rule, taken>>
  BY DEF Settings!Reboot
<1>2. SettingsTypes'
  <2>1. held' \in [Settings!Transports -> Ports] /\ call' \in [Settings!Actors -> Calls]
    BY <1>1, PortsDiffer, SettingsNothing DEF Settings!Closed
  <2>2. {memory', persisted', bound'} \subseteq AllConfigs /\ waiting' \in Seq(AllConfigs)
    BY <1>1, PortsDiffer DEF SettingsInv, SettingsTypes
  <2>3. update' \in [pc : {"idle", "start", "refused", "firewall", "save", "undo", "undoFirewall"},
                     next : AllConfigs, prev : AllConfigs]
    BY <1>1, SettingsNothing
  <2> QED
    BY <1>1, <2>1, <2>2, <2>3 DEF SettingsTypes
<1>3. Booting'
  BY <1>1, SettingsNothing DEF Booting, OnlyIn
<1> QED
  BY <1>1, <1>2, <1>3 DEF SettingsInv

LEMMA NextSettings == SettingsInv /\ (Settings!Next \/ UNCHANGED settingsVars) => SettingsInv'
<1> SUFFICES ASSUME SettingsInv, Settings!Next \/ UNCHANGED settingsVars PROVE SettingsInv'
  OBVIOUS
<1>0. waiting \in Seq(AllConfigs)
  BY DEF SettingsInv, SettingsTypes
<1>1. CASE Settings!Others
  BY <1>0, <1>1, SettingsSame DEF Settings!Others, Settings!places, Settings!sockets, Settings!ssHistory
<1>2. ASSUME NEW a \in Settings!Actors, Settings!StartStep(a) PROVE SettingsInv'
  BY <1>2, SettingsStartStep
<1>3. CASE Settings!BootRead \/ Settings!BootStart \/ Settings!BootEnd
  BY <1>3, SettingsBootRead, SettingsBootStart, SettingsBootEnd
<1>4. ASSUME NEW c \in Configs, Settings!Ask(c) PROVE SettingsInv'
  <2>1. waiting' \in Seq(AllConfigs)
    BY <1>0, <1>4 DEF Settings!Ask, AllConfigs
  <2> QED
    BY <1>4, <2>1, SettingsSame DEF Settings!Ask, Settings!places, Settings!sockets, Settings!ssHistory
<1>5. CASE Settings!FirewallFails
  BY <1>5, SettingsUndo DEF Settings!FirewallFails, Settings!ssHistory
<1>6. CASE Settings!SaveFails
  BY <1>6, SettingsUndo DEF Settings!SaveFails, Settings!places, Settings!ssHistory
<1>7. CASE Settings!Apply \/ Settings!Started \/ Settings!FirewallOk \/ Settings!SaveOk
           \/ Settings!RolledBack \/ Settings!UndoFirewall \/ Settings!Reboot
  BY <1>7, SettingsApply, SettingsStarted, SettingsFirewallOk, SettingsSaveOk, SettingsRolledBack,
     SettingsUndoFirewall, SettingsReboot
<1>8. CASE UNCHANGED settingsVars
  BY <1>0, <1>8, SettingsSame DEF settingsVars
<1> QED
  BY <1>1, <1>2, <1>3, <1>4, <1>5, <1>6, <1>7, <1>8 DEF Settings!Next

LEMMA SettingsInvAgree == SettingsInv => Settings!SettingsAgree
<1> SUFFICES ASSUME SettingsInv, boot = "done", update.pc = "idle", ~raced
             PROVE  /\ persisted = memory
                    /\ open \subseteq Settings!Listeners(memory)
                    /\ degraded \/ open = Settings!Listeners(memory)
                    /\ unsynced \/ rule = Settings!RuleOf(memory)
  BY DEF Settings!SettingsAgree, Settings!AtRest
<1>1. Updating /\ Serving(memory) /\ memory.wants \subseteq Settings!Transports
  BY PortsDiffer DEF SettingsInv, Updating, SettingsTypes, Settings!Transports
<1>2. open \subseteq Settings!Listeners(memory)
  BY <1>1 DEF Serving, Kept, Settings!Listeners
<1>3. ~Settings!Refused(memory) => Settings!Listeners(memory) \subseteq open
  BY <1>1 DEF Serving, Kept, Settings!Listeners, Settings!Refused
<1> QED
  BY <1>1, <1>2, <1>3 DEF Updating

\* Between two updates memory, database, listeners and firewall agree, but for the
\* cases the property names, whatever refused or failed in between.
THEOREM SettingsAlwaysAgree == Spec => []SettingsAgree
<1> DEFINE I == part = "syslog settings" => SettingsInv
<1>1. Init => I
  BY InitSettings DEF Init
<1>2. I /\ [Next]_allVars => I'
  <2> SUFFICES ASSUME I, [Next]_allVars, part' = "syslog settings" PROVE SettingsInv'
    OBVIOUS
  <2>1. part = "syslog settings"
    BY DEF Next, allVars
  <2>2. Settings!Next \/ UNCHANGED settingsVars
    BY <2>1 DEF Next, allVars, settingsVars
  <2> QED
    BY <2>1, <2>2, NextSettings
<1>3. I => SettingsAgree
  BY SettingsInvAgree DEF SettingsAgree
<1> QED
  BY <1>1, <1>2, <1>3, PTL DEF Spec

-----------------------------------------------------------------------------
(* The upgrade                                                             *)

FileTypes == [there : BOOLEAN, objects : SUBSET Nat, version : Nat]
EnvTypes == [there : BOOLEAN, url : Upgrade!Files, app : Payloads \cup {0}]

UpgradeTypes ==
  /\ payload \in Payloads \cup {0} /\ service \in Payloads \cup {0}
  /\ env \in EnvTypes
  /\ dbs \in [Upgrade!Files -> FileTypes]
  /\ backup \in [db : FileTypes, env : EnvTypes]
  /\ before \in [env : EnvTypes, dbs : [Upgrade!Files -> FileTypes]]
  /\ request \in {"keep", "other"}
  /\ phase \in {"idle", "stop", "backup", "env", "start", "wait", "restoreDb", "restoreEnv", "restart"}
               \cup Upgrade!Setup
  /\ wasActive \in BOOLEAN
  /\ verdict \in {"none", "done", "rolledBack"}
  /\ verdict # "none" => phase = "idle"
  /\ phase # "idle" => payload # 0
  /\ service # 0 => phase \in {"idle", "stop", "wait", "restoreDb", "restoreEnv", "restart"}
  /\ cutShort \subseteq Upgrade!Files /\ unrestored \subseteq {"db", "env", "service"}

\* What a file says of itself is true, and a version is written in files only.
Truthful(db) ==
  db.version > 0 => db.there /\ Upgrade!Whole(db, db.version)

\* A file has the first tables, unless it was left half-made or is being made; and
\* so has the copy that was saved of it.
UpgradeFiles ==
  /\ \A f \in Upgrade!Files :
       /\ Truthful(dbs[f])
       /\ dbs[f].there =>
            1 \in dbs[f].objects \/ f \in cutShort \/ (phase = "schema" /\ f = env.url)
  /\ Truthful(backup.db)
  /\ backup.db.there => 1 \in backup.db.objects \/ "main" \in cutShort

\* How far the file in use has come.
UpgradeWork ==
  /\ phase \in {"schema", "read", "migrate", "seed", "start", "wait"} => Upgrade!Db.there
  /\ phase = "schema" => Upgrade!Db.version = 0
  /\ phase = "migrate" => Upgrade!Db.version <= payload
  /\ phase \in {"seed", "start", "wait"} => Upgrade!Db.version = payload
  /\ phase \in {"start", "wait"} => 1 \in Upgrade!Db.objects
  /\ phase = "wait" => service = payload

\* What mme-control found, and what it keeps of it to put back.
Untouched == env = before.env /\ dbs["main"] = before.dbs["main"]
SavedDb == backup.db = before.dbs["main"]
SavedEnv == backup.env = before.env

UpgradeSaved ==
  /\ phase = "backup" => Untouched /\ ~backup.db.there /\ ~backup.env.there
  /\ phase = "env" => Untouched
  /\ phase \in {"env", "start", "wait"} \cup Upgrade!Setup => SavedDb /\ SavedEnv
  /\ phase = "restoreDb" =>
       \/ SavedDb /\ SavedEnv
       \/ Untouched /\ ~backup.db.there /\ ~backup.env.there
  /\ phase \in {"restoreEnv", "restart"} /\ before.dbs["main"].there /\ "db" \notin unrestored =>
       dbs["main"] = before.dbs["main"]
  /\ phase = "restoreEnv" => SavedEnv \/ (env = before.env /\ ~backup.env.there)
  /\ phase = "restart" /\ before.env.there /\ "env" \notin unrestored => env = before.env
  /\ phase \in {"restoreDb", "restoreEnv", "restart"} /\ "service" \notin unrestored => service = 0

UpgradeVerdict ==
  /\ verdict = "done" =>
       /\ Upgrade!Db.version = payload /\ Upgrade!Db.there
       /\ 1 \in Upgrade!Db.objects /\ service = payload
  /\ verdict = "rolledBack" /\ before.env.there /\ before.dbs["main"].there =>
       /\ "db" \notin unrestored => dbs["main"] = before.dbs["main"]
       /\ "env" \notin unrestored => env = before.env
       /\ unrestored \cap {"env", "service"} = {} => (service # 0) = wasActive

UpgradeInv == UpgradeTypes /\ UpgradeFiles /\ UpgradeWork /\ UpgradeSaved /\ UpgradeVerdict

LEMMA NothingSaved ==
  /\ Upgrade!NoFile \in FileTypes /\ ~Upgrade!NoFile.there /\ Upgrade!NoFile.version = 0
  /\ Upgrade!NoEnv \in EnvTypes /\ ~Upgrade!NoEnv.there
BY DEF Upgrade!NoFile, FileTypes, Upgrade!NoEnv, EnvTypes, Upgrade!Files

LEMMA InitUpgrade == Upgrade!Init => UpgradeInv
<1> SUFFICES ASSUME Upgrade!Init PROVE UpgradeInv
  OBVIOUS
<1>1. UpgradeTypes
  BY NothingSaved DEF Upgrade!Init, UpgradeTypes
<1>2. \A f \in Upgrade!Files : dbs[f] = Upgrade!NoFile
  BY DEF Upgrade!Init
<1>3. UpgradeFiles
  BY NothingSaved, <1>2 DEF Upgrade!Init, UpgradeFiles, Truthful
<1>4. UpgradeWork /\ UpgradeSaved /\ UpgradeVerdict
  BY DEF Upgrade!Init, UpgradeWork, UpgradeSaved, UpgradeVerdict, Upgrade!Setup
<1> QED
  BY <1>1, <1>3, <1>4 DEF UpgradeInv

LEMMA UpgradeInvWord == UpgradeInv => Upgrade!UpgradeKeepsItsWord
<1> SUFFICES ASSUME UpgradeInv PROVE Upgrade!UpgradeKeepsItsWord
  OBVIOUS
<1>1. ASSUME NEW f \in Upgrade!Files, dbs[f].version > 0
      PROVE  Upgrade!Whole(dbs[f], dbs[f].version) /\ (1 \in dbs[f].objects \/ f \in cutShort)
  <2>1. dbs[f].there /\ Upgrade!Whole(dbs[f], dbs[f].version)
    BY <1>1 DEF UpgradeInv, UpgradeFiles, Truthful
  <2>2. ~(phase = "schema" /\ f = env.url)
    BY <1>1 DEF UpgradeInv, UpgradeWork, Upgrade!Db
  <2> QED
    BY <2>1, <2>2 DEF UpgradeInv, UpgradeFiles
<1> QED
  BY <1>1 DEF UpgradeInv, UpgradeVerdict, Upgrade!UpgradeKeepsItsWord

\* Install(), Toggle, StopService, BackupState and InitializeEnv leave the files as
\* they are.
LEMMA UpgradeBegins ==
  ASSUME UpgradeInv,
         \/ \E p \in Payloads, wanted \in {"keep", "other"} : Upgrade!Install(p, wanted)
         \/ Upgrade!Toggle \/ Upgrade!StopService \/ Upgrade!BackupState \/ Upgrade!InitializeEnv
  PROVE  UpgradeInv'
<1> USE UpgradeAssumption, NothingSaved DEF UpgradeInv
<1>1. CASE \E p \in Payloads, wanted \in {"keep", "other"} : Upgrade!Install(p, wanted)
  <2>1. UpgradeTypes'
    BY <1>1 DEF UpgradeTypes, Upgrade!Install, Upgrade!Phase
  <2>2. UpgradeFiles' /\ UpgradeWork' /\ UpgradeSaved' /\ UpgradeVerdict'
    BY <1>1 DEF UpgradeFiles, UpgradeWork, UpgradeSaved, UpgradeVerdict, Upgrade!Install,
                Upgrade!Phase, Upgrade!Setup
  <2> QED
    BY <2>1, <2>2
<1>2. CASE Upgrade!Toggle
  <2>1. UpgradeTypes'
    BY <1>2 DEF UpgradeTypes, Upgrade!Toggle
  <2>2. UpgradeFiles' /\ UpgradeWork' /\ UpgradeSaved' /\ UpgradeVerdict'
    BY <1>2 DEF UpgradeFiles, UpgradeWork, UpgradeSaved, UpgradeVerdict, Upgrade!Toggle, Upgrade!Setup
  <2> QED
    BY <2>1, <2>2
<1>3. CASE Upgrade!StopService
  <2>1. UpgradeTypes'
    BY <1>3 DEF UpgradeTypes, Upgrade!StopService, Upgrade!Phase
  <2>2. UpgradeFiles'
    BY <1>3 DEF UpgradeFiles, Truthful, Upgrade!StopService, Upgrade!Phase
  <2>3. UpgradeWork' /\ UpgradeSaved' /\ UpgradeVerdict'
    BY <1>3 DEF UpgradeTypes, UpgradeWork, UpgradeSaved, UpgradeVerdict, Untouched, Upgrade!StopService,
                Upgrade!Phase, Upgrade!Setup
  <2> QED
    BY <2>1, <2>2, <2>3
<1>4. CASE Upgrade!BackupState
  <2>1. UpgradeTypes'
    BY <1>4 DEF UpgradeTypes, Upgrade!BackupState, Upgrade!Phase, Upgrade!Files
  <2>2. UpgradeFiles'
    BY <1>4 DEF UpgradeFiles, Truthful, Upgrade!BackupState, Upgrade!Phase, Upgrade!Files
  <2>3. UpgradeWork' /\ UpgradeSaved' /\ UpgradeVerdict'
    BY <1>4 DEF UpgradeTypes, UpgradeWork, UpgradeSaved, UpgradeVerdict, Untouched, SavedDb, SavedEnv,
                Upgrade!BackupState, Upgrade!Phase, Upgrade!Setup
  <2> QED
    BY <2>1, <2>2, <2>3
<1>5. CASE Upgrade!InitializeEnv
  <2>1. UpgradeTypes'
    BY <1>5 DEF UpgradeTypes, EnvTypes, Upgrade!InitializeEnv, Upgrade!Phase, Upgrade!Files, Upgrade!Setup
  <2>2. UpgradeFiles'
    BY <1>5 DEF UpgradeFiles, Upgrade!InitializeEnv, Upgrade!Phase
  <2>3. UpgradeWork' /\ UpgradeSaved' /\ UpgradeVerdict'
    BY <1>5 DEF UpgradeTypes, UpgradeWork, UpgradeSaved, UpgradeVerdict, SavedDb, SavedEnv,
                Upgrade!InitializeEnv, Upgrade!Phase, Upgrade!Setup
  <2> QED
    BY <2>1, <2>2, <2>3
<1> QED
  BY <1>1, <1>2, <1>3, <1>4, <1>5

\* Restoring what was saved, and starting what was running.
LEMMA UpgradeRestores ==
  ASSUME UpgradeInv, Upgrade!RestoreDb \/ Upgrade!RestoreEnv \/ Upgrade!Restart
  PROVE  UpgradeInv'
<1> USE UpgradeAssumption DEF UpgradeInv
<1>1. CASE Upgrade!RestoreDb
  <2>1. PICK left \in FileTypes :
          /\ dbs' = [dbs EXCEPT !["main"] = left]
          /\ \/ /\ left = (IF backup.db.there THEN backup.db ELSE dbs["main"])
                /\ cutShort' = cutShort /\ unrestored' = unrestored
             \/ /\ backup.db.there /\ unrestored' = unrestored \cup {"db"}
                /\ left \in {dbs["main"], Upgrade!NoFile, Upgrade!Emptied}
                /\ cutShort' = IF left = Upgrade!Emptied THEN cutShort \cup {"main"} ELSE cutShort
    <3>1. /\ dbs \in [Upgrade!Files -> FileTypes] /\ backup.db \in FileTypes /\ "main" \in Upgrade!Files
          /\ Upgrade!Emptied \in FileTypes
      BY NothingSaved DEF UpgradeTypes, Upgrade!Files, Upgrade!Emptied, Upgrade!NoFile, FileTypes
    <3>2. dbs["main"] \in FileTypes /\ dbs = [dbs EXCEPT !["main"] = dbs["main"]]
      BY <3>1
    <3>3. CASE UNCHANGED <<upsets, cutShort, unrestored>>
               /\ dbs' = IF backup.db.there THEN [dbs EXCEPT !["main"] = backup.db] ELSE dbs
      BY <3>1, <3>2, <3>3
    <3>4. CASE /\ backup.db.there /\ unrestored' = unrestored \cup {"db"}
               /\ \E left \in {dbs["main"], Upgrade!NoFile, Upgrade!Emptied} :
                    /\ dbs' = [dbs EXCEPT !["main"] = left]
                    /\ cutShort' = IF left = Upgrade!Emptied THEN cutShort \cup {"main"} ELSE cutShort
      BY <3>1, <3>2, <3>4, NothingSaved
    <3> QED
      BY <1>1, <3>3, <3>4 DEF Upgrade!RestoreDb
  <2>2. /\ phase = "restoreDb" /\ phase' = "restoreEnv"
        /\ UNCHANGED <<payload, service, env, request, backup, wasActive, installs, before, verdict>>
    BY <1>1 DEF Upgrade!RestoreDb, Upgrade!Phase
  <2>3. /\ \A f \in Upgrade!Files : f # "main" => dbs'[f] = dbs[f]
        /\ dbs'["main"] = left /\ "main" \in Upgrade!Files
        /\ unrestored' \subseteq {"db", "env", "service"} /\ cutShort' \subseteq Upgrade!Files
        /\ cutShort \subseteq cutShort' /\ dbs' \in [Upgrade!Files -> FileTypes]
    BY <2>1 DEF UpgradeTypes, Upgrade!Files
  <2>4. UpgradeTypes'
    BY <2>2, <2>3 DEF UpgradeTypes
  <2>5. Truthful(left) /\ (left.there => 1 \in left.objects \/ "main" \in cutShort')
    <3>1. /\ Truthful(dbs["main"]) /\ Truthful(backup.db)
          /\ dbs["main"].there => 1 \in dbs["main"].objects \/ "main" \in cutShort
          /\ backup.db.there => 1 \in backup.db.objects \/ "main" \in cutShort
      BY <2>2, <2>3 DEF UpgradeFiles
    <3>2. Truthful(Upgrade!NoFile) /\ ~Upgrade!NoFile.there /\ Truthful(Upgrade!Emptied)
      BY NothingSaved DEF Truthful, Upgrade!Emptied, Upgrade!NoFile
    <3> QED
      BY <2>1, <2>3, <3>1, <3>2
  <2>6. UpgradeFiles'
    BY <2>2, <2>3, <2>5 DEF UpgradeFiles
  <2>7. UpgradeWork' /\ UpgradeVerdict'
    BY <2>2 DEF UpgradeTypes, UpgradeWork, UpgradeVerdict, Upgrade!Setup
  <2>8. UpgradeSaved'
    BY <2>1, <2>2, <2>3 DEF UpgradeTypes, UpgradeSaved, Untouched, SavedDb, SavedEnv, Upgrade!Setup
  <2> QED
    BY <2>4, <2>6, <2>7, <2>8
<1>2. CASE Upgrade!RestoreEnv
  <2>1. /\ phase = "restoreEnv" /\ phase' = "restart"
        /\ UNCHANGED <<payload, service, dbs, request, backup, wasActive, installs, before, verdict, cutShort>>
        /\ \/ env' = (IF backup.env.there THEN backup.env ELSE env) /\ unrestored' = unrestored
           \/ unrestored' = unrestored \cup {"env"} /\ env' \in {env, Upgrade!NoEnv}
    BY <1>2 DEF Upgrade!RestoreEnv, Upgrade!Phase
  <2>2. UpgradeTypes'
    BY <2>1, NothingSaved DEF UpgradeTypes
  <2>3. UpgradeFiles'
    BY <2>1 DEF UpgradeFiles
  <2>4. UpgradeWork' /\ UpgradeVerdict'
    BY <2>1 DEF UpgradeTypes, UpgradeWork, UpgradeVerdict, Upgrade!Setup
  <2>5. UpgradeSaved'
    BY <2>1 DEF UpgradeSaved, SavedEnv, Upgrade!Setup
  <2> QED
    BY <2>2, <2>3, <2>4, <2>5
<1>3. CASE Upgrade!Restart
  <2>1. /\ phase = "restart" /\ phase' = "idle" /\ verdict' = "rolledBack"
        /\ UNCHANGED <<payload, env, dbs, request, backup, wasActive, installs, before, cutShort>>
        /\ \/ /\ service' = (IF wasActive /\ service = 0 /\ env.there THEN payload ELSE service)
              /\ unrestored' = unrestored
           \/ unrestored' = unrestored \cup {"service"} /\ service' = service
    BY <1>3 DEF Upgrade!Restart, Upgrade!Phase
  <2>2. UpgradeTypes'
    BY <2>1 DEF UpgradeTypes
  <2>3. UpgradeFiles'
    BY <2>1 DEF UpgradeFiles
  <2>4. UpgradeWork' /\ UpgradeSaved'
    BY <2>1 DEF UpgradeWork, UpgradeSaved, Upgrade!Setup
  <2>5. payload # 0 /\ wasActive \in BOOLEAN
    BY <2>1 DEF UpgradeTypes
  <2>6. UpgradeVerdict'
    <3>1. ASSUME before.env.there, unrestored' \cap {"env", "service"} = {} PROVE (service' # 0) = wasActive
      <4>1. env.there /\ service = 0 /\ unrestored' = unrestored
        BY <2>1, <3>1 DEF UpgradeSaved
      <4>2. service' = IF wasActive THEN payload ELSE 0
        BY <2>1, <3>1, <4>1
      <4> QED
        BY <2>5, <4>2
    <3>2. /\ before.dbs["main"].there /\ "db" \notin unrestored' => dbs["main"] = before.dbs["main"]
          /\ before.env.there /\ "env" \notin unrestored' => env = before.env
      BY <2>1 DEF UpgradeSaved
    <3> QED
      BY <2>1, <3>1, <3>2 DEF UpgradeVerdict
  <2> QED
    BY <2>2, <2>3, <2>4, <2>6
<1> QED
  BY <1>1, <1>2, <1>3

\* A step of setup-native.ts leaves the file in use as db and goes on to phase'.
LEMMA UpgradeChange ==
  ASSUME UpgradeInv, NEW db \in FileTypes,
         phase \in Upgrade!Setup, phase' \in Upgrade!Setup \cup {"start"},
         dbs' = [dbs EXCEPT ![env.url] = db],
         UNCHANGED <<payload, service, env, request, backup, wasActive, before, verdict, cutShort, unrestored>>,
         Truthful(db),
         db.there => 1 \in db.objects \/ env.url \in cutShort \/ phase' = "schema",
         phase' # "create" => db.there,
         phase' = "schema" => db.version = 0,
         phase' = "migrate" => db.version <= payload,
         phase' \in {"seed", "start"} => db.version = payload,
         phase' = "start" => 1 \in db.objects
  PROVE  UpgradeInv'
<1> USE DEF UpgradeInv
<1>1. UpgradeTypes'
  BY DEF UpgradeTypes, Upgrade!Setup
<1>2. Upgrade!Db' = db /\ \A f \in Upgrade!Files : f # env.url => dbs'[f] = dbs[f]
  BY DEF UpgradeTypes, EnvTypes, Upgrade!Db
<1>3. UpgradeFiles'
  BY <1>2 DEF UpgradeFiles, UpgradeTypes, Truthful, Upgrade!Db
<1>4. UpgradeWork'
  BY <1>2 DEF UpgradeWork, Upgrade!Setup
<1>5. UpgradeSaved'
  BY DEF UpgradeSaved, Upgrade!Setup, SavedDb, SavedEnv
<1>6. UpgradeVerdict'
  BY DEF UpgradeVerdict, UpgradeTypes, Upgrade!Setup
<1> QED
  BY <1>1, <1>3, <1>4, <1>5, <1>6

\* The file in use, read and written back, is the file in use.
LEMMA UpgradeDb ==
  UpgradeInv =>
    /\ Upgrade!Db \in FileTypes /\ Truthful(Upgrade!Db)
    /\ dbs = [dbs EXCEPT ![env.url] = Upgrade!Db]
    /\ phase # "schema" /\ Upgrade!Db.there => 1 \in Upgrade!Db.objects \/ env.url \in cutShort
BY DEF UpgradeInv, UpgradeTypes, UpgradeFiles, EnvTypes, Upgrade!Db

LEMMA UpgradeSetUp ==
  ASSUME UpgradeInv,
         Upgrade!Create \/ Upgrade!Schema \/ Upgrade!ReadVersion \/ Upgrade!Migrate \/ Upgrade!Seed
  PROVE  UpgradeInv'
<1>0. phase \in Upgrade!Setup
  BY DEF Upgrade!Create, Upgrade!Schema, Upgrade!ReadVersion, Upgrade!Migrate, Upgrade!Seed, Upgrade!Setup
<1>6. payload \in Nat /\ payload >= 2
  BY <1>0, UpgradeAssumption DEF UpgradeInv, UpgradeTypes, Upgrade!Setup
<1>7. /\ Upgrade!Db \in FileTypes /\ Truthful(Upgrade!Db)
      /\ dbs = [dbs EXCEPT ![env.url] = Upgrade!Db]
      /\ phase # "schema" /\ Upgrade!Db.there => 1 \in Upgrade!Db.objects \/ env.url \in cutShort
  BY UpgradeDb
<1> DEFINE db == Upgrade!Db
           Same == UNCHANGED <<payload, service, env, request, backup, wasActive, before, verdict, cutShort, unrestored>>
<1>8. /\ phase \in {"schema", "read", "migrate", "seed"} => db.there
      /\ phase = "schema" => db.version = 0
      /\ phase = "migrate" => db.version <= payload
      /\ phase = "seed" => db.version = payload
  BY DEF UpgradeInv, UpgradeWork
<1>9. db.objects \subseteq Nat /\ db.version \in Nat /\ db.there \in BOOLEAN
  BY <1>7 DEF FileTypes
<1>1. CASE Upgrade!Create
  <2> DEFINE new == [Upgrade!NoFile EXCEPT !.there = TRUE]
  <2>1. /\ new \in FileTypes /\ new.there /\ new.version = 0
    BY DEF FileTypes, Upgrade!NoFile
  <2>2. Truthful(new)
    BY <2>1 DEF Truthful
  <2>3. Same
    BY <1>1 DEF Upgrade!Create
  <2>4. CASE db.there
    <3>1. phase = "create" /\ phase' = "read" /\ dbs' = dbs
      BY <1>1, <2>4 DEF Upgrade!Create
    <3> QED
      BY <1>0, <1>7, <2>3, <2>4, <3>1, UpgradeChange DEF Upgrade!Setup
  <2>5. CASE ~db.there
    <3>1. phase' = "schema" /\ dbs' = [dbs EXCEPT ![env.url] = new]
      BY <1>1, <2>5 DEF Upgrade!Create, Upgrade!Change
    <3> HIDE DEF new
    <3> QED
      BY <1>0, <2>1, <2>2, <2>3, <3>1, UpgradeChange DEF Upgrade!Setup
  <2> QED
    BY <2>4, <2>5
<1>2. CASE Upgrade!Schema
  <2>1. Same /\ phase = "schema"
    BY <1>2 DEF Upgrade!Schema
  <2>2. CASE 1 .. payload \ db.objects = {}
    <3>1. phase' = "read" /\ dbs' = dbs
      BY <1>2, <2>2 DEF Upgrade!Schema
    <3>2. 1 \in db.objects
      BY <1>6, <2>2
    <3> QED
      BY <1>0, <1>7, <1>8, <2>1, <3>1, <3>2, UpgradeChange DEF Upgrade!Setup
  <2>3. CASE 1 .. payload \ db.objects # {}
    <3>1. PICK k \in 1 .. payload : phase' = phase /\ dbs' = [dbs EXCEPT ![env.url] = [db EXCEPT !.objects = @ \cup {k}]]
      BY <1>2, <2>3 DEF Upgrade!Schema, Upgrade!Change
    <3> DEFINE new == [db EXCEPT !.objects = @ \cup {k}]
    <3>2. new \in FileTypes /\ new.there = db.there /\ new.version = db.version
      BY <1>7, <1>6 DEF FileTypes
    <3>3. Truthful(new)
      BY <1>8, <2>1, <3>2 DEF Truthful
    <3> HIDE DEF new
    <3> QED
      BY <1>0, <1>8, <2>1, <3>1, <3>2, <3>3, UpgradeChange DEF Upgrade!Setup, new
  <2> QED
    BY <2>2, <2>3
<1>3. CASE Upgrade!ReadVersion
  <2>1. Same /\ phase = "read" /\ phase' = "migrate" /\ dbs' = dbs /\ db.version <= payload
    BY <1>3 DEF Upgrade!ReadVersion
  <2> QED
    BY <1>0, <1>7, <1>8, <2>1, UpgradeChange DEF Upgrade!Setup
<1>4. CASE Upgrade!Migrate
  <2>1. Same /\ phase = "migrate"
    BY <1>4 DEF Upgrade!Migrate
  <2> DEFINE k == IF db.version < 2 THEN 2 ELSE db.version + 1
  <2>2. CASE k > payload
    <3>1. phase' = "seed" /\ dbs' = dbs
      BY <1>4, <2>2 DEF Upgrade!Migrate
    <3>2. db.version = payload
      BY <1>6, <1>9, <1>8, <2>1, <2>2
    <3> QED
      BY <1>0, <1>7, <1>8, <2>1, <3>1, <3>2, UpgradeChange DEF Upgrade!Setup
  <2>3. CASE ~(k > payload)
    <3>1. phase' = phase /\ dbs' = [dbs EXCEPT ![env.url] = [db EXCEPT !.objects = @ \cup {k}, !.version = k]]
      BY <1>4, <2>3 DEF Upgrade!Migrate, Upgrade!Change
    <3>2. k \in Nat /\ k <= payload
      BY <1>6, <1>9, <2>3
    <3>3. ASSUME NEW i \in 2 .. k PROVE i \in db.objects \cup {k}
      <4>1. i = k \/ (i \in 2 .. db.version /\ db.version > 0)
        BY <1>9, <3>3
      <4> QED
        BY <1>7, <4>1 DEF Truthful, Upgrade!Whole
    <3> DEFINE new == [db EXCEPT !.objects = @ \cup {k}, !.version = k]
    <3> HIDE DEF k
    <3>4. new \in FileTypes /\ new.there = db.there /\ new.version = k /\ new.objects = db.objects \cup {k}
      BY <1>7, <3>2 DEF FileTypes
    <3> HIDE DEF new
    <3>5. Truthful(new)
      BY <1>8, <2>1, <3>3, <3>4 DEF Truthful, Upgrade!Whole
    <3>6. 1 \in new.objects \/ env.url \in cutShort
      BY <1>7, <1>8, <2>1, <3>4
    <3>7. dbs' = [dbs EXCEPT ![env.url] = new]
      BY <3>1 DEF new
    <3> QED
      BY <1>0, <1>8, <2>1, <3>1, <3>2, <3>4, <3>5, <3>6, <3>7, UpgradeChange DEF Upgrade!Setup
  <2> QED
    BY <2>2, <2>3
<1>5. CASE Upgrade!Seed
  <2>1. Same /\ phase = "seed" /\ phase' = "start" /\ dbs' = dbs /\ 1 \in db.objects
    BY <1>5 DEF Upgrade!Seed
  <2> QED
    BY <1>0, <1>7, <1>8, <2>1, UpgradeChange DEF Upgrade!Setup
<1> QED
  BY <1>1, <1>2, <1>3, <1>4, <1>5

\* The service is started and waited for.
LEMMA UpgradeStarts ==
  ASSUME UpgradeInv, Upgrade!StartService \/ Upgrade!Ready PROVE UpgradeInv'
<1> USE DEF UpgradeInv
<1>1. UpgradeTypes'
  BY DEF UpgradeTypes, Upgrade!StartService, Upgrade!Ready, Upgrade!Phase
<1>2. UpgradeFiles'
  BY DEF UpgradeFiles, Upgrade!StartService, Upgrade!Ready, Upgrade!Phase
<1>3. UpgradeWork' /\ UpgradeSaved' /\ UpgradeVerdict'
  BY DEF UpgradeTypes, UpgradeWork, UpgradeSaved, UpgradeVerdict, SavedDb, SavedEnv, Upgrade!Db,
         Upgrade!StartService, Upgrade!Ready, Upgrade!Phase, Upgrade!Setup
<1> QED
  BY <1>1, <1>2, <1>3

\* A step fails, or the power: a file that was being made is left half-made.
LEMMA UpgradeStops ==
  ASSUME UpgradeInv, Upgrade!StepFails \/ Upgrade!PowerLoss PROVE UpgradeInv'
<1> USE DEF UpgradeInv
<1>1. CASE Upgrade!StepFails
  <2>1. phase \in {"backup", "env", "start", "wait"} \cup Upgrade!Setup
    BY <1>1 DEF Upgrade!StepFails, Upgrade!Refused, Upgrade!Setup
  <2>2. UpgradeTypes'
    BY <1>1, <2>1 DEF UpgradeTypes, EnvTypes, Upgrade!StepFails, Upgrade!Setup
  <2>3. UpgradeFiles'
    BY <1>1 DEF UpgradeFiles, Upgrade!StepFails
  <2>4. UpgradeWork' /\ UpgradeSaved' /\ UpgradeVerdict'
    BY <1>1, <2>1 DEF UpgradeTypes, UpgradeWork, UpgradeSaved, UpgradeVerdict, Untouched, SavedDb,
       SavedEnv, Upgrade!StepFails, Upgrade!Setup
  <2> QED
    BY <2>2, <2>3, <2>4
<1>2. CASE Upgrade!PowerLoss
  <2>1. UpgradeTypes'
    BY <1>2 DEF UpgradeTypes, EnvTypes, Upgrade!PowerLoss, Upgrade!Setup
  <2>2. UpgradeFiles'
    BY <1>2 DEF UpgradeFiles, Upgrade!PowerLoss
  <2>3. UpgradeWork' /\ UpgradeSaved' /\ UpgradeVerdict'
    BY <1>2 DEF UpgradeWork, UpgradeSaved, UpgradeVerdict, Upgrade!PowerLoss, Upgrade!Setup
  <2> QED
    BY <2>1, <2>2, <2>3
<1> QED
  BY <1>1, <1>2

LEMMA NextUpgrade ==
  ASSUME UpgradeInv, Upgrade!Next \/ UNCHANGED upgradeVars PROVE UpgradeInv'
<1>1. CASE UNCHANGED upgradeVars
  BY <1>1 DEF UpgradeInv, UpgradeTypes, UpgradeFiles, UpgradeWork, UpgradeSaved, UpgradeVerdict,
              Untouched, SavedDb, SavedEnv, Upgrade!Db, upgradeVars
<1> QED
  BY <1>1, UpgradeBegins, UpgradeSetUp, UpgradeStarts, UpgradeStops, UpgradeRestores DEF Upgrade!Next

\* Whatever is installed, in whatever order, and wherever it fails or loses its
\* power, the roll-back included: recorded versions are true, "done" means done, and
\* of what was rolled back each part is as it was whose own restoring did not fail.
THEOREM UpgradeAlwaysKeepsItsWord == Spec => []UpgradeKeepsItsWord
<1> DEFINE I == part = "upgrade" => UpgradeInv
<1>1. Init => I
  BY InitUpgrade DEF Init
<1>2. I /\ [Next]_allVars => I'
  <2> SUFFICES ASSUME I, [Next]_allVars, part' = "upgrade" PROVE UpgradeInv'
    OBVIOUS
  <2>1. part = "upgrade"
    BY DEF Next, allVars
  <2>2. Upgrade!Next \/ UNCHANGED upgradeVars
    BY <2>1 DEF Next, allVars, upgradeVars
  <2> QED
    BY <2>1, <2>2, NextUpgrade
<1>3. I => UpgradeKeepsItsWord
  BY UpgradeInvWord DEF UpgradeKeepsItsWord
<1> QED
  BY <1>1, <1>2, <1>3, PTL DEF Spec

-----------------------------------------------------------------------------
(* Reports                                                                 *)

ScheduleTypes == [there : BOOLEAN, on : BOOLEAN, every : Periods \cup {1}, next : Nat]
SendTypes == [pc : {"idle", "deliver", "sent"}, at : Nat]

ReportTypes ==
  /\ schedules \in [Schedules -> ScheduleTypes] /\ file \in [Schedules -> ScheduleTypes]
  /\ \A s \in Schedules : /\ schedules[s].on => schedules[s].there
                          /\ file[s].on => file[s].there
  /\ clock \in Nat
  /\ sending \in [Schedules -> [Reports!Kinds -> SendTypes]]
  /\ first \in [Schedules -> Nat] /\ served \in [Schedules -> Nat] /\ slip \in [Schedules -> Int]
  /\ disturbed \in [Schedules -> BOOLEAN]

\* activeScheduleIds holds what is being sent, and nothing is sent twice at a time.
Exclusive ==
  \A s \in Schedules :
    /\ s \in active <=> \E k \in Reports!Kinds : sending[s][k].pc # "idle"
    /\ \A k, l \in Reports!Kinds : sending[s][k].pc # "idle" /\ sending[s][l].pc # "idle" => k = l

\* The run a schedule waits for, or the one that the message under way will be
\* marked with, is what the account says; and a message is sent when it is due.
Timer(s) == sending[s]["timer"]
Account(s) == first[s] + served[s] * schedules[s].every + slip[s]

Balanced(s) ==
  schedules[s].on /\ ~disturbed[s] =>
    /\ Timer(s).pc # "sent" => schedules[s].next = Account(s)
    /\ Timer(s).pc = "deliver" => schedules[s].next <= Timer(s).at /\ Timer(s).at <= clock
    /\ Timer(s).pc = "sent" => Timer(s).at + schedules[s].every = Account(s)

\* What a restart reads is what is in memory.
Recorded(s) == ~disturbed[s] => file[s] = schedules[s]

ReportInv ==
  ReportTypes /\ Exclusive /\ \A s \in Schedules : Balanced(s) /\ Recorded(s)

LEMMA NoReport ==
  /\ Reports!NoSchedule \in ScheduleTypes /\ ~Reports!NoSchedule.on /\ ~Reports!NoSchedule.there
  /\ Reports!NotSending \in SendTypes /\ Reports!NotSending.pc = "idle"
BY DEF Reports!NoSchedule, ScheduleTypes, Reports!NotSending, SendTypes

LEMMA ScheduleNumbers ==
  \A r \in ScheduleTypes : r.every \in Nat /\ r.next \in Nat
<1>1. Periods \cup {1} \subseteq Nat
  BY ReportsAssumption
<1>2. \A r \in ScheduleTypes : r.every \in Periods \cup {1} /\ r.next \in Nat
  BY DEF ScheduleTypes
<1> QED
  BY <1>1, <1>2

LEMMA InitReports == Reports!Init => ReportInv
<1> SUFFICES ASSUME Reports!Init PROVE ReportInv
  OBVIOUS
<1>1. ReportTypes
  BY NoReport DEF Reports!Init, ReportTypes
<1>2. Exclusive
  BY NoReport DEF Reports!Init, Exclusive
<1>3. \A s \in Schedules : Balanced(s) /\ Recorded(s)
  BY NoReport DEF Reports!Init, Balanced, Recorded
<1> QED
  BY <1>1, <1>2, <1>3 DEF ReportInv

\* A schedule that a step leaves alone keeps its account.
LEMMA ReportSame ==
  ASSUME ReportInv, NEW s \in Schedules,
         clock' \in Nat, clock' >= clock,
         sending'[s] = sending[s], schedules'[s] = schedules[s],
         first'[s] = first[s], served'[s] = served[s], slip'[s] = slip[s],
         disturbed[s] => disturbed'[s],
         ~disturbed'[s] => file'[s] = schedules'[s]
  PROVE  Balanced(s)' /\ Recorded(s)'
BY DEF ReportInv, ReportTypes, Balanced, Recorded, Timer, Account, SendTypes, Reports!Kinds

LEMMA ReportElapse ==
  ASSUME ReportInv, Reports!Elapse PROVE ReportInv'
<1>1. ReportTypes' /\ Exclusive'
  BY DEF ReportInv, ReportTypes, Exclusive, Reports!Elapse, Reports!accounts
<1>2. ASSUME NEW s \in Schedules PROVE Balanced(s)' /\ Recorded(s)'
  BY <1>2, ReportSame DEF ReportInv, ReportTypes, Recorded, Reports!Elapse, Reports!accounts
<1> QED
  BY <1>1, <1>2 DEF ReportInv

LEMMA NextRunTypes ==
  ASSUME NEW start \in Nat, NEW every \in Nat \ {0}, NEW now \in Nat
  PROVE  Reports!NextReportRun(start, every, now) \in Nat
<1>1. CASE start + 1 >= now
  BY <1>1 DEF Reports!NextReportRun
<1>2. CASE start + 1 < now
  <2>1. (now - start + every - 1) \in Nat
    BY <1>2
  <2>2. ((now - start + every - 1) \div every) \in Nat
    BY <2>1
  <2>3. ((now - start + every - 1) \div every) * every \in Nat
    BY <2>2
  <2> QED
    BY <1>2, <2>3 DEF Reports!NextReportRun
<1> QED
  BY <1>1, <1>2

\* A schedule is saved: its account begins anew, unless its message is under way or
\* the file could not be written.
LEMMA ReportSave ==
  ASSUME ReportInv, NEW s \in Schedules, NEW on \in BOOLEAN, NEW start \in 1 .. MaxTime,
         NEW every \in Periods, Reports!Save(s, on, start, every)
  PROVE  ReportInv'
<1> DEFINE n == IF on THEN Reports!NextReportRun(start, every, clock) ELSE 0
           new == [there |-> TRUE, on |-> on, every |-> every, next |-> n]
<1>1. n \in Nat
  <2>1. start \in Nat /\ every \in Nat \ {0} /\ clock \in Nat
    BY ReportsAssumption DEF ReportInv, ReportTypes
  <2>2. Reports!NextReportRun(start, every, clock) \in Nat
    BY <2>1, NextRunTypes
  <2> QED
    BY <2>2
<1> HIDE DEF n
<1>2. /\ schedules' = [schedules EXCEPT ![s] = new]
      /\ first' = [first EXCEPT ![s] = n]
      /\ served' = [served EXCEPT ![s] = 0] /\ slip' = [slip EXCEPT ![s] = 0]
      /\ disturbed' = [disturbed EXCEPT ![s] = Timer(s).pc # "idle" \/ file' # schedules']
      /\ file' = schedules' \/ file' = file
      /\ UNCHANGED <<clock, inFlight, active, sending>>
  BY DEF Reports!Save, Reports!Begins, Reports!Persisted, Timer, n
<1>3. new \in ScheduleTypes /\ new.there /\ new.next = n /\ new.every = every
  BY <1>1 DEF ScheduleTypes
<1> HIDE DEF new
<1>4. /\ schedules' \in [Schedules -> ScheduleTypes]
      /\ schedules'[s] = new
      /\ \A t \in Schedules : t # s => schedules'[t] = schedules[t]
  BY <1>2, <1>3 DEF ReportInv, ReportTypes
<1>5. \A t \in Schedules : schedules'[t].on => schedules'[t].there
  BY <1>3, <1>4 DEF ReportInv, ReportTypes
<1>6. disturbed' \in [Schedules -> BOOLEAN]
  BY <1>2 DEF ReportInv, ReportTypes
<1>7. ReportTypes'
  BY <1>1, <1>2, <1>4, <1>5, <1>6, SMTT(30) DEF ReportInv, ReportTypes
<1>8. Exclusive'
  BY <1>2 DEF ReportInv, Exclusive
<1>9. ~disturbed'[s] => Timer(s).pc = "idle" /\ file' = schedules'
  BY <1>2 DEF ReportInv, ReportTypes
<1>10. first'[s] = n /\ served'[s] = 0 /\ slip'[s] = 0 /\ Timer(s)' = Timer(s)
  BY <1>2 DEF ReportInv, ReportTypes, Timer
<1>11. every \in Nat
  BY ReportsAssumption
<1>12. Account(s)' = n
  BY <1>1, <1>3, <1>4, <1>10, <1>11 DEF Account
<1>13. Balanced(s)' /\ Recorded(s)'
  BY <1>3, <1>4, <1>9, <1>10, <1>12 DEF Balanced, Recorded
<1>14. ASSUME NEW t \in Schedules, t # s PROVE Balanced(t)' /\ Recorded(t)'
  <2>1. ~disturbed'[t] => file'[t] = schedules'[t]
    BY <1>2, <1>4, <1>14 DEF ReportInv, ReportTypes, Recorded
  <2>2. /\ first'[t] = first[t] /\ served'[t] = served[t] /\ slip'[t] = slip[t]
        /\ disturbed'[t] = disturbed[t]
    BY <1>2, <1>14 DEF ReportInv, ReportTypes
  <2> QED
    BY <1>2, <1>4, <1>14, <2>1, <2>2, ReportSame DEF ReportInv, ReportTypes
<1> QED
  BY <1>7, <1>8, <1>13, <1>14 DEF ReportInv

LEMMA ReportDelete ==
  ASSUME ReportInv, NEW s \in Schedules, Reports!Delete(s) PROVE ReportInv'
<1>1. /\ schedules' = [schedules EXCEPT ![s] = Reports!NoSchedule]
      /\ disturbed' = [t \in Schedules |-> disturbed[t] \/ file' # schedules']
      /\ file' = schedules' \/ file' = file
      /\ UNCHANGED <<clock, inFlight, active, sending, first, served, slip>>
  BY DEF Reports!Delete, Reports!Persisted
<1>2. ReportTypes'
  BY <1>1, NoReport DEF ReportInv, ReportTypes
<1>3. Exclusive'
  BY <1>1 DEF ReportInv, Exclusive
<1>4. \A t \in Schedules : ~disturbed'[t] => file' = schedules'
  BY <1>1
<1>5. Balanced(s)' /\ Recorded(s)'
  BY <1>1, <1>4, NoReport DEF ReportInv, ReportTypes, Balanced, Recorded
<1>6. ASSUME NEW t \in Schedules, t # s PROVE Balanced(t)' /\ Recorded(t)'
  BY <1>1, <1>4, <1>6, ReportSame DEF ReportInv, ReportTypes
<1> QED
  BY <1>2, <1>3, <1>5, <1>6 DEF ReportInv

\* The timer begins with the schedules that are due.
LEMMA ReportTick ==
  ASSUME ReportInv, Reports!Tick PROVE ReportInv'
<1> DEFINE D == {s \in Schedules : Reports!Due(s) /\ s \notin active}
           new(s) == [sending[s] EXCEPT !["timer"] = [pc |-> "deliver", at |-> clock]]
<1>1. /\ active' = active \cup D
      /\ sending' = [s \in Schedules |-> IF s \in D THEN new(s) ELSE sending[s]]
      /\ UNCHANGED <<schedules, file, clock, first, served, slip, disturbed>>
  BY DEF Reports!Tick, Reports!accounts
<1>2. ASSUME NEW s \in D
      PROVE  /\ sending'[s] \in [Reports!Kinds -> SendTypes]
             /\ Timer(s)' = [pc |-> "deliver", at |-> clock]
             /\ sending'[s]["manual"].pc = "idle" /\ Timer(s).pc = "idle"
  <2>1. sending'[s] = new(s) /\ sending[s] \in [Reports!Kinds -> SendTypes]
    BY <1>1, <1>2 DEF ReportInv, ReportTypes
  <2>2. \A k \in Reports!Kinds : sending[s][k].pc = "idle"
    BY <1>2 DEF ReportInv, Exclusive
  <2>3. [pc |-> "deliver", at |-> clock] \in SendTypes
    BY DEF ReportInv, ReportTypes, SendTypes
  <2> QED
    BY <2>1, <2>2, <2>3 DEF Timer, Reports!Kinds
<1>3. \A s \in Schedules : s \notin D => sending'[s] = sending[s]
  BY <1>1
<1>4. sending' \in [Schedules -> [Reports!Kinds -> SendTypes]]
  BY <1>1, <1>2, <1>3 DEF ReportInv, ReportTypes
<1>5. ReportTypes'
  BY <1>1, <1>4 DEF ReportInv, ReportTypes
<1>6. Exclusive'
  BY <1>1, <1>2, <1>3 DEF ReportInv, Exclusive, Timer, Reports!Kinds
<1>7. ASSUME NEW s \in D PROVE Balanced(s)' /\ Recorded(s)'
  <2>1. schedules[s].next <= clock /\ clock \in Nat
    BY <1>7 DEF Reports!Due, ReportInv, ReportTypes
  <2>2. Account(s)' = Account(s)
    BY <1>1 DEF Account
  <2> QED
    BY <1>1, <1>2, <1>7, <2>1, <2>2 DEF ReportInv, Balanced, Recorded
<1>8. ASSUME NEW s \in Schedules, s \notin D PROVE Balanced(s)' /\ Recorded(s)'
  BY <1>1, <1>3, <1>8, ReportSame DEF ReportInv, ReportTypes, Recorded
<1> QED
  BY <1>5, <1>6, <1>7, <1>8 DEF ReportInv

LEMMA ReportSendNow ==
  ASSUME ReportInv, NEW s \in Schedules, Reports!SendNow(s) PROVE ReportInv'
<1> DEFINE r == [pc |-> "deliver", at |-> clock]
<1>1. /\ active' = active \cup {s} /\ s \notin active
      /\ sending' = [sending EXCEPT ![s]["manual"] = r]
      /\ UNCHANGED <<schedules, file, clock, first, served, slip, disturbed>>
  BY DEF Reports!SendNow, Reports!Send, Reports!accounts
<1>2. r \in SendTypes
  BY DEF ReportInv, ReportTypes, SendTypes
<1>3. \A k \in Reports!Kinds : sending[s][k].pc = "idle"
  BY <1>1 DEF ReportInv, Exclusive
<1> HIDE DEF r
<1>4. sending' \in [Schedules -> [Reports!Kinds -> SendTypes]]
  BY <1>1, <1>2 DEF ReportInv, ReportTypes
<1>5. Timer(s)' = Timer(s) /\ sending'[s]["manual"] = r
  BY <1>1 DEF ReportInv, ReportTypes, Timer, Reports!Kinds
<1>6. \A t \in Schedules : t # s => sending'[t] = sending[t]
  BY <1>1 DEF ReportInv, ReportTypes
<1>7. ReportTypes'
  BY <1>1, <1>4 DEF ReportInv, ReportTypes
<1>8. r.pc # "idle"
  BY DEF r
<1>9. Exclusive'
  BY <1>1, <1>3, <1>5, <1>6, <1>8 DEF ReportInv, Exclusive, Timer, Reports!Kinds
<1>10. ASSUME NEW t \in Schedules PROVE Balanced(t)' /\ Recorded(t)'
  <2>1. Timer(t)' = Timer(t) /\ Account(t)' = Account(t)
    BY <1>1, <1>5, <1>6 DEF Timer, Account
  <2> QED
    BY <1>1, <2>1 DEF ReportInv, Balanced, Recorded
<1> QED
  BY <1>7, <1>9, <1>10 DEF ReportInv

\* The message goes out, for the period that the schedule was waiting for.
LEMMA ReportDeliver ==
  ASSUME ReportInv, NEW s \in Schedules, NEW k \in Reports!Kinds, Reports!Deliver(s, k)
  PROVE  ReportInv'
<1> DEFINE r == [sending[s][k] EXCEPT !.pc = "sent"]
           late == sending[s][k].at - schedules[s].next
<1>1. /\ sending' = [sending EXCEPT ![s][k] = r]
      /\ sending[s][k].pc = "deliver"
      /\ UNCHANGED <<schedules, file, clock, active, first, disturbed>>
  BY DEF Reports!Deliver, Reports!Send
<1>2. r \in SendTypes /\ r.pc = "sent" /\ r.at = sending[s][k].at
  <2>1. sending[s][k] \in SendTypes
    BY DEF ReportInv, ReportTypes
  <2> QED
    BY <2>1 DEF SendTypes
<1> HIDE DEF r
<1>3. sending' \in [Schedules -> [Reports!Kinds -> SendTypes]]
  BY <1>1, <1>2 DEF ReportInv, ReportTypes
<1>4. /\ sending'[s][k] = r
      /\ \A l \in Reports!Kinds : l # k => sending'[s][l] = sending[s][l]
      /\ \A t \in Schedules : t # s => sending'[t] = sending[t]
  BY <1>1 DEF ReportInv, ReportTypes
<1>5. late \in Int
  BY DEF ReportInv, ReportTypes, SendTypes, ScheduleTypes
<1>6. /\ served' \in [Schedules -> Nat] /\ slip' \in [Schedules -> Int]
      /\ \A t \in Schedules : t # s => served'[t] = served[t] /\ slip'[t] = slip[t]
      /\ k = "timer" =>
           /\ served'[s] = served[s] + 1
           /\ slip'[s] = IF Reports!Due(s) THEN slip[s] + late ELSE slip[s]
      /\ k # "timer" => served' = served /\ slip' = slip
  <2>1. CASE k = "timer"
    <3>1. /\ served' = [served EXCEPT ![s] = @ + 1]
          /\ slip' = IF Reports!Due(s) THEN [slip EXCEPT ![s] = @ + sending[s][k].at - schedules[s].next]
                     ELSE slip
      BY <2>1 DEF Reports!Deliver
    <3>2. slip[s] + sending[s][k].at - schedules[s].next = slip[s] + late /\ slip[s] + late \in Int
      BY <1>5 DEF ReportInv, ReportTypes, SendTypes, ScheduleTypes
    <3> HIDE DEF late
    <3> QED
      BY <2>1, <3>1, <3>2 DEF ReportInv, ReportTypes
  <2>2. CASE k # "timer"
    BY <2>2 DEF Reports!Deliver, ReportInv, ReportTypes
  <2> QED
    BY <2>1, <2>2
<1>7. ReportTypes'
  BY <1>1, <1>3, <1>6 DEF ReportInv, ReportTypes
<1>8. Exclusive'
  <2>1. \A t \in Schedules, l \in Reports!Kinds : sending'[t][l].pc # "idle" <=> sending[t][l].pc # "idle"
    BY <1>1, <1>2, <1>4
  <2> QED
    BY <1>1, <2>1 DEF ReportInv, Exclusive
<1>9. Balanced(s)' /\ Recorded(s)'
  <2>1. CASE k = "timer"
    <3> SUFFICES ASSUME schedules[s].on, ~disturbed[s]
                 PROVE  Timer(s)'.at + schedules[s].every = Account(s)'
      BY <1>1, <1>2, <1>4, <2>1 DEF ReportInv, Balanced, Recorded, Timer
    <3>1. /\ schedules[s].next = Account(s)
          /\ schedules[s].next <= Timer(s).at /\ Timer(s).at <= clock
      BY <1>1, <2>1 DEF ReportInv, Balanced, Timer
    <3>2. /\ schedules[s].next \in Nat /\ schedules[s].every \in Nat /\ Timer(s).at \in Nat
          /\ clock \in Nat /\ first[s] \in Nat /\ served[s] \in Nat /\ slip[s] \in Int
      <4>1. schedules[s] \in ScheduleTypes /\ Timer(s) \in SendTypes
        BY DEF ReportInv, ReportTypes, Timer, Reports!Kinds
      <4>2. clock \in Nat /\ first[s] \in Nat /\ served[s] \in Nat /\ slip[s] \in Int
        BY DEF ReportInv, ReportTypes
      <4> QED
        BY <4>1, <4>2, ScheduleNumbers DEF SendTypes
    <3>3. Reports!Due(s)
      BY <3>1, <3>2 DEF Reports!Due
    <3>4. /\ served'[s] = served[s] + 1
          /\ slip'[s] = slip[s] + (Timer(s).at - schedules[s].next)
      BY <1>6, <2>1, <3>3 DEF Timer
    <3>5. Timer(s)'.at = Timer(s).at
      BY <1>2, <1>4, <2>1 DEF Timer
    <3>6. (served[s] + 1) * schedules[s].every = served[s] * schedules[s].every + schedules[s].every
      BY <3>2
    <3>7. served[s] * schedules[s].every \in Nat
      BY <3>2
    <3>8. /\ Account(s)' = first[s] + (served[s] + 1) * schedules[s].every + slip'[s]
          /\ Account(s) = first[s] + served[s] * schedules[s].every + slip[s]
      BY <1>1, <3>4 DEF Account
    <3> QED
      BY <3>1, <3>2, <3>4, <3>5, <3>6, <3>7, <3>8
  <2>2. CASE k # "timer"
    <3>1. Timer(s)' = Timer(s) /\ Account(s)' = Account(s)
      BY <1>1, <1>4, <1>6, <2>2 DEF Timer, Account, Reports!Kinds
    <3> QED
      BY <1>1, <3>1 DEF ReportInv, Balanced, Recorded
  <2> QED
    BY <2>1, <2>2
<1>10. ASSUME NEW t \in Schedules, t # s PROVE Balanced(t)' /\ Recorded(t)'
  BY <1>1, <1>4, <1>6, <1>10, ReportSame DEF ReportInv, ReportTypes, Recorded
<1> QED
  BY <1>7, <1>8, <1>9, <1>10 DEF ReportInv

\* A delivery that ends takes with it all that is sent of its schedule.
LEMMA ReportSettled ==
  ASSUME ReportInv, NEW s \in Schedules, NEW k \in Reports!Kinds,
         sending[s][k].pc # "idle", Reports!Settled(s, k)
  PROVE  /\ sending' \in [Schedules -> [Reports!Kinds -> SendTypes]]
         /\ Timer(s)'.pc = "idle"
         /\ \A t \in Schedules : t # s => sending'[t] = sending[t]
         /\ k # "timer" => Timer(s).pc = "idle"
         /\ Exclusive'
<1>1. active' = active \ {s} /\ sending' = [sending EXCEPT ![s][k] = Reports!NotSending]
  BY DEF Reports!Settled, Reports!Send
<1>2. sending' \in [Schedules -> [Reports!Kinds -> SendTypes]]
  BY <1>1, NoReport DEF ReportInv, ReportTypes
<1>3. /\ sending'[s][k] = Reports!NotSending
      /\ \A l \in Reports!Kinds : l # k => sending'[s][l] = sending[s][l]
      /\ \A t \in Schedules : t # s => sending'[t] = sending[t]
  BY <1>1 DEF ReportInv, ReportTypes
<1>4. \A l \in Reports!Kinds : l # k => sending[s][l].pc = "idle"
  BY DEF ReportInv, Exclusive
<1>5. \A l \in Reports!Kinds : sending'[s][l].pc = "idle"
  BY <1>3, <1>4, NoReport
<1>6. Exclusive'
  BY <1>1, <1>3, <1>5 DEF ReportInv, Exclusive
<1> QED
  BY <1>2, <1>3, <1>4, <1>5, <1>6 DEF Timer, Reports!Kinds

LEMMA ReportThrows ==
  ASSUME ReportInv, NEW s \in Schedules, NEW k \in Reports!Kinds, Reports!Throws(s, k)
  PROVE  ReportInv'
<1>1. /\ sending[s][k].pc # "idle" /\ Reports!Settled(s, k)
      /\ disturbed' = [disturbed EXCEPT ![s] = @ \/ (k = "timer" /\ sending[s][k].pc = "sent")]
      /\ UNCHANGED <<schedules, file, clock, first, served, slip>>
  BY DEF Reports!Throws
<1>2. /\ sending' \in [Schedules -> [Reports!Kinds -> SendTypes]]
      /\ Timer(s)'.pc = "idle" /\ (k # "timer" => Timer(s).pc = "idle")
      /\ \A t \in Schedules : t # s => sending'[t] = sending[t]
      /\ Exclusive'
  BY <1>1, ReportSettled
<1>3. /\ disturbed' \in [Schedules -> BOOLEAN]
      /\ ~disturbed'[s] => ~disturbed[s] /\ Timer(s).pc # "sent"
      /\ \A t \in Schedules : t # s => disturbed'[t] = disturbed[t]
  BY <1>1, <1>2 DEF ReportInv, ReportTypes, Timer
<1>4. ReportTypes'
  BY <1>1, <1>2, <1>3 DEF ReportInv, ReportTypes
<1>5. Balanced(s)' /\ Recorded(s)'
  <2>1. Account(s)' = Account(s)
    BY <1>1 DEF Account
  <2> QED
    BY <1>1, <1>2, <1>3, <2>1 DEF ReportInv, Balanced, Recorded
<1>6. ASSUME NEW t \in Schedules, t # s PROVE Balanced(t)' /\ Recorded(t)'
  BY <1>1, <1>2, <1>3, <1>6, ReportSame DEF ReportInv, ReportTypes, Recorded
<1> QED
  BY <1>2, <1>4, <1>5, <1>6 DEF ReportInv

\* The timer's delivery is marked with a whole period more than it was due.
LEMMA ReportEnd ==
  ASSUME ReportInv, NEW s \in Schedules, NEW k \in Reports!Kinds, Reports!End(s, k)
  PROVE  ReportInv'
<1>1. /\ sending[s][k].pc = "sent" /\ Reports!Settled(s, k)
      /\ IF k = "timer" THEN Reports!MarkRun(s, sending[s][k].at) ELSE UNCHANGED schedules
      /\ \/ file' = schedules' /\ disturbed' = disturbed
         \/ /\ file' = file
            /\ disturbed' = [t \in Schedules |-> disturbed[t] \/ file # schedules']
      /\ UNCHANGED <<clock, first, served, slip>>
  BY DEF Reports!End, Reports!Persisted
<1>2. /\ sending' \in [Schedules -> [Reports!Kinds -> SendTypes]]
      /\ Timer(s)'.pc = "idle" /\ (k # "timer" => Timer(s).pc = "idle")
      /\ \A t \in Schedules : t # s => sending'[t] = sending[t]
      /\ Exclusive'
  BY <1>1, ReportSettled
<1>3. /\ disturbed' \in [Schedules -> BOOLEAN]
      /\ \A t \in Schedules : ~disturbed'[t] => ~disturbed[t] /\ file' = schedules'
  BY <1>1 DEF ReportInv, ReportTypes
<1>4. schedules[s] \in ScheduleTypes /\ sending[s][k] \in SendTypes /\ schedules[s].every \in Nat
  <2>1. schedules[s] \in ScheduleTypes /\ sending[s][k] \in SendTypes
    BY DEF ReportInv, ReportTypes
  <2> QED
    BY <2>1, ScheduleNumbers
<1>5. /\ schedules' \in [Schedules -> ScheduleTypes]
      /\ \A t \in Schedules : t # s => schedules'[t] = schedules[t]
      /\ schedules'[s].on = schedules[s].on /\ schedules'[s].there = schedules[s].there
      /\ schedules'[s].every = schedules[s].every
      /\ schedules[s].on =>
           schedules'[s].next = IF k = "timer" THEN Timer(s).at + schedules[s].every ELSE schedules[s].next
  <2>1. CASE k = "timer" /\ schedules[s].there
    <3> DEFINE n == IF schedules[s].on THEN sending[s][k].at + schedules[s].every ELSE 0
               new == [schedules[s] EXCEPT !.next = n]
    <3>1. schedules' = [schedules EXCEPT ![s] = new]
      BY <1>1, <2>1 DEF Reports!MarkRun
    <3>2. n \in Nat
      BY <1>4 DEF SendTypes
    <3> HIDE DEF n
    <3>3. new \in ScheduleTypes
      BY <1>4, <3>2 DEF ScheduleTypes
    <3>4. /\ new.there = schedules[s].there /\ new.on = schedules[s].on
          /\ new.every = schedules[s].every /\ new.next = n
      BY <1>4 DEF ScheduleTypes
    <3> HIDE DEF new
    <3>5. schedules[s].on => n = Timer(s).at + schedules[s].every
      BY <2>1 DEF n, Timer
    <3> QED
      BY <2>1, <3>1, <3>3, <3>4, <3>5 DEF ReportInv, ReportTypes
  <2>2. CASE ~(k = "timer" /\ schedules[s].there)
    <3>1. schedules' = schedules
      BY <1>1, <2>2 DEF Reports!MarkRun
    <3> QED
      BY <2>2, <3>1 DEF ReportInv, ReportTypes
  <2> QED
    BY <2>1, <2>2
<1>6. file' \in [Schedules -> ScheduleTypes]
  BY <1>1, <1>5 DEF ReportInv, ReportTypes
<1>7. \A t \in Schedules : schedules'[t].on => schedules'[t].there
  BY <1>5 DEF ReportInv, ReportTypes
<1>8. ReportTypes'
  <2>1. \A t \in Schedules : file'[t].on => file'[t].there
    BY <1>1, <1>7 DEF ReportInv, ReportTypes
  <2> QED
    BY <1>1, <1>2, <1>3, <1>5, <1>6, <1>7, <2>1 DEF ReportInv, ReportTypes
<1>9. Balanced(s)' /\ Recorded(s)'
  <2>1. Account(s)' = Account(s)
    BY <1>1, <1>5 DEF Account
  <2>2. schedules[s].on /\ ~disturbed[s] => schedules'[s].next = Account(s)
    BY <1>1, <1>2, <1>5 DEF ReportInv, Balanced, Timer
  <2> QED
    BY <1>2, <1>3, <1>5, <2>1, <2>2 DEF Balanced, Recorded
<1>10. ASSUME NEW t \in Schedules, t # s PROVE Balanced(t)' /\ Recorded(t)'
  BY <1>1, <1>2, <1>3, <1>5, <1>10, ReportSame DEF ReportInv, ReportTypes
<1> QED
  BY <1>2, <1>8, <1>9, <1>10 DEF ReportInv

\* What a restart reads is what was in memory, but for the messages under way.
LEMMA ReportRestart ==
  ASSUME ReportInv, Reports!Restart PROVE ReportInv'
<1>1. /\ schedules' = file /\ active' = {}
      /\ sending' = [s \in Schedules |-> [k \in Reports!Kinds |-> Reports!NotSending]]
      /\ disturbed' = [s \in Schedules |-> disturbed[s] \/ Timer(s).pc = "sent"]
      /\ UNCHANGED <<file, clock, first, served, slip>>
  BY DEF Reports!Restart, Timer
<1>2. ReportTypes'
  BY <1>1, NoReport DEF ReportInv, ReportTypes
<1>3. Exclusive'
  BY <1>1, NoReport DEF Exclusive
<1>4. ASSUME NEW s \in Schedules PROVE Balanced(s)' /\ Recorded(s)'
  <2>1. Timer(s)'.pc = "idle"
    BY <1>1, NoReport DEF Timer, Reports!Kinds
  <2>2. ~disturbed'[s] => ~disturbed[s] /\ Timer(s).pc # "sent" /\ schedules'[s] = schedules[s]
    BY <1>1 DEF ReportInv, Recorded
  <2>3. schedules'[s] = schedules[s] => Account(s)' = Account(s)
    BY <1>1 DEF Account
  <2>4. Recorded(s)'
    BY <1>1 DEF Recorded
  <2> QED
    BY <2>1, <2>2, <2>3, <2>4 DEF ReportInv, Balanced
<1> QED
  BY <1>2, <1>3, <1>4 DEF ReportInv

LEMMA NextReports ==
  ASSUME ReportInv, Reports!Next \/ UNCHANGED reportsVars PROVE ReportInv'
<1>1. CASE UNCHANGED reportsVars
  BY <1>1 DEF ReportInv, ReportTypes, Exclusive, Balanced, Recorded, Timer, Account, reportsVars
<1> QED
  BY <1>1, ReportElapse, ReportSave, ReportDelete, ReportSendNow, ReportTick, ReportDeliver, ReportEnd,
     ReportThrows, ReportRestart DEF Reports!Next

\* Every period of a schedule is served once, whatever is edited, sent by hand,
\* slow or interrupted meanwhile, but for the cases the property names.
THEOREM EachPeriodServedOnce == Spec => []EachPeriodOnce
<1> DEFINE I == part = "reports" => ReportInv
<1>1. Init => I
  BY InitReports DEF Init
<1>2. I /\ [Next]_allVars => I'
  <2> SUFFICES ASSUME I, [Next]_allVars, part' = "reports" PROVE ReportInv'
    OBVIOUS
  <2>1. part = "reports"
    BY DEF Next, allVars
  <2>2. Reports!Next \/ UNCHANGED reportsVars
    BY <2>1 DEF Next, allVars, reportsVars
  <2> QED
    BY <2>1, <2>2, NextReports
<1>3. ReportInv => Reports!EachPeriodOnce
  BY DEF ReportInv, Exclusive, Balanced, Timer, Account, Reports!EachPeriodOnce, Reports!Kinds
<1>4. I => EachPeriodOnce
  BY <1>3 DEF EachPeriodOnce
<1> QED
  BY <1>1, <1>2, <1>4, PTL DEF Spec

-----------------------------------------------------------------------------
(* The state of a device                                                   *)

Clients == [gen : Nat, ok : BOOLEAN]
Online == {"none", "online", "offline"}
Healths == {"well", "sick"}

\* A refresh under way, step by step: what it has read of the router, that its
\* connection was opened with the settings it read, and that it gives up only
\* after a connection of its own.
Passes ==
  {"idle", "find", "connect", "talk", "traffic", "online", "logged", "remember", "prune",
   "health", "offline"}

Jobs ==
  [pc : Passes, seen : Nat, client : Clients, reused : BOOLEAN, force : BOOLEAN,
   logs : SUBSET Realtime!Entries, polled : BOOLEAN, port : {"none", "up", "down"},
   health : {"none"} \cup Healths, known : BOOLEAN, entry : Realtime!Entries \cup {0},
   excuse : BOOLEAN]

RealtimeTypes ==
  /\ router \in [up : BOOLEAN, port : {"up", "down"}, health : Healths]
  /\ entries \in 0 .. MaxEntries
  /\ device \in [gen : Nat, status : {"unknown", "online", "offline"}]
  /\ edit \in {"none", "update", "delete"} /\ (edit # "none" => device.gen # 0)
  /\ client \in Clients /\ baseline \in BOOLEAN
  /\ cached \in Online
  /\ last \in [online : Online, port : {"none", "up", "down"}, health : Healths]
  /\ told \in [online : Online, port : {"none", "up", "down"}, health : {"none"} \cup Healths]
  /\ rejected \in BOOLEAN
  /\ job \in [Refreshers -> Jobs]

Sound(j) ==
  /\ j.entry # 0 => j.pc = "remember"
  /\ j.logs # {} => j.pc \in {"traffic", "online", "logged", "remember", "offline"} /\ j.polled
  /\ j.pc \in {"traffic", "online", "logged", "remember", "prune", "health"} => j.health # "none"
  /\ j.pc \in {"talk", "traffic", "online", "logged", "remember", "prune"} => j.client.gen = j.seen
  /\ j.pc = "offline" => j.excuse /\ ~j.reused
  /\ j.pc \in {"idle", "find"} => ~j.reused
  /\ j.pc = "idle" => ~j.force

Refreshing ==
  \A c \in Refreshers : Sound(job[c]) /\ (job[c].pc # "idle" => refreshOf = c)

\* What was heard last is what the service holds.
Heard ==
  /\ told.online \in {"none", last.online}
  /\ told.port \in {"none", last.port}
  /\ told.health \in {"none", last.health}

\* A connection is in the map, and found there by a refresh, only while the device
\* was not found offline.
NotOff == cached # "offline" /\ last.online # "offline"

Shown ==
  /\ (\A c \in Refreshers : job[c].pc \in {"idle", "find"}) =>
       /\ ~rejected /\ cached # "none" /\ last.online # "none" => cached = last.online
       /\ client.gen # 0 => NotOff
  /\ \A c \in Refreshers :
       /\ job[c].reused \/ job[c].force => NotOff
       /\ job[c].pc \in {"logged", "remember", "prune", "health"} => last.online # "offline"
       /\ job[c].pc = "offline" => client.gen = 0

\* An entry that was announced, or was there before the baseline, is remembered,
\* or the router's log has lost it; a log read before holds none that is not.
Known(e) == announced[e] > 0 \/ e \in old

Remembered ==
  /\ seenLog \subseteq 1 .. entries /\ old \subseteq Realtime!Entries
  /\ announced \in [Realtime!Entries -> {0, 1}]
  /\ \A e \in old : announced[e] = 0
  /\ device.gen = 0 => seenLog = {}
  /\ device.gen # 0 => \A e \in Realtime!Entries : Known(e) => e \in seenLog \/ e + LogSize <= entries
  /\ \A c \in Refreshers :
       /\ job[c].logs \subseteq 1 .. entries
       /\ device.gen # 0 => \A e \in job[c].logs : Known(e) => e \in seenLog
       /\ job[c].entry # 0 =>
            /\ ~Known(job[c].entry)
            /\ job[c].entry \in 1 .. entries
            /\ device.gen # 0 => job[c].entry \in seenLog

RealtimeInv == RealtimeTypes /\ Refreshing /\ Heard /\ Shown /\ Remembered

LEMMA SameCardinality == ASSUME NEW S PROVE Realtime!Cardinality(S) = Cardinality(S)
BY DEF Realtime!Cardinality, Cardinality

LEMMA RealtimeSizes ==
  /\ MaxEntries \in Nat /\ LogSize \in Nat /\ Keep \in Nat /\ LogSize <= Keep
  /\ "scheduler" \in Refreshers /\ "none" \notin Refreshers
  /\ Realtime!None = "none" /\ Realtime!Entries = 1 .. MaxEntries
BY RealtimeAssumption DEF Realtime!None, Realtime!Entries

LEMMA RealtimeNoJob ==
  /\ Realtime!NoJob \in Jobs /\ Sound(Realtime!NoJob)
  /\ Realtime!NoJob.pc = "idle" /\ Realtime!NoJob.logs = {} /\ Realtime!NoJob.entry = 0
  /\ Realtime!NoJob.reused = FALSE /\ Realtime!NoJob.force = FALSE
BY DEF Realtime!NoJob, Realtime!NoClient, Realtime!None, Jobs, Passes, Clients, Healths, Sound

LEMMA InitRealtime == Realtime!Init => RealtimeInv
<1> SUFFICES ASSUME Realtime!Init PROVE RealtimeInv
  OBVIOUS
<1>1. \A c \in Refreshers : job[c] = Realtime!NoJob
  BY DEF Realtime!Init
<1>2. job \in [Refreshers -> Jobs]
  BY RealtimeNoJob DEF Realtime!Init
<1>3. RealtimeTypes
  <2>1. /\ router = [up |-> TRUE, port |-> "up", health |-> "well"] /\ entries = 0
        /\ device = [gen |-> 1, status |-> "unknown"] /\ edit = "none"
        /\ client = [gen |-> 0, ok |-> FALSE] /\ cached = "none" /\ rejected = FALSE /\ baseline = FALSE
        /\ last = [online |-> "none", port |-> "none", health |-> "well"]
        /\ told = [online |-> "none", port |-> "none", health |-> "none"]
    BY DEF Realtime!Init, Realtime!NoClient, Realtime!Unknown, Realtime!Silence, Realtime!None
  <2>2. router \in [up : BOOLEAN, port : {"up", "down"}, health : Healths] /\ entries \in 0 .. MaxEntries
    BY <2>1, RealtimeSizes DEF Healths
  <2>3. /\ device \in [gen : Nat, status : {"unknown", "online", "offline"}]
        /\ client \in Clients /\ cached \in Online /\ rejected \in BOOLEAN /\ baseline \in BOOLEAN
        /\ edit \in {"none", "update", "delete"} /\ (edit # "none" => device.gen # 0)
    BY <2>1 DEF Clients, Online
  <2>4. /\ last \in [online : Online, port : {"none", "up", "down"}, health : Healths]
        /\ told \in [online : Online, port : {"none", "up", "down"}, health : {"none"} \cup Healths]
    BY <2>1 DEF Online, Healths
  <2> QED
    BY <1>2, <2>2, <2>3, <2>4 DEF RealtimeTypes
<1>4. Refreshing
  BY <1>1, RealtimeNoJob DEF Refreshing
<1>5. Heard
  BY RealtimeSizes DEF Realtime!Init, Realtime!Unknown, Realtime!Silence, Heard
<1>6. Shown
  BY <1>1, RealtimeNoJob, RealtimeSizes DEF Realtime!Init, Realtime!Unknown, Realtime!NoClient, Shown, NotOff
<1>7. Remembered
  BY <1>1, RealtimeNoJob DEF Realtime!Init, Remembered, Known
<1> QED
  BY <1>3, <1>4, <1>5, <1>6, <1>7 DEF RealtimeInv

\* A refresh that is under way is the only one.
LEMMA OnlyOne ==
  ASSUME RealtimeInv, NEW c \in Refreshers
  PROVE  /\ job[c] \in Jobs /\ Sound(job[c])
         /\ job[c].pc # "idle" =>
              /\ refreshOf = c
              /\ \A d \in Refreshers : d # c =>
                   job[d].pc = "idle" /\ ~job[d].reused /\ ~job[d].force /\ job[d].logs = {} /\ job[d].entry = 0
         /\ refreshOf = "none" => job[c].pc = "idle"
<1>1. job[c] \in Jobs /\ Sound(job[c]) /\ (job[c].pc # "idle" => refreshOf = c)
  BY DEF RealtimeInv, RealtimeTypes, Refreshing
<1>2. ASSUME job[c].pc # "idle", NEW d \in Refreshers, d # c
      PROVE  job[d].pc = "idle" /\ ~job[d].reused /\ ~job[d].force /\ job[d].logs = {} /\ job[d].entry = 0
  <2>1. job[d].pc = "idle" /\ Sound(job[d])
    BY <1>1, <1>2 DEF RealtimeInv, Refreshing
  <2> QED
    BY <2>1 DEF Sound
<1> QED
  BY <1>1, <1>2, RealtimeSizes

\* What is remembered stays so while no entry, fingerprint or event comes, and a
\* refresh holds no more of the log than before.
LEMMA RememberedKept ==
  ASSUME Remembered, UNCHANGED <<seenLog, old, announced, entries>>, device'.gen = device.gen,
         \A c \in Refreshers :
           job'[c].logs \subseteq job[c].logs /\ (job'[c].entry = 0 \/ job'[c].entry = job[c].entry)
  PROVE  Remembered'
<1>1. \A e : Known(e)' <=> Known(e)
  BY DEF Known
<1> QED
  BY <1>1 DEF Remembered

\* A refresh moves on to j: what it may hold there.
LEMMA JobMoves ==
  ASSUME RealtimeInv, NEW c \in Refreshers, job[c].pc # "idle",
         NEW j \in Jobs, Sound(j), j.pc # "idle", job' = [job EXCEPT ![c] = j],
         j.pc = "find" \/ j.reused \/ j.force => NotOff,
         j.pc \in {"logged", "remember", "prune", "health"} => last.online # "offline",
         j.pc = "offline" => client'.gen = 0,
         j.logs \subseteq 1 .. entries,
         device.gen # 0 => \A e \in j.logs : Known(e) => e \in seenLog,
         j.entry = 0 \/ j.entry = job[c].entry,
         client' \in Clients, baseline' \in BOOLEAN, device' \in [gen : Nat, status : {"unknown", "online", "offline"}],
         device'.gen = device.gen,
         UNCHANGED <<router, entries, seenLog, refreshOf, cached, last, edit, told, announced, old, rejected>>
  PROVE  RealtimeInv'
<1>1. /\ job \in [Refreshers -> Jobs] /\ job' \in [Refreshers -> Jobs] /\ job'[c] = j
      /\ \A d \in Refreshers : d # c => job'[d] = job[d]
  BY DEF RealtimeInv, RealtimeTypes
<1>2. /\ refreshOf = c
      /\ \A d \in Refreshers : d # c =>
           job[d].pc = "idle" /\ ~job[d].reused /\ ~job[d].force /\ job[d].logs = {} /\ job[d].entry = 0
  BY OnlyOne
<1>3. RealtimeTypes'
  BY <1>1 DEF RealtimeInv, RealtimeTypes
<1>4. Refreshing'
  BY <1>1, <1>2 DEF RealtimeInv, Refreshing, Sound
<1>5. Heard'
  BY DEF RealtimeInv, Heard
<1>6. Shown'
  <2>1. NotOff' <=> NotOff
    BY DEF NotOff
  <2>2. (\A d \in Refreshers : job'[d].pc \in {"idle", "find"}) => NotOff
    BY <1>1
  <2>3. NotOff => (cached # "none" /\ last.online # "none" => cached = last.online)
    <3>1. cached \in Online /\ last.online \in Online
      BY DEF RealtimeInv, RealtimeTypes
    <3> QED
      BY <3>1 DEF NotOff, Online
  <2>4. ASSUME NEW d \in Refreshers
        PROVE  /\ job'[d].reused \/ job'[d].force => NotOff
               /\ job'[d].pc \in {"logged", "remember", "prune", "health"} => last.online # "offline"
               /\ job'[d].pc = "offline" => client'.gen = 0
    BY <1>1, <1>2
  <2> QED
    BY <2>1, <2>2, <2>3, <2>4 DEF Shown
<1>7. Remembered'
  <2>1. \A e : Known(e)' <=> Known(e)
    BY DEF Known
  <2>2. ASSUME NEW d \in Refreshers
        PROVE  /\ job'[d].logs \subseteq 1 .. entries
               /\ device.gen # 0 => \A e \in job'[d].logs : Known(e) => e \in seenLog
               /\ job'[d].entry # 0 =>
                    /\ ~Known(job'[d].entry) /\ job'[d].entry \in 1 .. entries
                    /\ device.gen # 0 => job'[d].entry \in seenLog
    BY <1>1, <1>2 DEF RealtimeInv, Remembered
  <2> QED
    BY <2>1, <2>2 DEF RealtimeInv, Remembered
<1> QED
  BY <1>3, <1>4, <1>5, <1>6, <1>7 DEF RealtimeInv

-----------------------------------------------------------------------------
(* The steps of a refresh                                                  *)

\* The world around the refreshes: none of them moves.
LEMMA WorldKeeps ==
  ASSUME RealtimeInv,
         \/ Realtime!RouterDown \/ Realtime!RouterTurns \/ Realtime!RouterLogs \/ Realtime!Tick
         \/ UNCHANGED realtimeVars
  PROVE  RealtimeInv'
<1>1. /\ UNCHANGED <<device, seenLog, baseline, refreshOf, cached, last, edit, told, announced, old, rejected>>
      /\ entries' = entries \/ (entries' = entries + 1 /\ entries < MaxEntries)
      /\ client' = client \/ client' = [client EXCEPT !.ok = FALSE]
      /\ job' = job \/ job' = [c \in Refreshers |-> [job[c] EXCEPT !.client.ok = FALSE]]
      /\ \/ router' = router \/ router' = [router EXCEPT !.up = FALSE] \/ router' = [router EXCEPT !.up = TRUE]
         \/ router' = [router EXCEPT !.port = IF @ = "up" THEN "down" ELSE "up"]
         \/ router' = [router EXCEPT !.health = IF @ = "well" THEN "sick" ELSE "well"]
  BY DEF Realtime!RouterDown, Realtime!RouterTurns, Realtime!RouterLogs, Realtime!Tick, Realtime!world,
         Realtime!history, realtimeVars
<1>2. ASSUME NEW c \in Refreshers
      PROVE  /\ job'[c] \in Jobs /\ Sound(job'[c]) /\ job'[c].pc = job[c].pc /\ job'[c].reused = job[c].reused
             /\ job'[c].force = job[c].force /\ job'[c].logs = job[c].logs /\ job'[c].entry = job[c].entry
  <2>1. job[c] \in Jobs /\ Sound(job[c])
    BY OnlyOne
  <2>2. job[c].client \in Clients
    BY <2>1 DEF Jobs
  <2>3. CASE job' = job
    BY <2>1, <2>3
  <2>4. CASE job' = [d \in Refreshers |-> [job[d] EXCEPT !.client.ok = FALSE]]
    <3>3. PICK k : k = [job[c].client EXCEPT !.ok = FALSE]
      OBVIOUS
    <3>1. k \in Clients /\ k = [job[c].client EXCEPT !.ok = FALSE] /\ k.gen = job[c].client.gen
      BY <2>2, <3>3 DEF Clients
    <3>2. job'[c] = [job[c] EXCEPT !.client = k]
      <4>1. job'[c] = [job[c] EXCEPT !.client.ok = FALSE]
        BY <2>4
      <4>2. [job[c] EXCEPT !.client.ok = FALSE] = [job[c] EXCEPT !.client = [job[c].client EXCEPT !.ok = FALSE]]
        OBVIOUS
      <4> QED
        BY <3>1, <4>1, <4>2
    <3>4. job'[c] \in Jobs
      BY <2>1, <3>1, <3>2 DEF Jobs
    <3>5. /\ job'[c].pc = job[c].pc /\ job'[c].reused = job[c].reused /\ job'[c].force = job[c].force
          /\ job'[c].logs = job[c].logs /\ job'[c].entry = job[c].entry /\ job'[c].polled = job[c].polled
          /\ job'[c].port = job[c].port /\ job'[c].health = job[c].health /\ job'[c].seen = job[c].seen
          /\ job'[c].excuse = job[c].excuse /\ job'[c].client = k
      BY <2>1, <3>2 DEF Jobs
    <3> QED
      BY <2>1, <3>1, <3>4, <3>5 DEF Sound
  <2> QED
    BY <1>1, <2>3, <2>4
<1>3. job' \in [Refreshers -> Jobs]
  BY <1>1, <1>2 DEF RealtimeInv, RealtimeTypes
<1>4. client' \in Clients /\ client'.gen = client.gen
  BY <1>1 DEF RealtimeInv, RealtimeTypes, Clients
<1>5. entries' \in 0 .. MaxEntries /\ entries \in Nat /\ entries' \in Nat /\ entries <= entries'
  BY <1>1, RealtimeSizes DEF RealtimeInv, RealtimeTypes
<1>6. router' \in [up : BOOLEAN, port : {"up", "down"}, health : Healths]
  BY <1>1 DEF RealtimeInv, RealtimeTypes, Healths
<1>7. RealtimeTypes'
  BY <1>1, <1>3, <1>4, <1>5, <1>6 DEF RealtimeInv, RealtimeTypes
<1>8. Refreshing'
  BY <1>1, <1>2 DEF RealtimeInv, Refreshing
<1>9. Heard'
  BY <1>1 DEF RealtimeInv, Heard
<1>10. Shown'
  <2>1. NotOff' <=> NotOff
    BY <1>1 DEF NotOff
  <2> QED
    BY <1>1, <1>2, <1>4, <2>1 DEF RealtimeInv, Shown
<1>11. Remembered'
  <2>1. \A e : Known(e)' <=> Known(e)
    BY <1>1 DEF Known
  <2>2. \A e \in 1 .. entries : e \in 1 .. entries'
    BY <1>5
  <2>3. \A e \in Realtime!Entries : e + LogSize <= entries => e + LogSize <= entries'
    BY <1>5, RealtimeSizes
  <2>4. seenLog \subseteq 1 .. entries'
    BY <2>2 DEF RealtimeInv, Remembered
  <2>5. ASSUME NEW c \in Refreshers
        PROVE  /\ job'[c].logs \subseteq 1 .. entries'
               /\ device.gen # 0 => \A e \in job'[c].logs : Known(e) => e \in seenLog
               /\ job'[c].entry # 0 =>
                    /\ ~Known(job'[c].entry) /\ job'[c].entry \in 1 .. entries'
                    /\ device.gen # 0 => job'[c].entry \in seenLog
    BY <1>2, <2>2 DEF RealtimeInv, Remembered
  <2> QED
    BY <1>1, <2>1, <2>3, <2>4, <2>5 DEF RealtimeInv, Remembered
<1> QED
  BY <1>7, <1>8, <1>9, <1>10, <1>11 DEF RealtimeInv

\* A refresh begins: nobody else's is under way.
LEMMA RefreshKeeps ==
  ASSUME RealtimeInv, NEW c \in Refreshers, Realtime!Refresh(c),
         UNCHANGED <<router, entries, device, seenLog, baseline, client, cached, last, edit, told, announced, old, rejected>>
  PROVE  RealtimeInv'
<1>1. /\ refreshOf = "none" /\ refreshOf' = c
      /\ job' = [job EXCEPT ![c] = [Realtime!NoJob EXCEPT !.pc = "find"]]
  BY RealtimeSizes DEF Realtime!Refresh
<1>2. PICK j : j = [Realtime!NoJob EXCEPT !.pc = "find"]
  OBVIOUS
<1>3. /\ j \in Jobs /\ Sound(j) /\ j.pc = "find" /\ ~j.reused /\ ~j.force /\ j.logs = {} /\ j.entry = 0
  BY <1>2 DEF Realtime!NoJob, Realtime!NoClient, Realtime!None, Jobs, Passes, Clients, Healths, Sound
<1>4. /\ job \in [Refreshers -> Jobs] /\ job' \in [Refreshers -> Jobs] /\ job'[c] = j
      /\ \A d \in Refreshers : d # c => job'[d] = job[d]
  BY <1>1, <1>2, <1>3 DEF RealtimeInv, RealtimeTypes
<1>5. \A d \in Refreshers : job[d].pc = "idle" /\ Sound(job[d]) /\ ~job[d].reused /\ ~job[d].force
  BY <1>1, OnlyOne DEF Sound
<1>6. RealtimeTypes'
  BY <1>4 DEF RealtimeInv, RealtimeTypes
<1>7. Refreshing'
  BY <1>1, <1>3, <1>4, <1>5 DEF Refreshing
<1>8. Heard'
  BY DEF RealtimeInv, Heard
<1>9. Shown'
  <2>1. NotOff' <=> NotOff
    BY DEF NotOff
  <2> QED
    BY <1>3, <1>4, <1>5, <2>1 DEF RealtimeInv, Shown
<1>10. Remembered'
  BY <1>3, <1>4, RememberedKept DEF RealtimeInv
<1> QED
  BY <1>6, <1>7, <1>8, <1>9, <1>10 DEF RealtimeInv


\* Steps that move a refresh on, and besides it the connection in the map at most.
LEMMA WalkKeeps ==
  ASSUME RealtimeInv, NEW c \in Refreshers,
         \/ Realtime!Find(c) \/ Realtime!Connected(c) \/ Realtime!Talk(c) \/ Realtime!SaveOnline(c)
         \/ Realtime!AskBaseline(c) \/ Realtime!MarkInitialized(c)
  PROVE  RealtimeInv'
<1>1. /\ job[c] \in Jobs /\ Sound(job[c]) /\ job \in [Refreshers -> Jobs]
      /\ job[c].client \in Clients /\ client \in Clients /\ device.gen \in Nat /\ baseline \in BOOLEAN
      /\ device \in [gen : Nat, status : {"unknown", "online", "offline"}]
      /\ entries \in 0 .. MaxEntries /\ entries \in Nat
      /\ router \in [up : BOOLEAN, port : {"up", "down"}, health : Healths]
  <2>1. job[c] \in Jobs /\ Sound(job[c])
    BY OnlyOne
  <2> QED
    BY <2>1, RealtimeSizes DEF RealtimeInv, RealtimeTypes, Jobs
<1>2. /\ UNCHANGED <<router, entries, seenLog, refreshOf, cached, last, edit, told, announced, old, rejected>>
      /\ baseline' = baseline \/ baseline' = TRUE
  BY DEF Realtime!Find, Realtime!Connected, Realtime!Talk, Realtime!SaveOnline, Realtime!AskBaseline,
         Realtime!MarkInitialized, Realtime!Go, Realtime!world, Realtime!history
<1>11. baseline' \in BOOLEAN
  BY <1>1, <1>2
<1>3. /\ job[c].logs \subseteq 1 .. entries
      /\ device.gen # 0 => \A e \in job[c].logs : Known(e) => e \in seenLog
      /\ job[c].reused \/ job[c].force => NotOff
      /\ job[c].pc \in {"logged", "remember"} => last.online # "offline"
  BY DEF RealtimeInv, Remembered, Shown
<1>4. CASE Realtime!Find(c) /\ client.gen = device.gen /\ ~job[c].force
  <2>1. PICK j : j = [job[c] EXCEPT !.pc = "talk", !.seen = device.gen, !.client = client, !.reused = TRUE]
    OBVIOUS
  <2>2. /\ job[c].pc = "find" /\ device.gen # 0 /\ client' = client /\ device' = device
        /\ job' = [job EXCEPT ![c] = j]
    BY <1>1, <1>4, <2>1 DEF Realtime!Find, Realtime!world
  <2>3. j \in Jobs /\ Sound(j) /\ j.pc = "talk" /\ j.logs = job[c].logs /\ j.entry = job[c].entry
    BY <1>1, <1>4, <2>1, <2>2 DEF Jobs, Passes, Sound
  <2>4. NotOff
    <3>1. \A d \in Refreshers : job[d].pc \in {"idle", "find"}
      BY <2>2, OnlyOne
    <3> QED
      BY <1>4, <2>2, <3>1 DEF RealtimeInv, Shown
  <2> QED
    BY <1>1, <1>2, <1>3, <1>11, <2>2, <2>3, <2>4, JobMoves
<1>5. CASE Realtime!Find(c) /\ ~(client.gen = device.gen /\ ~job[c].force)
  <2>1. PICK k : k = [gen |-> device.gen, ok |-> FALSE]
    OBVIOUS
  <2>2. PICK j : j = [job[c] EXCEPT !.pc = "connect", !.seen = device.gen, !.reused = FALSE, !.client = k]
    OBVIOUS
  <2>3. /\ job[c].pc = "find" /\ client' = [client EXCEPT !.ok = FALSE] /\ device' = device
        /\ job' = [job EXCEPT ![c] = j]
    BY <1>1, <1>5, <2>1, <2>2 DEF Realtime!Find, Realtime!world
  <2>4. /\ j \in Jobs /\ Sound(j) /\ j.pc = "connect" /\ j.logs = job[c].logs /\ j.entry = job[c].entry
        /\ j.reused = FALSE /\ j.force = job[c].force /\ client' \in Clients
    BY <1>1, <2>1, <2>2, <2>3 DEF Jobs, Passes, Sound, Clients
  <2> QED
    BY <1>1, <1>2, <1>3, <1>11, <2>3, <2>4, JobMoves
<1>6. CASE Realtime!Connected(c)
  <2>1. PICK k : k = [gen |-> job[c].seen, ok |-> TRUE]
    OBVIOUS
  <2>2. PICK j : j = [job[c] EXCEPT !.pc = "talk", !.client = k]
    OBVIOUS
  <2>3. /\ job[c].pc = "connect" /\ client' = k /\ device' = device
        /\ job' = [job EXCEPT ![c] = j]
    BY <1>1, <1>6, <2>1, <2>2 DEF Realtime!Connected, Realtime!world
  <2>4. /\ j \in Jobs /\ Sound(j) /\ j.pc = "talk" /\ j.logs = job[c].logs /\ j.entry = job[c].entry
        /\ j.reused = job[c].reused /\ j.force = job[c].force /\ k \in Clients
    BY <1>1, <2>1, <2>2, <2>3 DEF Jobs, Passes, Sound, Clients
  <2> QED
    BY <1>1, <1>2, <1>3, <1>11, <2>3, <2>4, JobMoves
<1>7. CASE Realtime!Talk(c)
  <2>1. PICK polled \in BOOLEAN, replied \in BOOLEAN, p \in Realtime!PortsPrinted, h \in Realtime!SensorsPrinted :
          /\ c # "scheduler" => polled
          /\ replied => polled
          /\ job' = [job EXCEPT ![c].pc = "traffic", ![c].polled = polled,
                                ![c].logs = IF replied THEN Realtime!LogOf(entries) ELSE {},
                                ![c].port = p, ![c].health = h]
    BY <1>7 DEF Realtime!Talk
  <2>2. PICK l : l = IF replied THEN Realtime!LogOf(entries) ELSE {}
    OBVIOUS
  <2>3. PICK j : j = [job[c] EXCEPT !.pc = "traffic", !.polled = polled, !.logs = l, !.port = p, !.health = h]
    OBVIOUS
  <2>4. /\ job[c].pc = "talk" /\ client' = client /\ device' = device
        /\ job' = [job EXCEPT ![c] = j]
    <3>1. job[c].pc = "talk" /\ client' = client /\ device' = device
      BY <1>7 DEF Realtime!Talk
    <3>2. job' = [job EXCEPT ![c] = [job[c] EXCEPT !.pc = "traffic", !.polled = polled, !.logs = l,
                                                   !.port = p, !.health = h]]
      BY <1>1, <2>1, <2>2
    <3> QED
      BY <2>3, <3>1, <3>2
  <2>5. l \subseteq 1 .. entries /\ l \subseteq Realtime!Entries
    BY <1>1, <2>2, RealtimeSizes DEF Realtime!LogOf
  <2>6. device.gen # 0 => \A e \in l : Known(e) => e \in seenLog
    <3>1. \A e \in l : ~(e + LogSize <= entries) /\ e \in Realtime!Entries
      BY <1>1, <2>2, <2>5, RealtimeSizes DEF Realtime!LogOf
    <3> QED
      BY <3>1 DEF RealtimeInv, Remembered
  <2>7. p \in {"none", "up", "down"} /\ h \in Healths
    BY <1>1, <2>1, RealtimeSizes DEF Healths, Realtime!PortsPrinted, Realtime!SensorsPrinted
  <2>8. /\ j \in Jobs /\ j.pc = "traffic" /\ j.logs = l /\ j.entry = job[c].entry
        /\ j.reused = job[c].reused /\ j.force = job[c].force /\ j.polled = polled
        /\ j.port = p /\ j.health = h /\ j.client = job[c].client /\ j.seen = job[c].seen
    BY <1>1, <2>3, <2>5, <2>7 DEF Jobs, Passes
  <2>9. Sound(j)
    BY <1>1, <2>1, <2>2, <2>4, <2>7, <2>8 DEF Sound, Healths
  <2> QED
    BY <1>1, <1>2, <1>3, <1>11, <2>4, <2>5, <2>6, <2>8, <2>9, JobMoves
<1>8. CASE Realtime!SaveOnline(c)
  <2>1. PICK j : j = [job[c] EXCEPT !.pc = "online"]
    OBVIOUS
  <2>2. /\ job[c].pc = "traffic" /\ client' = client /\ device' = [device EXCEPT !.status = "online"]
        /\ job' = [job EXCEPT ![c] = j]
    BY <1>1, <1>8, <2>1 DEF Realtime!SaveOnline, Realtime!Go
  <2>3. /\ j \in Jobs /\ Sound(j) /\ j.pc = "online" /\ j.logs = job[c].logs /\ j.entry = job[c].entry
        /\ j.reused = job[c].reused /\ j.force = job[c].force
    BY <1>1, <2>1, <2>2 DEF Jobs, Passes, Sound
  <2>4. device' \in [gen : Nat, status : {"unknown", "online", "offline"}] /\ device'.gen = device.gen
    BY <1>1, <2>2
  <2> QED
    BY <1>1, <1>2, <1>3, <1>11, <2>2, <2>3, <2>4, JobMoves
<1>9. CASE Realtime!AskBaseline(c)
  <2>1. PICK j : j = [job[c] EXCEPT !.pc = "remember", !.known = baseline]
    OBVIOUS
  <2>2. /\ job[c].pc = "logged" /\ client' = client /\ device' = device
        /\ job' = [job EXCEPT ![c] = j]
    BY <1>1, <1>9, <2>1 DEF Realtime!AskBaseline, Realtime!world
  <2>3. /\ j \in Jobs /\ Sound(j) /\ j.pc = "remember" /\ j.logs = job[c].logs /\ j.entry = job[c].entry
        /\ j.reused = job[c].reused /\ j.force = job[c].force
    BY <1>1, <2>1, <2>2 DEF Jobs, Passes, Sound, RealtimeInv, RealtimeTypes
  <2> QED
    BY <1>1, <1>2, <1>3, <1>11, <2>2, <2>3, JobMoves
<1>10. CASE Realtime!MarkInitialized(c)
  <2>1. PICK j : j = [job[c] EXCEPT !.pc = "prune", !.known = FALSE]
    OBVIOUS
  <2>2. /\ job[c].pc = "remember" /\ job[c].entry = 0 /\ job[c].logs = {} /\ client' = client /\ device' = device
        /\ job' = [job EXCEPT ![c] = j]
    BY <1>1, <1>10, <2>1 DEF Realtime!MarkInitialized, Realtime!world
  <2>3. /\ j \in Jobs /\ Sound(j) /\ j.pc = "prune" /\ j.logs = job[c].logs /\ j.entry = job[c].entry
        /\ j.reused = job[c].reused /\ j.force = job[c].force
    BY <1>1, <2>1, <2>2 DEF Jobs, Passes, Sound
  <2> QED
    BY <1>1, <1>2, <1>3, <1>11, <2>2, <2>3, JobMoves
<1> QED
  BY <1>4, <1>5, <1>6, <1>7, <1>8, <1>9, <1>10

\* What is published is what is stored next to it.
LEMMA PublishKeeps ==
  ASSUME RealtimeInv, NEW c \in Refreshers, Realtime!PublishOnline(c) PROVE RealtimeInv'
<1>1. /\ job[c] \in Jobs /\ Sound(job[c]) /\ job[c].pc = "online" /\ job[c].port \in {"none", "up", "down"}
      /\ job[c].health # "none" /\ job \in [Refreshers -> Jobs]
      /\ last \in [online : Online, port : {"none", "up", "down"}, health : Healths]
      /\ told \in [online : Online, port : {"none", "up", "down"}, health : {"none"} \cup Healths]
  <2>1. job[c] \in Jobs /\ Sound(job[c]) /\ job[c].pc = "online"
    BY OnlyOne DEF Realtime!PublishOnline
  <2> QED
    BY <2>1 DEF RealtimeInv, RealtimeTypes, Sound, Jobs
<1>2. PICK p : p = job[c].port
  OBVIOUS
<1>3. PICK j : j = [job[c] EXCEPT !.pc = IF job[c].polled THEN "logged" ELSE "health", !.port = "none"]
  OBVIOUS
<1>4. /\ UNCHANGED <<router, entries, device, seenLog, baseline, refreshOf, client, cached, edit, announced, old, rejected>>
      /\ job' = [job EXCEPT ![c] = j]
      /\ last' = [last EXCEPT !.online = "online", !.port = p]
      /\ told' = Realtime!SayPort(p, Realtime!SayOnline("online", told))
  BY <1>1, <1>2, <1>3, RealtimeSizes DEF Realtime!PublishOnline, Realtime!world
<1>5. /\ j \in Jobs /\ j.pc \in {"logged", "health"} /\ (j.pc = "health" => ~job[c].polled)
      /\ j.logs = job[c].logs /\ j.entry = job[c].entry
      /\ j.reused = job[c].reused /\ j.force = job[c].force /\ j.health = job[c].health
      /\ j.client = job[c].client /\ j.seen = job[c].seen /\ j.polled = job[c].polled
  BY <1>1, <1>3 DEF Jobs, Passes
<1>6. Sound(j)
  BY <1>1, <1>5 DEF Sound
<1>7. /\ job' \in [Refreshers -> Jobs] /\ job'[c] = j
      /\ \A d \in Refreshers : d # c =>
           job'[d] = job[d] /\ job[d].pc = "idle" /\ ~job[d].reused /\ ~job[d].force
  BY <1>1, <1>4, <1>5, OnlyOne
<1>8. /\ last' \in [online : Online, port : {"none", "up", "down"}, health : Healths]
      /\ last'.online = "online" /\ last'.port = p /\ last'.health = last.health
  BY <1>1, <1>2, <1>4 DEF Online
<1>9. /\ told' \in [online : Online, port : {"none", "up", "down"}, health : {"none"} \cup Healths]
      /\ Heard'
  <2>1. /\ told.online \in {"none", last.online} /\ told.port \in {"none", last.port}
        /\ told.health \in {"none", last.health}
    BY DEF RealtimeInv, Heard
  <2>2. PICK t : t = Realtime!SayOnline("online", told)
    OBVIOUS
  <2>3. t = IF last.online # "online" /\ last.online # "none" THEN [told EXCEPT !.online = "online"] ELSE told
    BY <1>1, <2>1, <2>2, RealtimeSizes DEF Realtime!SayOnline, Realtime!Hear, Online
  <2>4. /\ t \in [online : Online, port : {"none", "up", "down"}, health : {"none"} \cup Healths]
        /\ t.online \in {"none", "online"} /\ t.port = told.port /\ t.health = told.health
    BY <1>1, <2>1, <2>3 DEF Online
  <2>5. told' = IF p = "none" \/ last.port \notin {p, "none"} THEN [t EXCEPT !.port = p] ELSE t
    BY <1>1, <1>2, <1>4, <2>1, <2>2, <2>4, RealtimeSizes DEF Realtime!SayPort, Realtime!Hear
  <2> QED
    BY <1>1, <1>2, <1>8, <2>1, <2>4, <2>5 DEF Heard
<1>10. RealtimeTypes'
  BY <1>4, <1>7, <1>8, <1>9 DEF RealtimeInv, RealtimeTypes
<1>11. Refreshing'
  BY <1>1, <1>4, <1>6, <1>7 DEF RealtimeInv, Refreshing
<1>12. Shown'
  <2>1. job[c].reused \/ job[c].force => cached # "offline"
    BY DEF RealtimeInv, Shown, NotOff
  <2>2. ~\A d \in Refreshers : job'[d].pc \in {"idle", "find"}
    BY <1>5, <1>7
  <2>3. ASSUME NEW d \in Refreshers
        PROVE  /\ job'[d].reused \/ job'[d].force => NotOff'
               /\ job'[d].pc = "offline" => client'.gen = 0
    BY <1>4, <1>5, <1>7, <1>8, <2>1 DEF NotOff
  <2> QED
    BY <1>8, <2>2, <2>3 DEF Shown
<1>13. Remembered'
  BY <1>4, <1>5, <1>7, RememberedKept DEF RealtimeInv
<1> QED
  BY <1>9, <1>10, <1>11, <1>12, <1>13 DEF RealtimeInv

\* A refresh ends: what the map, the cache and the listeners hold then agrees.
LEMMA SettleKeeps ==
  ASSUME RealtimeInv, NEW c \in Refreshers, job[c].pc # "idle", Realtime!Settle(c),
         ~rejected' /\ cached' # "none" /\ last'.online # "none" => cached' = last'.online,
         client'.gen # 0 => NotOff', Heard',
         cached' \in Online, rejected' \in BOOLEAN,
         last' \in [online : Online, port : {"none", "up", "down"}, health : Healths],
         told' \in [online : Online, port : {"none", "up", "down"}, health : {"none"} \cup Healths],
         device' \in [gen : Nat, status : {"unknown", "online", "offline"}], device'.gen = device.gen,
         UNCHANGED <<router, entries, seenLog, baseline, client, edit, announced, old>>
  PROVE  RealtimeInv'
<1>1. job' = [job EXCEPT ![c] = Realtime!NoJob]
  BY DEF Realtime!Settle
<1>2. /\ job' \in [Refreshers -> Jobs] /\ job'[c] = Realtime!NoJob
      /\ \A d \in Refreshers : d # c => job'[d] = job[d]
  BY <1>1, RealtimeNoJob DEF RealtimeInv, RealtimeTypes
<1>3. \A d \in Refreshers : job'[d].pc = "idle" /\ ~job'[d].reused /\ ~job'[d].force /\ Sound(job'[d])
  BY <1>2, OnlyOne, RealtimeNoJob
<1>4. RealtimeTypes'
  BY <1>2 DEF RealtimeInv, RealtimeTypes
<1>5. Refreshing'
  BY <1>3 DEF Refreshing
<1>6. Shown'
  BY <1>3 DEF Shown
<1>7. Remembered'
  BY <1>2, RealtimeNoJob, RememberedKept DEF RealtimeInv
<1> QED
  BY <1>4, <1>5, <1>6, <1>7 DEF RealtimeInv

LEMMA EndKeeps ==
  ASSUME RealtimeInv, NEW c \in Refreshers,
         Realtime!FindFails(c) \/ Realtime!PublishHealth(c) \/ Realtime!Offline(c)
  PROVE  RealtimeInv'
<1>1. /\ job[c] \in Jobs /\ Sound(job[c])
      /\ client \in Clients /\ cached \in Online /\ rejected \in BOOLEAN
      /\ last \in [online : Online, port : {"none", "up", "down"}, health : Healths]
      /\ told \in [online : Online, port : {"none", "up", "down"}, health : {"none"} \cup Healths]
      /\ device \in [gen : Nat, status : {"unknown", "online", "offline"}]
      /\ told.online \in {"none", last.online} /\ told.port \in {"none", last.port}
      /\ told.health \in {"none", last.health}
  BY OnlyOne DEF RealtimeInv, RealtimeTypes, Heard
<1>2. CASE Realtime!FindFails(c)
  <2>1. /\ job[c].pc = "find" /\ Realtime!Settle(c) /\ device' = device
        /\ UNCHANGED <<router, entries, seenLog, baseline, client, cached, last, edit, told, announced, old, rejected>>
    BY <1>2 DEF Realtime!FindFails, Realtime!history
  <2>2. \A d \in Refreshers : job[d].pc \in {"idle", "find"}
    BY <2>1, OnlyOne
  <2>3. /\ ~rejected /\ cached # "none" /\ last.online # "none" => cached = last.online
        /\ client.gen # 0 => NotOff
    BY <2>2 DEF RealtimeInv, Shown
  <2>4. (NotOff' <=> NotOff) /\ Heard'
    BY <1>1, <2>1 DEF NotOff, Heard
  <2> QED
    BY <1>1, <2>1, <2>3, <2>4, SettleKeeps
<1>3. CASE Realtime!PublishHealth(c)
  <2>1. /\ job[c].pc = "health" /\ Realtime!Settle(c) /\ device' = device
        /\ cached' = "online" /\ rejected' = FALSE
        /\ last' = [last EXCEPT !.health = job[c].health]
        /\ told' = IF last.health # job[c].health THEN Realtime!Hear(told, "health", job[c].health) ELSE told
        /\ UNCHANGED <<router, entries, seenLog, baseline, client, edit, announced, old>>
    BY <1>3 DEF Realtime!PublishHealth, Realtime!world
  <2>2. job[c].health \in Healths /\ last.online # "offline"
    BY <1>1, <2>1 DEF Sound, Jobs, RealtimeInv, Shown
  <2>3. /\ last' \in [online : Online, port : {"none", "up", "down"}, health : Healths]
        /\ last'.online = last.online /\ last'.port = last.port /\ last'.health = job[c].health
    BY <1>1, <2>1, <2>2
  <2>4. told' = IF last.health # job[c].health THEN [told EXCEPT !.health = job[c].health] ELSE told
    BY <1>1, <2>1, <2>2 DEF Realtime!Hear, Healths
  <2>5. /\ told' \in [online : Online, port : {"none", "up", "down"}, health : {"none"} \cup Healths]
        /\ Heard'
    BY <1>1, <2>2, <2>3, <2>4 DEF Heard
  <2>6. last.online \in {"none", "online"}
    BY <1>1, <2>2 DEF Online
  <2>7. NotOff' /\ cached' \in Online
    BY <2>1, <2>3, <2>6 DEF NotOff, Online
  <2> QED
    BY <1>1, <2>1, <2>3, <2>5, <2>6, <2>7, SettleKeeps
<1>4. CASE Realtime!Offline(c)
  <2>1. /\ job[c].pc = "offline" /\ Realtime!Settle(c) /\ client' = client /\ client.gen = 0
        /\ UNCHANGED <<router, entries, seenLog, baseline, edit, announced, old>>
    BY <1>4 DEF Realtime!Offline, RealtimeInv, Shown
  <2>2. CASE /\ device' = [device EXCEPT !.status = "offline"]
             /\ last' = [last EXCEPT !.online = "offline"]
             /\ told' = Realtime!SayOnline("offline", told)
             /\ cached' = "offline" /\ rejected' = FALSE
    <3>1. /\ last' \in [online : Online, port : {"none", "up", "down"}, health : Healths]
          /\ last'.online = "offline" /\ last'.port = last.port /\ last'.health = last.health
      BY <1>1, <2>2 DEF Online
    <3>2. told' = IF last.online # "offline" THEN [told EXCEPT !.online = "offline"] ELSE told
      BY <1>1, <2>2, RealtimeSizes DEF Realtime!SayOnline, Realtime!Hear, Online
    <3>3. /\ told' \in [online : Online, port : {"none", "up", "down"}, health : {"none"} \cup Healths]
          /\ Heard'
      BY <1>1, <3>1, <3>2 DEF Heard, Online
    <3>4. device' \in [gen : Nat, status : {"unknown", "online", "offline"}] /\ device'.gen = device.gen
      BY <1>1, <2>2
    <3>5. cached' \in Online
      BY <2>2 DEF Online
    <3> QED
      BY <2>1, <2>2, <3>1, <3>3, <3>4, <3>5, SettleKeeps
  <2>3. CASE rejected' = TRUE /\ UNCHANGED <<device, last, told, cached>>
    <3>1. Heard'
      BY <1>1, <2>3 DEF Heard
    <3> QED
      BY <1>1, <2>1, <2>3, <3>1, SettleKeeps
  <2> QED
    BY <1>4, <2>2, <2>3 DEF Realtime!Offline
<1> QED
  BY <1>2, <1>3, <1>4

\* An attempt fails: another begins over a connection of its own, or, after that,
\* the device is to be called offline.
LEMMA FailKeeps ==
  ASSUME RealtimeInv, NEW c \in Refreshers, Realtime!Fail(c) PROVE RealtimeInv'
<1>1. /\ job[c] \in Jobs /\ Sound(job[c]) /\ job[c].entry = 0
      /\ job[c].pc \in {"connect", "talk", "traffic", "logged", "remember", "prune"}
  <2>1. job[c] \in Jobs /\ Sound(job[c])
    BY OnlyOne
  <2> QED
    BY <2>1 DEF Realtime!Fail, Realtime!Broken, Realtime!Orphan, Realtime!Fails, Sound
<1>2. /\ UNCHANGED <<router, entries, device, seenLog, baseline, refreshOf, cached, last, edit, told, announced, old,
                     rejected>>
      /\ Realtime!Caught(c) /\ client' = [gen |-> 0, ok |-> FALSE]
  BY DEF Realtime!Fail, Realtime!history, Realtime!Caught, Realtime!NoClient
<1>3. client' \in Clients /\ client'.gen = 0
  BY <1>2 DEF Clients
<1>4. CASE job[c].reused
  <2>1. PICK j : j = [Realtime!NoJob EXCEPT !.pc = "find", !.force = TRUE]
    OBVIOUS
  <2>2. job' = [job EXCEPT ![c] = j]
    BY <1>2, <1>4, <2>1 DEF Realtime!Caught
  <2>3. /\ j \in Jobs /\ Sound(j) /\ j.pc = "find" /\ j.logs = {} /\ j.entry = 0
    BY <2>1 DEF Realtime!NoJob, Realtime!NoClient, Realtime!None, Jobs, Passes, Clients, Healths, Sound
  <2>4. NotOff
    BY <1>4 DEF RealtimeInv, Shown
  <2>5. /\ baseline' \in BOOLEAN /\ device' \in [gen : Nat, status : {"unknown", "online", "offline"}]
        /\ device'.gen = device.gen
    BY <1>2 DEF RealtimeInv, RealtimeTypes
  <2> QED
    BY <1>1, <1>2, <1>3, <2>2, <2>3, <2>4, <2>5, JobMoves
<1>5. CASE ~job[c].reused
  <2>1. PICK j : j = [job[c] EXCEPT !.pc = "offline", !.client = [gen |-> 0, ok |-> FALSE], !.excuse = TRUE]
    OBVIOUS
  <2>2. job' = [job EXCEPT ![c] = j]
    <3>1. Realtime!Excused(c) = TRUE
      BY <1>5 DEF Realtime!Excused
    <3> QED
      BY <1>2, <1>5, <2>1, <3>1 DEF Realtime!Caught, Realtime!NoClient
  <2>3. [gen |-> 0, ok |-> FALSE] \in Clients
    BY DEF Clients
  <2>4. /\ j \in Jobs /\ j.pc = "offline" /\ j.excuse /\ j.reused = job[c].reused /\ j.force = job[c].force
        /\ j.logs = job[c].logs /\ j.entry = 0 /\ j.polled = job[c].polled
    BY <1>1, <2>1, <2>3 DEF Jobs, Passes
  <2>5. Sound(j)
    BY <1>1, <1>5, <2>4 DEF Sound
  <2>6. /\ job[c].logs \subseteq 1 .. entries
        /\ device.gen # 0 => \A e \in job[c].logs : Known(e) => e \in seenLog
        /\ job[c].force => NotOff
    BY DEF RealtimeInv, Remembered, Shown
  <2>7. /\ baseline' \in BOOLEAN /\ device' \in [gen : Nat, status : {"unknown", "online", "offline"}]
        /\ device'.gen = device.gen
    BY <1>2 DEF RealtimeInv, RealtimeTypes
  <2> QED
    BY <1>1, <1>2, <1>3, <1>5, <2>2, <2>4, <2>5, <2>6, <2>7, JobMoves
<1> QED
  BY <1>4, <1>5

-----------------------------------------------------------------------------
(* The entries of the log                                                  *)

LEMMA FirstEntry ==
  ASSUME NEW S \in SUBSET Nat, S # {} PROVE Realtime!Oldest(S) \in S
<1>1. \E e \in S : \A f \in S : e <= f
  BY Least
<1> QED
  BY <1>1 DEF Realtime!Oldest

\* Nothing but the entries of the log, what is remembered of them, and who works on
\* them, changes: what else is known of the device stays.
LEMMA LogStep ==
  ASSUME RealtimeInv, NEW c \in Refreshers, NEW j \in Jobs, Sound(j), job[c].pc # "idle",
         job' = [job EXCEPT ![c] = j],
         j.reused = job[c].reused, j.force = job[c].force, j.pc \in {"remember", "health"},
         job[c].pc \in {"remember", "prune"},
         UNCHANGED <<router, entries, device, baseline, refreshOf, client, cached, last, edit, told, rejected>>
  PROVE  /\ RealtimeTypes' /\ Refreshing' /\ Heard' /\ Shown'
         /\ job'[c] = j /\ \A d \in Refreshers : d # c => job'[d] = job[d] /\ job[d].logs = {} /\ job[d].entry = 0
<1>1. /\ job' \in [Refreshers -> Jobs] /\ job'[c] = j
      /\ \A d \in Refreshers : d # c =>
           /\ job'[d] = job[d] /\ job[d].pc = "idle" /\ ~job[d].reused /\ ~job[d].force
           /\ job[d].logs = {} /\ job[d].entry = 0
  BY OnlyOne DEF RealtimeInv, RealtimeTypes
<1>2. RealtimeTypes'
  BY <1>1 DEF RealtimeInv, RealtimeTypes
<1>3. Refreshing'
  BY <1>1 DEF RealtimeInv, Refreshing
<1>4. Heard'
  BY DEF RealtimeInv, Heard
<1>5. Shown'
  <2>1. (NotOff' <=> NotOff) /\ last.online # "offline" /\ (job[c].reused \/ job[c].force => NotOff)
    BY DEF RealtimeInv, Shown, NotOff
  <2> QED
    BY <1>1, <2>1 DEF Shown
<1> QED
  BY <1>1, <1>2, <1>3, <1>4, <1>5

\* An entry is published that nobody was told of, and is remembered first.
LEMMA RememberKeeps ==
  ASSUME RealtimeInv, NEW c \in Refreshers, Realtime!Remember(c) PROVE RealtimeInv'
<1>1. /\ job[c] \in Jobs /\ Sound(job[c]) /\ job[c].pc = "remember" /\ job[c].entry = 0
      /\ job[c].logs # {} /\ job[c].logs \subseteq Realtime!Entries /\ job[c].logs \subseteq 1 .. entries
      /\ entries \in 0 .. MaxEntries /\ old \subseteq Realtime!Entries
      /\ announced \in [Realtime!Entries -> {0, 1}] /\ seenLog \subseteq 1 .. entries
  <2>1. job[c] \in Jobs /\ Sound(job[c]) /\ job[c].pc = "remember" /\ job[c].entry = 0 /\ job[c].logs # {}
    BY OnlyOne DEF Realtime!Remember
  <2> QED
    BY <2>1 DEF RealtimeInv, RealtimeTypes, Remembered, Jobs
<1>2. PICK e : e = Realtime!Oldest(job[c].logs)
  OBVIOUS
<1>3. e \in job[c].logs /\ e \in Realtime!Entries /\ e \in 1 .. entries /\ e # 0
  <2>1. job[c].logs \in SUBSET Nat
    BY <1>1, RealtimeSizes
  <2>2. e \in job[c].logs
    BY <1>1, <1>2, <2>1, FirstEntry
  <2> QED
    BY <1>1, <2>2, RealtimeSizes
<1>4. PICK new \in BOOLEAN : new <=> e \notin seenLog
  OBVIOUS
<1>5. PICK j : j = [job[c] EXCEPT !.logs = job[c].logs \ {e}, !.entry = IF new /\ job[c].known THEN e ELSE 0]
  OBVIOUS
<1>6. /\ e \in seenLog \/ device.gen # 0
      /\ job' = [job EXCEPT ![c] = j]
      /\ seenLog' = seenLog \cup {e}
      /\ old' = IF new /\ ~job[c].known THEN old \cup {e} ELSE old
      /\ UNCHANGED <<router, entries, device, baseline, refreshOf, client, cached, last, edit, told, rejected, announced>>
  BY <1>1, <1>2, <1>4, <1>5 DEF Realtime!Remember, Realtime!world
<1>7. /\ j \in Jobs /\ j.pc = "remember" /\ j.logs = job[c].logs \ {e}
      /\ j.entry = (IF new /\ job[c].known THEN e ELSE 0)
      /\ j.reused = job[c].reused /\ j.force = job[c].force /\ j.polled = job[c].polled
      /\ j.port = job[c].port /\ j.health = job[c].health /\ j.client = job[c].client /\ j.seen = job[c].seen
  BY <1>1, <1>3, <1>5 DEF Jobs
<1>8. Sound(j)
  BY <1>1, <1>7 DEF Sound
<1>9. /\ RealtimeTypes' /\ Refreshing' /\ Heard' /\ Shown'
      /\ job'[c] = j /\ \A d \in Refreshers : d # c => job'[d] = job[d] /\ job[d].logs = {} /\ job[d].entry = 0
  BY <1>1, <1>6, <1>7, <1>8, LogStep
<1>10. device.gen # 0 => \A f \in job[c].logs : Known(f) => f \in seenLog
  BY DEF RealtimeInv, Remembered
<1>11. new => device.gen # 0 /\ ~Known(e) /\ announced[e] = 0 /\ e \notin old
  BY <1>1, <1>3, <1>4, <1>6, <1>10 DEF Known
<1>12. \A f : Known(f)' => Known(f) \/ (f = e /\ new /\ ~job[c].known)
  BY <1>6 DEF Known
<1>13. Remembered'
  <2>1. seenLog' \subseteq 1 .. entries /\ old' \subseteq Realtime!Entries
    BY <1>1, <1>3, <1>6
  <2>2. \A f \in old' : announced[f] = 0
    BY <1>6, <1>11 DEF RealtimeInv, Remembered
  <2>3. device.gen = 0 => seenLog' = {}
    BY <1>6 DEF RealtimeInv, Remembered
  <2>4. device.gen # 0 => \A f \in Realtime!Entries : Known(f)' => f \in seenLog' \/ f + LogSize <= entries
    BY <1>6, <1>12 DEF RealtimeInv, Remembered
  <2>5. /\ j.logs \subseteq 1 .. entries
        /\ device.gen # 0 => \A f \in j.logs : Known(f)' => f \in seenLog'
    BY <1>1, <1>6, <1>7, <1>10, <1>12
  <2>6. j.entry # 0 => ~Known(j.entry)' /\ j.entry \in 1 .. entries /\ j.entry \in seenLog'
    BY <1>3, <1>6, <1>7, <1>11, <1>12
  <2>7. ASSUME NEW d \in Refreshers
        PROVE  /\ job'[d].logs \subseteq 1 .. entries
               /\ device.gen # 0 => \A f \in job'[d].logs : Known(f)' => f \in seenLog'
               /\ job'[d].entry # 0 =>
                    /\ ~Known(job[d].entry)' /\ job'[d].entry \in 1 .. entries
                    /\ device.gen # 0 => job'[d].entry \in seenLog'
    <3>1. CASE d = c
      BY <1>9, <2>5, <2>6, <3>1
    <3>2. CASE d # c
      BY <1>9, <3>2
    <3> QED
      BY <3>1, <3>2
  <2> QED
    BY <1>1, <1>6, <2>1, <2>2, <2>3, <2>4, <2>7 DEF Remembered
<1> QED
  BY <1>9, <1>13 DEF RealtimeInv

LEMMA PublishEntryKeeps ==
  ASSUME RealtimeInv, NEW c \in Refreshers, Realtime!Publish(c) PROVE RealtimeInv'
<1>1. /\ job[c] \in Jobs /\ Sound(job[c]) /\ job[c].pc = "remember" /\ job[c].entry # 0
      /\ announced \in [Realtime!Entries -> {0, 1}] /\ job[c].logs \subseteq 1 .. entries
      /\ job[c].entry \in Realtime!Entries /\ old \subseteq Realtime!Entries
      /\ ~Known(job[c].entry) /\ (device.gen # 0 => job[c].entry \in seenLog)
      /\ device.gen # 0 => \A f \in job[c].logs : Known(f) => f \in seenLog
  <2>1. job[c] \in Jobs /\ Sound(job[c]) /\ job[c].pc = "remember" /\ job[c].entry # 0
    BY OnlyOne DEF Realtime!Publish, Sound
  <2> QED
    BY <2>1 DEF RealtimeInv, Remembered, Jobs
<1>2. PICK e : e = job[c].entry
  OBVIOUS
<1>3. PICK j : j = [job[c] EXCEPT !.entry = 0]
  OBVIOUS
<1>4. /\ job' = [job EXCEPT ![c] = j] /\ announced' = [announced EXCEPT ![e] = @ + 1]
      /\ UNCHANGED <<router, entries, device, baseline, refreshOf, client, cached, last, edit, told, rejected,
                     seenLog, old>>
  BY <1>1, <1>2, <1>3 DEF Realtime!Publish, Realtime!world
<1>5. /\ j \in Jobs /\ j.pc = "remember" /\ j.logs = job[c].logs /\ j.entry = 0
      /\ j.reused = job[c].reused /\ j.force = job[c].force /\ j.polled = job[c].polled
      /\ j.port = job[c].port /\ j.health = job[c].health /\ j.client = job[c].client /\ j.seen = job[c].seen
  BY <1>1, <1>3 DEF Jobs
<1>6. Sound(j)
  BY <1>1, <1>5 DEF Sound
<1>7. /\ RealtimeTypes' /\ Refreshing' /\ Heard' /\ Shown'
      /\ job'[c] = j /\ \A d \in Refreshers : d # c => job'[d] = job[d] /\ job[d].logs = {} /\ job[d].entry = 0
  BY <1>1, <1>4, <1>5, <1>6, LogStep
<1>8. announced[e] = 0 /\ e \notin old /\ e \in Realtime!Entries /\ (device.gen # 0 => e \in seenLog)
  BY <1>1, <1>2 DEF Known
<1>9. /\ announced' \in [Realtime!Entries -> {0, 1}]
      /\ \A f \in Realtime!Entries : f # e => announced'[f] = announced[f]
  BY <1>1, <1>4, <1>8
<1>10. \A f \in Realtime!Entries : Known(f)' => Known(f) \/ f = e
  BY <1>4, <1>9 DEF Known
<1>11. Remembered'
  <2>1. \A f \in old' : announced'[f] = 0
    BY <1>1, <1>4, <1>8, <1>9 DEF RealtimeInv, Remembered
  <2>2. device.gen # 0 => \A f \in Realtime!Entries : Known(f)' => f \in seenLog \/ f + LogSize <= entries
    BY <1>8, <1>10 DEF RealtimeInv, Remembered
  <2>3. device.gen # 0 => \A f \in j.logs : Known(f)' => f \in seenLog
    <3>1. j.logs \subseteq Realtime!Entries
      BY <1>5 DEF Jobs
    <3> QED
      BY <1>1, <1>5, <1>8, <1>10, <3>1
  <2>4. ASSUME NEW d \in Refreshers
        PROVE  /\ job'[d].logs \subseteq 1 .. entries /\ job'[d].entry = 0
               /\ device.gen # 0 => \A f \in job'[d].logs : Known(f)' => f \in seenLog
    BY <1>1, <1>5, <1>7, <2>3
  <2> QED
    BY <1>4, <1>9, <2>1, <2>2, <2>4 DEF RealtimeInv, Remembered
<1> QED
  BY <1>7, <1>11 DEF RealtimeInv

\* A fingerprint that prune() deletes is of an entry the router's log has lost: the
\* table keeps more rows than the log has entries.
LEMMA PruneKeeps ==
  ASSUME RealtimeInv, NEW c \in Refreshers, Realtime!Prune(c) PROVE RealtimeInv'
<1>1. /\ job[c] \in Jobs /\ Sound(job[c]) /\ job[c].pc = "prune" /\ job[c].entry = 0 /\ job[c].logs = {}
  <2>1. job[c] \in Jobs /\ Sound(job[c]) /\ job[c].pc = "prune"
    BY OnlyOne DEF Realtime!Prune
  <2> QED
    BY <2>1 DEF Sound
<1>2. PICK j : j = [job[c] EXCEPT !.pc = "health"]
  OBVIOUS
<1>3. /\ job' = [job EXCEPT ![c] = j]
      /\ seenLog' = {e \in seenLog : Cardinality({f \in seenLog : f > e}) < Keep}
      /\ UNCHANGED <<router, entries, device, baseline, refreshOf, client, cached, last, edit, told, rejected,
                     announced, old>>
  <2>1. job' = [job EXCEPT ![c].pc = "health"]
    BY DEF Realtime!Prune, Realtime!Go
  <2>2. seenLog' = {e \in seenLog : Cardinality({f \in seenLog : f > e}) < Keep}
    BY SameCardinality DEF Realtime!Prune
  <2>3. UNCHANGED <<router, entries, device, baseline, refreshOf, client, cached, last, edit, told, rejected,
                    announced, old>>
    BY DEF Realtime!Prune, Realtime!world, Realtime!history
  <2> QED
    BY <1>2, <2>1, <2>2, <2>3
<1>4. /\ j \in Jobs /\ j.pc = "health" /\ j.logs = {} /\ j.entry = 0
      /\ j.reused = job[c].reused /\ j.force = job[c].force /\ j.polled = job[c].polled
      /\ j.port = job[c].port /\ j.health = job[c].health /\ j.client = job[c].client /\ j.seen = job[c].seen
  BY <1>1, <1>2 DEF Jobs, Passes
<1>5. Sound(j)
  BY <1>1, <1>4 DEF Sound
<1>6. /\ RealtimeTypes' /\ Refreshing' /\ Heard' /\ Shown'
      /\ job'[c] = j /\ \A d \in Refreshers : d # c => job'[d] = job[d] /\ job[d].logs = {} /\ job[d].entry = 0
  BY <1>1, <1>3, <1>4, <1>5, LogStep
<1>7. seenLog \subseteq 1 .. entries /\ entries \in Nat /\ 1 .. entries \subseteq Realtime!Entries
  BY RealtimeSizes DEF RealtimeInv, RealtimeTypes, Remembered
<1>8. ASSUME NEW e \in seenLog, e \notin seenLog' PROVE e + LogSize <= entries
  <2>1. PICK S : S = {f \in seenLog : f > e}
    OBVIOUS
  <2>2. ~(Cardinality(S) < Keep)
    BY <1>3, <1>8, <2>1
  <2>3. e \in 1 .. entries /\ e \in Nat /\ S \subseteq (e + 1) .. entries
    <3>1. e \in 1 .. entries /\ e \in Nat
      BY <1>7
    <3>2. ASSUME NEW f \in S PROVE f \in (e + 1) .. entries
      <4>1. f \in 1 .. entries /\ f > e
        BY <1>7, <2>1
      <4> QED
        BY <1>7, <3>1, <4>1
    <3> QED
      BY <3>1, <3>2
  <2>4. /\ IsFiniteSet((e + 1) .. entries)
        /\ Cardinality((e + 1) .. entries) = IF e + 1 > entries THEN 0 ELSE entries - (e + 1) + 1
    BY <1>7, <2>3, FS_Interval
  <2>5. /\ Cardinality(S) <= Cardinality((e + 1) .. entries) /\ Cardinality(S) \in Nat
    BY <2>3, <2>4, FS_Subset, FS_CardinalityType
  <2>6. Cardinality(S) <= entries - e
    BY <1>7, <2>3, <2>4, <2>5
  <2> QED
    BY <1>7, <2>2, <2>3, <2>5, <2>6, RealtimeSizes
<1>9. Remembered'
  <2>1. \A f : Known(f)' <=> Known(f)
    BY <1>3 DEF Known
  <2>2. seenLog' \subseteq seenLog
    BY <1>3
  <2>3. device.gen # 0 => \A f \in Realtime!Entries : Known(f) => f \in seenLog' \/ f + LogSize <= entries
    BY <1>8 DEF RealtimeInv, Remembered
  <2>4. \A d \in Refreshers : job'[d].logs = {} /\ job'[d].entry = 0
    BY <1>4, <1>6
  <2>5. device.gen = 0 => seenLog' = {}
    BY <2>2 DEF RealtimeInv, Remembered
  <2> QED
    BY <1>3, <1>7, <2>1, <2>2, <2>3, <2>4, <2>5 DEF RealtimeInv, Remembered
<1> QED
  BY <1>6, <1>9 DEF RealtimeInv

-----------------------------------------------------------------------------
(* The rounds, the edits of the device, the end of the program             *)

LEMMA BeginKeeps ==
  ASSUME RealtimeInv, Realtime!Listed \/ \E c \in Refreshers : Realtime!Request(c)
  PROVE  RealtimeInv'
<1>1. UNCHANGED <<router, entries, device, seenLog, baseline, client, cached, last, edit, told, announced, old, rejected>>
  BY DEF Realtime!Listed, Realtime!Request, Realtime!world, Realtime!history
<1>2. CASE \E c \in Refreshers : Realtime!Refresh(c)
  BY <1>1, <1>2, RefreshKeeps
<1>3. CASE UNCHANGED <<refreshOf, job>>
  <2>1. Shown'
    <3>1. NotOff' <=> NotOff
      BY <1>1 DEF NotOff
    <3> QED
      BY <1>1, <1>3, <3>1 DEF RealtimeInv, Shown
  <2>2. Remembered'
    BY <1>1, <1>3, RememberedKept DEF RealtimeInv
  <2> QED
    BY <1>1, <1>3, <2>1, <2>2 DEF RealtimeInv, RealtimeTypes, Refreshing, Heard
<1>4. \/ \E c \in Refreshers : Realtime!Refresh(c)
      \/ UNCHANGED <<refreshOf, job>>
  BY RealtimeSizes DEF Realtime!Listed, Realtime!Request
<1> QED
  BY <1>2, <1>3, <1>4

\* clear() takes away what a refresh under way may find, and what was heard with it.
LEMMA EditBeginsKeeps ==
  ASSUME RealtimeInv, NEW kind \in {"update", "delete"}, Realtime!EditBegins(kind) PROVE RealtimeInv'
<1>1. /\ UNCHANGED <<router, entries, device, seenLog, baseline, refreshOf, announced, old, rejected>>
      /\ device.gen # 0 /\ edit' = kind
      /\ client' = [gen |-> 0, ok |-> FALSE] /\ cached' = "none"
      /\ last' = [online |-> "none", port |-> "none", health |-> "well"]
      /\ told' = [online |-> "none", port |-> "none", health |-> "none"]
      /\ job' = [c \in Refreshers |-> IF job[c].client = client THEN [job[c] EXCEPT !.client.ok = FALSE] ELSE job[c]]
  BY DEF Realtime!EditBegins, Realtime!Clear, Realtime!world, Realtime!NoClient, Realtime!Unknown,
         Realtime!Silence, Realtime!None
<1>2. ASSUME NEW c \in Refreshers
      PROVE  /\ job'[c] \in Jobs /\ Sound(job'[c]) /\ job'[c].pc = job[c].pc /\ job'[c].reused = job[c].reused
             /\ job'[c].force = job[c].force /\ job'[c].logs = job[c].logs /\ job'[c].entry = job[c].entry
  <2>1. job[c] \in Jobs /\ Sound(job[c])
    BY OnlyOne
  <2>2. job[c].client \in Clients
    BY <2>1 DEF Jobs
  <2>3. CASE job[c].client # client
    BY <1>1, <2>1, <2>3
  <2>4. CASE job[c].client = client
    <3>1. PICK k : k = [job[c].client EXCEPT !.ok = FALSE]
      OBVIOUS
    <3>2. k \in Clients /\ k.gen = job[c].client.gen
      BY <2>2, <3>1 DEF Clients
    <3>3. job'[c] = [job[c] EXCEPT !.client = k]
      <4>1. job'[c] = [job[c] EXCEPT !.client.ok = FALSE]
        BY <1>1, <2>4
      <4>2. [job[c] EXCEPT !.client.ok = FALSE] = [job[c] EXCEPT !.client = [job[c].client EXCEPT !.ok = FALSE]]
        OBVIOUS
      <4> QED
        BY <3>1, <4>1, <4>2
    <3> QED
      BY <2>1, <3>2, <3>3 DEF Jobs, Sound
  <2> QED
    BY <2>3, <2>4
<1>3. job' \in [Refreshers -> Jobs]
  BY <1>1, <1>2
<1>4. RealtimeTypes'
  <2>1. client' \in Clients /\ cached' \in Online
    BY <1>1 DEF Clients, Online
  <2>2. /\ last' \in [online : Online, port : {"none", "up", "down"}, health : Healths]
        /\ told' \in [online : Online, port : {"none", "up", "down"}, health : {"none"} \cup Healths]
    BY <1>1 DEF Online, Healths
  <2> QED
    BY <1>1, <1>3, <2>1, <2>2 DEF RealtimeInv, RealtimeTypes
<1>5. Refreshing'
  BY <1>1, <1>2 DEF RealtimeInv, Refreshing
<1>6. Heard'
  BY <1>1 DEF Heard
<1>7. Shown'
  <2>1. NotOff' /\ client'.gen = 0 /\ cached' = "none" /\ last'.online # "offline"
    BY <1>1 DEF NotOff
  <2> QED
    BY <2>1 DEF Shown
<1>8. Remembered'
  BY <1>1, <1>2, RememberedKept DEF RealtimeInv
<1> QED
  BY <1>4, <1>5, <1>6, <1>7, <1>8 DEF RealtimeInv

LEMMA EditWritesKeeps ==
  ASSUME RealtimeInv, Realtime!EditWrites PROVE RealtimeInv'
<1>1. /\ UNCHANGED <<router, entries, refreshOf, job, client, cached, last, told, announced, old, rejected>>
      /\ edit' = "none" /\ edit # "none" /\ device.gen # 0
      /\ device \in [gen : Nat, status : {"unknown", "online", "offline"}] /\ baseline \in BOOLEAN
      /\ \/ device' = [device EXCEPT !.gen = device.gen + 1] /\ UNCHANGED <<seenLog, baseline>>
         \/ device' = [device EXCEPT !.gen = 0] /\ seenLog' = {} /\ baseline' = FALSE
  BY RealtimeSizes DEF Realtime!EditWrites, Realtime!world, Realtime!history, RealtimeInv, RealtimeTypes
<1>2. /\ device' \in [gen : Nat, status : {"unknown", "online", "offline"}] /\ baseline' \in BOOLEAN
      /\ \/ device'.gen # 0 /\ seenLog' = seenLog
         \/ device'.gen = 0 /\ seenLog' = {}
  <2>1. CASE device' = [device EXCEPT !.gen = device.gen + 1] /\ UNCHANGED <<seenLog, baseline>>
    <3>1. device.gen + 1 \in Nat /\ device.gen + 1 # 0
      BY <1>1
    <3> QED
      BY <1>1, <2>1, <3>1
  <2>2. CASE device' = [device EXCEPT !.gen = 0] /\ seenLog' = {} /\ baseline' = FALSE
    BY <1>1, <2>2
  <2> QED
    BY <1>1, <2>1, <2>2
<1>3. RealtimeTypes' /\ Refreshing' /\ Heard'
  BY <1>1, <1>2 DEF RealtimeInv, RealtimeTypes, Refreshing, Heard
<1>4. Shown'
  <2>1. NotOff' <=> NotOff
    BY <1>1 DEF NotOff
  <2> QED
    BY <1>1, <2>1 DEF RealtimeInv, Shown
<1>5. Remembered'
  <2>1. \A e : Known(e)' <=> Known(e)
    BY <1>1 DEF Known
  <2> QED
    BY <1>1, <1>2, <2>1 DEF RealtimeInv, Remembered
<1> QED
  BY <1>3, <1>4, <1>5 DEF RealtimeInv

LEMMA RestartKeeps ==
  ASSUME RealtimeInv, Realtime!Restart PROVE RealtimeInv'
<1>1. /\ UNCHANGED <<router, entries, device, seenLog, baseline, announced, old, rejected>>
      /\ edit' = "none"
      /\ client' = [gen |-> 0, ok |-> FALSE] /\ cached' = "none"
      /\ last' = [online |-> "none", port |-> "none", health |-> "well"]
      /\ told' = [online |-> "none", port |-> "none", health |-> "none"]
      /\ job' = [c \in Refreshers |-> Realtime!NoJob]
  BY DEF Realtime!Restart, Realtime!NoClient, Realtime!Unknown, Realtime!Silence, Realtime!None
<1>2. job' \in [Refreshers -> Jobs] /\ \A c \in Refreshers : job'[c] = Realtime!NoJob
  BY <1>1, RealtimeNoJob
<1>3. RealtimeTypes'
  <2>1. client' \in Clients /\ cached' \in Online
    BY <1>1 DEF Clients, Online
  <2>2. /\ last' \in [online : Online, port : {"none", "up", "down"}, health : Healths]
        /\ told' \in [online : Online, port : {"none", "up", "down"}, health : {"none"} \cup Healths]
    BY <1>1 DEF Online, Healths
  <2> QED
    BY <1>1, <1>2, <2>1, <2>2 DEF RealtimeInv, RealtimeTypes
<1>4. Refreshing'
  BY <1>2, RealtimeNoJob DEF Refreshing
<1>5. Heard'
  BY <1>1 DEF Heard
<1>6. Shown'
  <2>1. NotOff' /\ client'.gen = 0 /\ cached' = "none" /\ last'.online # "offline"
    BY <1>1 DEF NotOff
  <2> QED
    BY <2>1 DEF Shown
<1>7. Remembered'
  BY <1>1, <1>2, RealtimeNoJob, RememberedKept DEF RealtimeInv
<1> QED
  BY <1>3, <1>4, <1>5, <1>6, <1>7 DEF RealtimeInv

LEMMA NextRealtime ==
  ASSUME RealtimeInv, Realtime!Next \/ UNCHANGED realtimeVars PROVE RealtimeInv'
<1>1. CASE \E c \in Refreshers : Realtime!Step(c)
  <2> SUFFICES ASSUME NEW c \in Refreshers, Realtime!Step(c) PROVE RealtimeInv'
    BY <1>1
  <2> QED
    BY BeginKeeps, EndKeeps, WalkKeeps, PublishKeeps, RememberKeeps, PublishEntryKeeps, PruneKeeps, FailKeeps
    DEF Realtime!Step
<1> QED
  BY <1>1, WorldKeeps, BeginKeeps, EditBeginsKeeps, EditWritesKeeps, RestartKeeps DEF Realtime!Next

\* Device realtime: the events say what the service holds, what it shows agrees with
\* them while no refresh is under way and none was rejected since, and an entry of
\* the router's log is told once at most, an old one never.
THEOREM EventsAlwaysTellTheState == Spec => []EventsTellTheState
<1> DEFINE I == part = "device realtime" => RealtimeInv
<1>1. Init => I
  BY InitRealtime DEF Init
<1>2. I /\ [Next]_allVars => I'
  <2> SUFFICES ASSUME I, [Next]_allVars, part' = "device realtime" PROVE RealtimeInv'
    OBVIOUS
  <2>1. part = "device realtime"
    BY DEF Next, allVars
  <2>2. Realtime!Next \/ UNCHANGED realtimeVars
    BY <2>1 DEF Next, allVars, realtimeVars
  <2> QED
    BY <2>1, <2>2, NextRealtime
<1>3. I => EventsTellTheState
  <2> SUFFICES ASSUME RealtimeInv PROVE Realtime!EventsTellTheState
    BY DEF EventsTellTheState
  <2>1. /\ told.online \in {"none", last.online} /\ told.port \in {"none", last.port}
        /\ told.health \in {"none", last.health}
    BY DEF RealtimeInv, Heard
  <2>2. refreshOf = "none" /\ ~rejected /\ cached # "none" /\ last.online # "none" => cached = last.online
    <3>1. refreshOf = "none" => \A c \in Refreshers : job[c].pc \in {"idle", "find"}
      BY OnlyOne
    <3> QED
      BY <3>1 DEF RealtimeInv, Shown
  <2>3. \A e \in Realtime!Entries : announced[e] <= 1 /\ (e \in old => announced[e] = 0)
    BY DEF RealtimeInv, Remembered
  <2> QED
    BY <2>1, <2>2, <2>3, RealtimeSizes DEF Realtime!EventsTellTheState
<1> QED
  BY <1>1, <1>2, <1>3, PTL DEF Spec

\* Device realtime: a device is called offline only after a connection of this
\* refresh failed, or the database did, and commands run over a connection opened
\* with the settings the refresh read.
THEOREM OutageAlwaysReal == Spec => []OutageIsReal
<1> DEFINE I == part = "device realtime" => RealtimeInv
<1>1. Init => I
  BY InitRealtime DEF Init
<1>2. I /\ [Next]_allVars => I'
  <2> SUFFICES ASSUME I, [Next]_allVars, part' = "device realtime" PROVE RealtimeInv'
    OBVIOUS
  <2>1. part = "device realtime"
    BY DEF Next, allVars
  <2>2. Realtime!Next \/ UNCHANGED realtimeVars
    BY <2>1 DEF Next, allVars, realtimeVars
  <2> QED
    BY <2>1, <2>2, NextRealtime
<1>3. I => OutageIsReal
  <2> SUFFICES ASSUME RealtimeInv, NEW c \in Refreshers
               PROVE  /\ job[c].pc = "offline" => job[c].excuse
                      /\ Realtime!Past(c) => job[c].client.gen = job[c].seen
    BY DEF OutageIsReal, Realtime!OutageIsReal
  <2> QED
    BY OnlyOne DEF Sound, Realtime!Past
<1> QED
  BY <1>1, <1>2, <1>3, PTL DEF Spec
-----------------------------------------------------------------------------
(* The inventory and the history of the topology                           *)

Collected ==
  [status : {"running", "completed", "partial", "failed"}, sections : [Sections -> Nat]]

Graphs ==
  [inventory : [Sections -> Nat] \cup {<<>>}, status : {"none", "unknown", "online", "offline"},
   link : BOOLEAN]

GraphRows == [graph : Graphs, alone : BOOLEAN]

Collecting == {"collect", "finish", "online", "offline"}
Reading == {"load", "compare", "create"}
Capturing == Reading \cup {"prune"}
Errands == {"collect", "all", "device", "endRound", "endJob"}

HistoryTypes ==
  /\ answers \in Nat /\ link \in BOOLEAN /\ status \in {"unknown", "online", "offline"}
  /\ snapshots \in Seq(Collected)
  /\ rows \in [Inventory!Scopes -> Seq(GraphRows)]
  /\ work \in [Collectors -> Seq(Errands)]
  /\ at \in [Collectors -> Collecting \cup Capturing \cup {"begin"}]
  /\ snap \in [Collectors -> Nat]
  /\ seen \in [Collectors -> Graphs]
  /\ stale \in [Collectors -> BOOLEAN] /\ alone \in [Collectors -> BOOLEAN]
  /\ current \in [Inventory!Scopes -> BOOLEAN]

\* What a caller is at, it is doing.
InHand ==
  \A c \in Collectors :
    /\ at[c] # "begin" => work[c] # <<>>
    /\ at[c] \in Collecting => Head(work[c]) = "collect"
    /\ at[c] \in Capturing => Head(work[c]) \in Inventory!Scopes

\* A snapshot is collected by one caller, and not finished before that caller is.
OwnSnapshot ==
  /\ \A c \in Collectors : at[c] \in Collecting =>
       /\ snap[c] \in 1 .. Len(snapshots)
       /\ at[c] \in {"collect", "finish"} => snapshots[snap[c]].status = "running"
  /\ \A c, d \in Collectors : c # d /\ at[c] \in Collecting /\ at[d] \in Collecting => snap[c] # snap[d]

\* What a capture has read is still so unless it knows better, and what it is to
\* store is not what was stored last unless another capture came between.
ReadAlone ==
  \A c \in Collectors :
    /\ at[c] = "load" /\ ~stale[c] => seen[c].status = status
    /\ at[c] \in {"compare", "create"} /\ ~stale[c] => seen[c] = Inventory!Graph
    /\ at[c] = "create" /\ alone[c] =>
         \A s \in Inventory!Scopes : Head(work[c]) = s =>
           rows[s] = <<>> \/ rows[s][Len(rows[s])].graph # seen[c]

HistoryInv == HistoryTypes /\ InHand /\ OwnSnapshot /\ ReadAlone /\ Inventory!HistoryHolds

Done(r) == r.status \in {"completed", "partial"}
Whole(r) == Done(r) => (r.status = "completed") = ({s \in Required : r.sections[s] = 0} = {})

InventoryOf(S) ==
  IF \A i \in DOMAIN S : ~Done(S[i]) THEN <<>>
  ELSE S[CHOOSE i \in DOMAIN S : Done(S[i]) /\ \A j \in DOMAIN S : Done(S[j]) => j <= i].sections

LEMMA InventorySizes == Inventory!Scopes = {"all", "device"} /\ KeepRows \in Nat /\ KeepRows # 0
BY InventoryAssumption DEF Inventory!Scopes

LEMMA GraphIs ==
  /\ Inventory!Graph = [inventory |-> InventoryOf(snapshots), status |-> status, link |-> link]
  /\ Inventory!Graph' = [inventory |-> InventoryOf(snapshots'), status |-> status', link |-> link']
<1>1. Inventory!Inventory = InventoryOf(snapshots)
  BY DEF Inventory!Inventory, Inventory!Finished, InventoryOf, Done
<1>2. Inventory!Inventory' = InventoryOf(snapshots')
  BY DEF Inventory!Inventory, Inventory!Finished, InventoryOf, Done
<1> QED
  BY <1>1, <1>2 DEF Inventory!Graph

LEMMA HistoryIs ==
  /\ Inventory!SnapshotsAreWhole <=> \A i \in DOMAIN snapshots : Whole(snapshots[i])
  /\ Inventory!SnapshotsAreWhole' <=> \A i \in DOMAIN snapshots' : Whole(snapshots'[i])
BY DEF Inventory!SnapshotsAreWhole, Inventory!Finished, Inventory!Missing, Whole, Done

\* Of the finished snapshots one is the newest.
LEMMA NewestFinished ==
  ASSUME NEW S \in Seq(Collected)
  PROVE  \/ (\A i \in DOMAIN S : ~Done(S[i])) /\ InventoryOf(S) = <<>>
         \/ \E m \in DOMAIN S :
              Done(S[m]) /\ (\A j \in DOMAIN S : Done(S[j]) => j <= m) /\ InventoryOf(S) = S[m].sections
<1>1. CASE \A i \in DOMAIN S : ~Done(S[i])
  BY <1>1 DEF InventoryOf
<1>2. CASE \E i \in DOMAIN S : Done(S[i])
  <2>1. PICK D : D = {Len(S) - i : i \in {k \in DOMAIN S : Done(S[k])}}
    OBVIOUS
  <2>2. Len(S) \in Nat /\ DOMAIN S = 1 .. Len(S)
    OBVIOUS
  <2>3. D \subseteq Nat /\ D # {}
    BY <1>2, <2>1, <2>2
  <2>4. PICK n \in D : \A o \in D : n <= o
    BY <2>3, Least
  <2>5. PICK m \in DOMAIN S : Done(S[m]) /\ n = Len(S) - m
    BY <2>1
  <2>6. ASSUME NEW j \in DOMAIN S, Done(S[j]) PROVE j <= m
    <3>1. Len(S) - j \in D
      BY <2>1, <2>6
    <3> QED
      BY <2>2, <2>4, <2>5, <3>1
  <2>7. \A k \in DOMAIN S : Done(S[k]) /\ (\A j \in DOMAIN S : Done(S[j]) => j <= k) => k = m
    BY <2>2, <2>5, <2>6
  <2>8. (CHOOSE i \in DOMAIN S : Done(S[i]) /\ \A j \in DOMAIN S : Done(S[j]) => j <= i) = m
    BY <2>5, <2>6, <2>7
  <2> QED
    BY <1>2, <2>5, <2>6, <2>8 DEF InventoryOf
<1> QED
  BY <1>1, <1>2

LEMMA InventoryTyped ==
  ASSUME NEW S \in Seq(Collected) PROVE InventoryOf(S) \in [Sections -> Nat] \cup {<<>>}
<1>1. \A i \in DOMAIN S : S[i].sections \in [Sections -> Nat]
  <2>1. \A i \in DOMAIN S : S[i] \in Collected
    OBVIOUS
  <2> QED
    BY <2>1 DEF Collected
<1> QED
  BY <1>1, NewestFinished

LEMMA SameInventory ==
  ASSUME NEW S \in Seq(Collected), NEW T \in Seq(Collected), Len(S) <= Len(T),
         \A i \in DOMAIN S : (Done(S[i]) <=> Done(T[i])) /\ (Done(S[i]) => T[i].sections = S[i].sections),
         \A i \in DOMAIN T : i > Len(S) => ~Done(T[i])
  PROVE  InventoryOf(T) = InventoryOf(S)
<1>1. DOMAIN S = 1 .. Len(S) /\ DOMAIN T = 1 .. Len(T) /\ Len(S) \in Nat /\ Len(T) \in Nat
  OBVIOUS
<1>2. \A i \in DOMAIN T : Done(T[i]) => i \in DOMAIN S /\ Done(S[i])
  BY <1>1
<1>3. \A i \in DOMAIN S : i \in DOMAIN T
  BY <1>1
<1>4. CASE \A i \in DOMAIN S : ~Done(S[i])
  BY <1>2, <1>4 DEF InventoryOf
<1>5. CASE \E i \in DOMAIN S : Done(S[i])
  <2>1. PICK m \in DOMAIN S : Done(S[m]) /\ (\A j \in DOMAIN S : Done(S[j]) => j <= m) /\ InventoryOf(S) = S[m].sections
    BY <1>5, NewestFinished
  <2>2. PICK k \in DOMAIN T : Done(T[k]) /\ (\A j \in DOMAIN T : Done(T[j]) => j <= k) /\ InventoryOf(T) = T[k].sections
    BY <1>3, <2>1, NewestFinished
  <2>3. k = m
    BY <1>1, <1>2, <1>3, <2>1, <2>2
  <2> QED
    BY <2>1, <2>2, <2>3
<1> QED
  BY <1>4, <1>5

\* While the rows stay, and whatever moves the graph tells the captures under way,
\* these know what they have read.
LEMMA ReadAloneKept ==
  ASSUME HistoryInv, rows' = rows,
         \A d \in Collectors : at'[d] \in Reading =>
           at'[d] = at[d] /\ work'[d] = work[d] /\ seen'[d] = seen[d] /\ alone'[d] = alone[d],
         \/ Inventory!GraphMoves
         \/ /\ Inventory!Graph' = Inventory!Graph /\ status' = status /\ current' = current
            /\ \A d \in Collectors : at'[d] \in Reading => stale'[d] = stale[d]
  PROVE  ReadAlone' /\ Inventory!HistoryIsCurrent'
<1>1. Inventory!Graph' = Inventory!Graph => status' = status
  BY GraphIs
<1>2. ASSUME NEW d \in Collectors, at'[d] \in Reading
      PROVE  ~stale'[d] => Inventory!Graph' = Inventory!Graph /\ status' = status /\ ~stale[d]
  <2>1. CASE Inventory!GraphMoves
    <3>1. CASE Inventory!Graph' # Inventory!Graph
      <4>1. stale'[d] = (at[d] \in Reading)
        BY <2>1, <3>1 DEF Inventory!GraphMoves, Reading
      <4> QED
        BY <1>2, <4>1
    <3>2. CASE Inventory!Graph' = Inventory!Graph
      BY <1>1, <2>1, <3>2 DEF Inventory!GraphMoves
    <3> QED
      BY <3>1, <3>2
  <2> QED
    BY <1>1, <1>2, <2>1
<1>3. \A s \in Inventory!Scopes : current'[s] => current[s] /\ Inventory!Graph' = Inventory!Graph
  BY DEF Inventory!GraphMoves
<1>4. ReadAlone'
  <2> SUFFICES ASSUME NEW d \in Collectors
               PROVE  /\ at'[d] = "load" /\ ~stale'[d] => seen'[d].status = status'
                      /\ at'[d] \in {"compare", "create"} /\ ~stale'[d] => seen'[d] = Inventory!Graph'
                      /\ at'[d] = "create" /\ alone'[d] =>
                           \A s \in Inventory!Scopes : Head(work'[d]) = s =>
                             rows'[s] = <<>> \/ rows'[s][Len(rows'[s])].graph # seen'[d]
    BY DEF ReadAlone
  <2> QED
    BY <1>2 DEF HistoryInv, ReadAlone, Reading
<1>5. Inventory!HistoryIsCurrent'
  BY <1>3 DEF HistoryInv, Inventory!HistoryHolds, Inventory!HistoryIsCurrent, Inventory!Last
<1> QED
  BY <1>4, <1>5

\* Callers stay where they are or begin something else, and no snapshot and no row changes.
LEMMA LeavingKeeps ==
  ASSUME HistoryInv, HistoryTypes', UNCHANGED <<snapshots, rows>>,
         \A d \in Collectors : at'[d] # "begin" =>
           /\ at'[d] = at[d] /\ work'[d] = work[d] /\ snap'[d] = snap[d] /\ seen'[d] = seen[d]
           /\ alone'[d] = alone[d],
         \/ Inventory!GraphMoves
         \/ UNCHANGED <<link, status, current>> /\ \A d \in Collectors : at'[d] # "begin" => stale'[d] = stale[d]
  PROVE  HistoryInv'
<1>1. "begin" \notin Reading /\ "begin" \notin Collecting /\ "begin" \notin Capturing
  BY DEF Reading, Collecting, Capturing
<1>2. UNCHANGED <<link, status>> => Inventory!Graph' = Inventory!Graph
  BY GraphIs
<1>3. ReadAlone' /\ Inventory!HistoryIsCurrent'
  BY <1>1, <1>2, ReadAloneKept
<1>4. InHand'
  BY <1>1 DEF HistoryInv, InHand
<1>5. OwnSnapshot'
  BY <1>1 DEF HistoryInv, OwnSnapshot
<1>6. Inventory!SnapshotsAreWhole'
  BY HistoryIs DEF HistoryInv, Inventory!HistoryHolds
<1> QED
  BY <1>3, <1>4, <1>5, <1>6 DEF HistoryInv, Inventory!HistoryHolds

LEMMA MovesTyped ==
  ASSUME HistoryTypes, Inventory!GraphMoves
  PROVE  stale' \in [Collectors -> BOOLEAN] /\ current' \in [Inventory!Scopes -> BOOLEAN]
<1>1. CASE Inventory!Graph' = Inventory!Graph
  BY <1>1 DEF HistoryTypes, Inventory!GraphMoves
<1>2. CASE Inventory!Graph' # Inventory!Graph
  <2>1. /\ stale' = [c \in Collectors |-> at[c] \in {"load", "compare", "create"}]
        /\ current' = [s \in Inventory!Scopes |-> FALSE]
    BY <1>2 DEF Inventory!GraphMoves
  <2> QED
    BY <2>1
<1> QED
  BY <1>1, <1>2

\* A caller works on its own snapshot.
LEMMA SnapshotKeeps ==
  ASSUME HistoryInv, NEW c \in Collectors, at[c] \in Collecting,
         NEW r \in Collected, Whole(r), NEW l \in Collecting, l \in {"collect", "finish"} => r.status = "running",
         snapshots' = [snapshots EXCEPT ![snap[c]] = r], at' = [at EXCEPT ![c] = l],
         UNCHANGED <<answers, link, status, rows, work, snap, seen, alone>>,
         \/ Inventory!GraphMoves
         \/ ~Done(snapshots[snap[c]]) /\ ~Done(r) /\ UNCHANGED <<stale, current>>
  PROVE  HistoryInv'
<1>1. /\ snap[c] \in DOMAIN snapshots /\ snapshots \in Seq(Collected) /\ at \in [Collectors -> Collecting \cup Capturing \cup {"begin"}]
      /\ Head(work[c]) = "collect" /\ DOMAIN snapshots = 1 .. Len(snapshots)
  BY DEF HistoryInv, HistoryTypes, OwnSnapshot, InHand
<1>2. /\ snapshots' \in Seq(Collected) /\ Len(snapshots') = Len(snapshots) /\ DOMAIN snapshots' = DOMAIN snapshots
      /\ snapshots'[snap[c]] = r /\ \A i \in DOMAIN snapshots : i # snap[c] => snapshots'[i] = snapshots[i]
  BY <1>1
<1>3. /\ at'[c] = l /\ \A d \in Collectors : d # c => at'[d] = at[d]
      /\ at' \in [Collectors -> Collecting \cup Capturing \cup {"begin"}]
  BY <1>1
<1>4. l \notin Reading /\ l \notin Capturing /\ l # "begin"
  BY DEF Collecting, Reading, Capturing
<1>5. ~Done(snapshots[snap[c]]) /\ ~Done(r) => Inventory!Graph' = Inventory!Graph
  <2>1. ASSUME ~Done(snapshots[snap[c]]), ~Done(r) PROVE InventoryOf(snapshots') = InventoryOf(snapshots)
    <3>1. \A i \in DOMAIN snapshots : (Done(snapshots[i]) <=> Done(snapshots'[i]))
                                        /\ (Done(snapshots[i]) => snapshots'[i].sections = snapshots[i].sections)
      BY <1>2, <2>1
    <3>2. \A i \in DOMAIN snapshots' : i > Len(snapshots) => ~Done(snapshots'[i])
      BY <1>1, <1>2
    <3>3. /\ snapshots \in Seq(Collected) /\ snapshots' \in Seq(Collected)
          /\ Len(snapshots) <= Len(snapshots')
      BY <1>1, <1>2
    <3> HIDE <1>1, <1>2
    <3> QED
      BY <3>1, <3>2, <3>3, SameInventory
  <2> QED
    BY <2>1, GraphIs
<1>6. ReadAlone' /\ Inventory!HistoryIsCurrent'
  BY <1>3, <1>4, <1>5, ReadAloneKept
<1>7. HistoryTypes'
  <2>1. stale' \in [Collectors -> BOOLEAN] /\ current' \in [Inventory!Scopes -> BOOLEAN]
    BY MovesTyped DEF HistoryInv, HistoryTypes
  <2> QED
    BY <1>2, <1>3, <2>1 DEF HistoryInv, HistoryTypes
<1>8. InHand'
  <2>1. at[c] # "begin"
    BY DEF Collecting
  <2> QED
    BY <1>1, <1>3, <1>4, <2>1 DEF HistoryInv, InHand
<1>9. OwnSnapshot'
  BY <1>1, <1>2, <1>3 DEF HistoryInv, OwnSnapshot
<1>10. Inventory!SnapshotsAreWhole'
  BY <1>2, HistoryIs DEF HistoryInv, Inventory!HistoryHolds
<1> QED
  BY <1>6, <1>7, <1>8, <1>9, <1>10 DEF HistoryInv, Inventory!HistoryHolds

-----------------------------------------------------------------------------
(* The steps of a collection                                               *)

LEMMA PlanTyped == ASSUME NEW c \in Collectors PROVE Inventory!Plan(c[1]) \in Seq(Errands)
<1>1. c[1] \in {"round", "all", "device", "manual"}
  BY InventoryAssumption
<1>2. PICK k : k = c[1]
  OBVIOUS
<1>3. /\ <<>> \in Seq(Errands) /\ <<"collect">> \in Seq(Errands) /\ <<"all">> \in Seq(Errands)
      /\ <<"all", "device">> \in Seq(Errands)
      /\ <<"collect", "all", "endRound">> \in Seq(Errands)
      /\ <<"collect", "all", "device", "endJob">> \in Seq(Errands)
  BY DEF Errands
<1>4. \A s, t \in Seq(Errands) : s \o t \in Seq(Errands)
  BY ConcatProperties
<1>5. CASE k = "manual"
  BY <1>2, <1>3, <1>5 DEF Inventory!Plan
<1>6. CASE k = "round"
  BY <1>2, <1>3, <1>6 DEF Inventory!Plan
<1>7. CASE k = "all"
  <2>1. Inventory!Plan(c[1]) = (IF roundInFlight THEN <<>> ELSE <<"collect", "all", "endRound">>) \o <<"all">>
    BY <1>2, <1>7 DEF Inventory!Plan
  <2>2. (IF roundInFlight THEN <<>> ELSE <<"collect", "all", "endRound">>) \in Seq(Errands)
    BY <1>3
  <2> QED
    BY <1>3, <1>4, <2>1, <2>2
<1>8. CASE k = "device"
  <2>1. Inventory!Plan(c[1]) = (IF deviceJob THEN <<>> ELSE <<"collect", "all", "device", "endJob">>) \o <<"all", "device">>
    BY <1>2, <1>8 DEF Inventory!Plan
  <2>2. (IF deviceJob THEN <<>> ELSE <<"collect", "all", "device", "endJob">>) \in Seq(Errands)
    BY <1>3
  <2> QED
    BY <1>3, <1>4, <2>1, <2>2
<1> QED
  BY <1>1, <1>2, <1>5, <1>6, <1>7, <1>8

\* Sections are collected, the snapshot is finished or found to have failed.
LEMMA CollectionKeeps ==
  ASSUME HistoryInv, NEW c \in Collectors,
         \/ \E replied \in SUBSET Sections : Inventory!CollectSections(c, replied)
         \/ Inventory!Complete(c) \/ Inventory!Fail(c)
  PROVE  HistoryInv'
<1>1. /\ at[c] \in {"collect", "finish", "online"} /\ at[c] \in Collecting
      /\ UNCHANGED <<answers, link, status, rows, work, snap, seen, alone>>
  BY DEF Inventory!CollectSections, Inventory!Complete, Inventory!Fail, Inventory!Doing, Inventory!inputs,
         Inventory!captures, Collecting
<1>2. PICK r \in Collected : r = snapshots[snap[c]]
  BY <1>1 DEF HistoryInv, HistoryTypes, OwnSnapshot
<1>3. /\ answers \in Nat /\ snap[c] \in DOMAIN snapshots
      /\ (at[c] \in {"collect", "finish"} => r.status = "running") /\ snapshots \in Seq(Collected)
  BY <1>1, <1>2 DEF HistoryInv, HistoryTypes, OwnSnapshot
<1>4. CASE \E replied \in SUBSET Sections : Inventory!CollectSections(c, replied)
  <2>1. PICK replied \in SUBSET Sections : Inventory!CollectSections(c, replied)
    BY <1>4
  <2>2. PICK f : f = [s \in Sections |-> IF s \in replied THEN answers ELSE 0]
    OBVIOUS
  <2>3. PICK q : q = [r EXCEPT !.sections = f]
    OBVIOUS
  <2>4. f \in [Sections -> Nat]
    BY <1>3, <2>2
  <2>5. /\ q \in Collected /\ q.status = "running" /\ r.status = "running" /\ at[c] = "collect"
    BY <1>2, <1>3, <2>1, <2>3, <2>4 DEF Collected, Inventory!CollectSections
  <2>6. Whole(q) /\ ~Done(q) /\ ~Done(r)
    BY <2>5 DEF Whole, Done
  <2>7. snapshots' = [snapshots EXCEPT ![snap[c]] = q]
    BY <1>2, <1>3, <2>1, <2>2, <2>3 DEF Inventory!CollectSections
  <2>8. at' = [at EXCEPT ![c] = "finish"] /\ UNCHANGED <<stale, current>> /\ "finish" \in Collecting
    BY <2>1 DEF Inventory!CollectSections, Inventory!Goto, Inventory!captures, Collecting
  <2> QED
    BY <1>1, <1>2, <2>5, <2>6, <2>7, <2>8, SnapshotKeeps
<1>5. CASE Inventory!Complete(c)
  <2>1. PICK l : l = IF Inventory!Missing(snap[c]) = {} THEN "completed" ELSE "partial"
    OBVIOUS
  <2>2. PICK q : q = [r EXCEPT !.status = l]
    OBVIOUS
  <2>3. q \in Collected /\ q.status = l /\ q.sections = r.sections /\ l \in {"completed", "partial"}
    BY <1>2, <2>1, <2>2 DEF Collected
  <2>4. Inventory!Missing(snap[c]) = {s \in Required : q.sections[s] = 0}
    BY <1>2, <2>3 DEF Inventory!Missing
  <2>5. Whole(q)
    BY <2>1, <2>3, <2>4 DEF Whole
  <2>6. snapshots' = [snapshots EXCEPT ![snap[c]] = q]
    BY <1>2, <1>3, <1>5, <2>1, <2>2 DEF Inventory!Complete
  <2>7. at' = [at EXCEPT ![c] = "online"] /\ Inventory!GraphMoves /\ "online" \in Collecting
    BY <1>5 DEF Inventory!Complete, Inventory!Goto, Collecting
  <2> QED
    BY <1>1, <2>3, <2>5, <2>6, <2>7, SnapshotKeeps
<1>6. CASE Inventory!Fail(c)
  <2>1. PICK q : q = [r EXCEPT !.status = "failed"]
    OBVIOUS
  <2>2. q \in Collected /\ Whole(q)
    BY <1>2, <2>1 DEF Collected, Whole, Done
  <2>3. snapshots' = [snapshots EXCEPT ![snap[c]] = q]
    BY <1>2, <1>3, <1>6, <2>1 DEF Inventory!Fail
  <2>4. at' = [at EXCEPT ![c] = "offline"] /\ Inventory!GraphMoves /\ "offline" \in Collecting
    BY <1>6 DEF Inventory!Fail, Inventory!Goto, Collecting
  <2> QED
    BY <1>1, <2>2, <2>3, <2>4, SnapshotKeeps
<1> QED
  BY <1>4, <1>5, <1>6

\* A new snapshot is nobody else's, and not finished.
LEMMA CreateSnapshotKeeps ==
  ASSUME HistoryInv, NEW c \in Collectors, Inventory!CreateSnapshot(c) PROVE HistoryInv'
<1>1. PICK r : r = [status |-> "running", sections |-> [s \in Sections |-> 0]]
  OBVIOUS
<1>2. r \in Collected /\ ~Done(r) /\ Whole(r) /\ r.status = "running"
  BY <1>1 DEF Collected, Whole, Done
<1>3. /\ work[c] # <<>> /\ Head(work[c]) = "collect" /\ at[c] = "begin"
      /\ snapshots' = Append(snapshots, r) /\ snap' = [snap EXCEPT ![c] = Len(snapshots')]
      /\ at' = [at EXCEPT ![c] = "collect"]
      /\ UNCHANGED <<answers, link, status, rows, work, seen, alone, stale, current>>
  BY <1>1 DEF Inventory!CreateSnapshot, Inventory!Doing, Inventory!Goto, Inventory!inputs, Inventory!captures
<1>4. /\ snapshots \in Seq(Collected) /\ at \in [Collectors -> Collecting \cup Capturing \cup {"begin"}]
      /\ snap \in [Collectors -> Nat] /\ DOMAIN snapshots = 1 .. Len(snapshots) /\ Len(snapshots) \in Nat
  BY DEF HistoryInv, HistoryTypes
<1>5. /\ snapshots' \in Seq(Collected) /\ Len(snapshots') = Len(snapshots) + 1
      /\ DOMAIN snapshots' = 1 .. Len(snapshots) + 1
      /\ snapshots'[Len(snapshots) + 1] = r /\ \A i \in DOMAIN snapshots : snapshots'[i] = snapshots[i]
  BY <1>2, <1>3, <1>4
<1>6. /\ at'[c] = "collect" /\ snap'[c] = Len(snapshots) + 1
      /\ \A d \in Collectors : d # c => at'[d] = at[d] /\ snap'[d] = snap[d]
  BY <1>3, <1>4, <1>5
<1>7. "collect" \in Collecting /\ "collect" \notin Capturing /\ "collect" \notin Reading
  BY DEF Collecting, Capturing, Reading
<1>8. Inventory!Graph' = Inventory!Graph
  <2>1. \A i \in DOMAIN snapshots : (Done(snapshots[i]) <=> Done(snapshots'[i]))
                                      /\ (Done(snapshots[i]) => snapshots'[i].sections = snapshots[i].sections)
    BY <1>5
  <2>2. \A i \in DOMAIN snapshots' : i > Len(snapshots) => ~Done(snapshots'[i])
    <3> SUFFICES ASSUME NEW i \in 1 .. Len(snapshots) + 1, i > Len(snapshots) PROVE ~Done(snapshots'[i])
      BY <1>5
    <3>1. i = Len(snapshots) + 1
      BY <1>4
    <3> QED
      BY <1>2, <1>5, <3>1
  <2>3. /\ snapshots \in Seq(Collected) /\ snapshots' \in Seq(Collected)
        /\ Len(snapshots) <= Len(snapshots')
    BY <1>4, <1>5
  <2>4. InventoryOf(snapshots') = InventoryOf(snapshots)
    BY <2>1, <2>2, <2>3, SameInventory
  <2> QED
    BY <1>3, <2>4, GraphIs
<1>9. ReadAlone' /\ Inventory!HistoryIsCurrent'
  BY <1>3, <1>6, <1>7, <1>8, ReadAloneKept
<1>10. HistoryTypes'
  <2>1. at' \in [Collectors -> Collecting \cup Capturing \cup {"begin"}]
    BY <1>3, <1>4, <1>7
  <2>2. snap' \in [Collectors -> Nat]
    BY <1>3, <1>4, <1>5
  <2> QED
    BY <1>3, <1>5, <2>1, <2>2 DEF HistoryInv, HistoryTypes
<1>11. InHand'
  BY <1>3, <1>6, <1>7 DEF HistoryInv, InHand
<1>12. OwnSnapshot'
  <2>1. \A d \in Collectors : d # c /\ at'[d] \in Collecting =>
          /\ snap'[d] \in 1 .. Len(snapshots) /\ snap'[d] # Len(snapshots) + 1
          /\ at[d] \in Collecting /\ at'[d] = at[d] /\ snap'[d] = snap[d]
    BY <1>4, <1>6 DEF HistoryInv, OwnSnapshot
  <2>2. \A d \in Collectors : at'[d] \in Collecting =>
          /\ snap'[d] \in 1 .. Len(snapshots')
          /\ at'[d] \in {"collect", "finish"} => snapshots'[snap'[d]].status = "running"
    <3> SUFFICES ASSUME NEW d \in Collectors, at'[d] \in Collecting
                 PROVE  /\ snap'[d] \in 1 .. Len(snapshots')
                        /\ at'[d] \in {"collect", "finish"} => snapshots'[snap'[d]].status = "running"
      OBVIOUS
    <3>1. CASE d = c
      BY <1>2, <1>4, <1>5, <1>6, <3>1
    <3>2. CASE d # c
      <4>1. snap[d] \in 1 .. Len(snapshots) /\ snap[d] \in 1 .. Len(snapshots') /\ snap'[d] = snap[d]
        BY <1>4, <1>5, <2>1, <3>2
      <4>2. snapshots'[snap[d]] = snapshots[snap[d]]
        BY <1>4, <1>5, <4>1
      <4> QED
        BY <2>1, <3>2, <4>1, <4>2 DEF HistoryInv, OwnSnapshot
    <3> QED
      BY <3>1, <3>2
  <2>3. \A d, e \in Collectors : d # e /\ at'[d] \in Collecting /\ at'[e] \in Collecting => snap'[d] # snap'[e]
    BY <1>6, <2>1 DEF HistoryInv, OwnSnapshot
  <2> QED
    BY <2>2, <2>3 DEF OwnSnapshot
<1>13. Inventory!SnapshotsAreWhole'
  <2>1. \A i \in DOMAIN snapshots : Whole(snapshots[i])
    BY HistoryIs DEF HistoryInv, Inventory!HistoryHolds
  <2>2. \A i \in 1 .. Len(snapshots) + 1 : i \in DOMAIN snapshots \/ i = Len(snapshots) + 1
    BY <1>4
  <2>3. \A i \in DOMAIN snapshots' : Whole(snapshots'[i])
    BY <1>2, <1>5, <2>1, <2>2
  <2> QED
    BY <2>3, HistoryIs
<1> QED
  BY <1>9, <1>10, <1>11, <1>12, <1>13 DEF HistoryInv, Inventory!HistoryHolds

\* Nobody's snapshot and no row changes.
LEMMA ApartKeeps ==
  ASSUME HistoryInv,
         \/ Inventory!World \/ Inventory!Restart
         \/ \E c \in Collectors : \/ Inventory!Begin(c) \/ Inventory!EndGuard(c) \/ Inventory!MarkDevice(c)
                                  \/ Inventory!FailsTwice(c) \/ Inventory!CaptureFails(c)
         \/ UNCHANGED inventoryVars
  PROVE  HistoryInv'
<1>1. /\ answers \in Nat /\ link \in BOOLEAN /\ status \in {"unknown", "online", "offline"}
      /\ work \in [Collectors -> Seq(Errands)]
      /\ at \in [Collectors -> Collecting \cup Capturing \cup {"begin"}]
      /\ snap \in [Collectors -> Nat] /\ seen \in [Collectors -> Graphs]
      /\ stale \in [Collectors -> BOOLEAN] /\ alone \in [Collectors -> BOOLEAN]
      /\ current \in [Inventory!Scopes -> BOOLEAN]
      /\ HistoryTypes
  BY DEF HistoryInv, HistoryTypes
<1>2. Inventory!NoGraph \in Graphs
  BY DEF Inventory!NoGraph, Graphs
<1>3. CASE Inventory!World
  <2>1. /\ UNCHANGED <<status, snapshots, rows, work, at, snap, seen, alone>> /\ Inventory!GraphMoves
        /\ (answers' = answers + 1 /\ link' = link) \/ (link' = ~link /\ answers' = answers)
    BY <1>3 DEF Inventory!World, Inventory!flags
  <2>2. answers' \in Nat /\ link' \in BOOLEAN
    <3>1. answers' = answers \/ answers' = answers + 1
      BY <2>1
    <3>2. link' \in BOOLEAN
      BY <1>1, <2>1, Zenon
    <3> QED
      BY <1>1, <3>1, <3>2
  <2>3. HistoryTypes'
    BY <1>1, <2>1, <2>2, MovesTyped DEF HistoryTypes
  <2> QED
    BY <2>1, <2>3, LeavingKeeps
<1>4. CASE Inventory!Restart
  <2>1. /\ UNCHANGED <<answers, link, status, snapshots, rows, current>>
        /\ work' = [c \in Collectors |-> <<>>] /\ at' = [c \in Collectors |-> "begin"]
        /\ snap' = [c \in Collectors |-> 0] /\ seen' = [c \in Collectors |-> Inventory!NoGraph]
        /\ stale' = [c \in Collectors |-> FALSE] /\ alone' = [c \in Collectors |-> TRUE]
    BY <1>4 DEF Inventory!Restart, Inventory!inputs
  <2>2. /\ work' \in [Collectors -> Seq(Errands)] /\ at' \in [Collectors -> Collecting \cup Capturing \cup {"begin"}]
        /\ snap' \in [Collectors -> Nat] /\ seen' \in [Collectors -> Graphs]
        /\ stale' \in [Collectors -> BOOLEAN] /\ alone' \in [Collectors -> BOOLEAN]
    BY <1>2, <2>1
  <2>3. HistoryTypes'
    BY <1>1, <2>1, <2>2 DEF HistoryTypes
  <2>4. \A d \in Collectors : at'[d] = "begin"
    BY <2>1
  <2> QED
    BY <2>1, <2>3, <2>4, LeavingKeeps
<1>5. ASSUME NEW c \in Collectors,
             \/ Inventory!Begin(c) \/ Inventory!EndGuard(c) \/ Inventory!MarkDevice(c)
             \/ Inventory!FailsTwice(c) \/ Inventory!CaptureFails(c)
      PROVE  HistoryInv'
  <2>1. /\ UNCHANGED <<answers, link, snapshots, rows>>
        /\ \/ Inventory!GraphMoves /\ at[c] \in {"online", "offline"} /\ status' = at[c]
           \/ UNCHANGED <<status, current>> /\ (stale' = stale \/ stale' = [stale EXCEPT ![c] = FALSE])
    BY <1>5 DEF Inventory!Begin, Inventory!EndGuard, Inventory!MarkDevice, Inventory!FailsTwice,
       Inventory!CaptureFails, Inventory!inputs, Inventory!captures
  <2>2. /\ seen' = seen \/ seen' = [seen EXCEPT ![c] = Inventory!NoGraph]
        /\ alone' = alone \/ alone' = [alone EXCEPT ![c] = TRUE]
        /\ snap' = snap \/ snap' = [snap EXCEPT ![c] = 0]
    BY <1>5 DEF Inventory!Begin, Inventory!EndGuard, Inventory!MarkDevice, Inventory!FailsTwice,
       Inventory!CaptureFails, Inventory!captures
  <2>3. PICK w \in Seq(Errands) :
          work' = [work EXCEPT ![c] = w] /\ at' = [at EXCEPT ![c] = "begin"]
    <3>1. work[c] \in Seq(Errands)
      BY <1>1
    <3>2. <<>> \in Seq(Errands) /\ <<"endJob">> \in Seq(Errands)
      BY DEF Errands
    <3>3. work[c] # <<>> => Tail(work[c]) \in Seq(Errands)
      BY <3>1
    <3>4. CASE Inventory!Begin(c)
      <4>1. work[c] = <<>> /\ work' = [work EXCEPT ![c] = Inventory!Plan(c[1])] /\ at' = at
        BY <3>4 DEF Inventory!Begin
      <4>2. at[c] = "begin"
        BY <4>1 DEF HistoryInv, InHand
      <4>3. at' = [at EXCEPT ![c] = "begin"]
        BY <1>1, <4>1, <4>2
      <4> QED
        BY <4>1, <4>3, PlanTyped
    <3>5. CASE Inventory!EndGuard(c) \/ Inventory!MarkDevice(c)
      BY <3>3, <3>5 DEF Inventory!EndGuard, Inventory!MarkDevice, Inventory!Doing, Inventory!Done, Inventory!Goto
    <3>6. CASE Inventory!FailsTwice(c) \/ Inventory!CaptureFails(c)
      <4>1. work[c] # <<>> /\ Inventory!Rejects(c)
        BY <3>6 DEF Inventory!FailsTwice, Inventory!CaptureFails, Inventory!Doing, Inventory!Capturing
      <4>2. \/ work' = [work EXCEPT ![c] = Tail(work[c])]
            \/ work' = [work EXCEPT ![c] = <<"endJob">>]
            \/ work' = [work EXCEPT ![c] = <<>>]
        BY <1>1, <4>1 DEF Inventory!Rejects
      <4> QED
        BY <3>2, <3>3, <4>1, <4>2 DEF Inventory!Rejects, Inventory!Goto
    <3> QED
      BY <1>5, <3>4, <3>5, <3>6
  <2>4. /\ work' \in [Collectors -> Seq(Errands)] /\ at' \in [Collectors -> Collecting \cup Capturing \cup {"begin"}]
        /\ snap' \in [Collectors -> Nat] /\ seen' \in [Collectors -> Graphs] /\ alone' \in [Collectors -> BOOLEAN]
    <3>1. work' \in [Collectors -> Seq(Errands)]
      BY <1>1, <2>3
    <3>2. at' \in [Collectors -> Collecting \cup Capturing \cup {"begin"}]
      <4>1. PICK L : L = Collecting \cup Capturing \cup {"begin"}
        OBVIOUS
      <4>2. at \in [Collectors -> L] /\ "begin" \in L
        BY <1>1, <4>1, Zenon
      <4>3. at' = [at EXCEPT ![c] = "begin"]
        BY <2>3
      <4>4. at' \in [Collectors -> L]
        BY <4>2, <4>3
      <4> QED
        BY <4>1, <4>4
    <3>3. snap' \in [Collectors -> Nat]
      <4>1. snap \in [Collectors -> Nat] /\ (snap' = snap \/ snap' = [snap EXCEPT ![c] = 0])
        BY <1>1, <2>2
      <4> QED
        BY <4>1
    <3>4. seen' \in [Collectors -> Graphs]
      BY <1>1, <1>2, <2>2
    <3>5. alone' \in [Collectors -> BOOLEAN]
      BY <1>1, <2>2
    <3> QED
      BY <3>1, <3>2, <3>3, <3>4, <3>5
  <2>5. /\ stale' \in [Collectors -> BOOLEAN] /\ current' \in [Inventory!Scopes -> BOOLEAN]
        /\ status' \in {"unknown", "online", "offline"}
    BY <1>1, <2>1, MovesTyped
  <2>6. HistoryTypes'
    BY <1>1, <2>1, <2>4, <2>5 DEF HistoryTypes
  <2>7. \A d \in Collectors : at'[d] # "begin" =>
          /\ d # c /\ at'[d] = at[d] /\ work'[d] = work[d] /\ snap'[d] = snap[d] /\ seen'[d] = seen[d]
          /\ alone'[d] = alone[d]
    BY <1>1, <2>2, <2>3
  <2>8. \/ Inventory!GraphMoves
        \/ UNCHANGED <<link, status, current>> /\ \A d \in Collectors : at'[d] # "begin" => stale'[d] = stale[d]
    BY <1>1, <2>1, <2>7
  <2> QED
    BY <2>1, <2>6, <2>7, <2>8, LeavingKeeps
<1>6. CASE UNCHANGED inventoryVars
  <2>1. UNCHANGED <<answers, link, status, snapshots, rows, work, at, snap, seen, stale, alone, current>>
    BY <1>6 DEF inventoryVars
  <2>2. HistoryTypes'
    BY <1>1, <2>1 DEF HistoryTypes
  <2> QED
    BY <2>1, <2>2, LeavingKeeps
<1> QED
  BY <1>3, <1>4, <1>5, <1>6

-----------------------------------------------------------------------------
(* The steps of a capture                                                  *)

\* A capture reads, compares, stores and prunes; nothing it reads moves with it.
LEMMA CaptureStep ==
  ASSUME HistoryInv, NEW c \in Collectors, NEW s \in Inventory!Scopes, Inventory!Capturing(c, s),
         UNCHANGED <<answers, link, status, snapshots, snap>>,
         NEW l \in Capturing \cup {"begin"}, at' = [at EXCEPT ![c] = l],
         work' = work \/ (l = "begin" /\ work' = [work EXCEPT ![c] = Tail(@)])
  PROVE  /\ InHand' /\ OwnSnapshot' /\ Inventory!SnapshotsAreWhole' /\ Inventory!Graph' = Inventory!Graph
         /\ work' \in [Collectors -> Seq(Errands)]
         /\ at' \in [Collectors -> Collecting \cup Capturing \cup {"begin"}]
         /\ at'[c] = l /\ Head(work[c]) = s /\ work[c] # <<>>
         /\ \A d \in Collectors : d # c => at'[d] = at[d] /\ work'[d] = work[d]
<1>1. work[c] # <<>> /\ Head(work[c]) = s /\ s \in {"all", "device"}
  BY InventorySizes DEF Inventory!Capturing, Inventory!Doing
<1>2. /\ work \in [Collectors -> Seq(Errands)] /\ at \in [Collectors -> Collecting \cup Capturing \cup {"begin"}]
      /\ work[c] \in Seq(Errands)
  BY DEF HistoryInv, HistoryTypes
<1>3. /\ work' \in [Collectors -> Seq(Errands)] /\ at' \in [Collectors -> Collecting \cup Capturing \cup {"begin"}]
      /\ at'[c] = l /\ \A d \in Collectors : d # c => at'[d] = at[d] /\ work'[d] = work[d]
  <2>1. Tail(work[c]) \in Seq(Errands)
    BY <1>1, <1>2
  <2>2. work' = work \/ work' = [work EXCEPT ![c] = Tail(work[c])]
    BY <1>2
  <2>3. work' \in [Collectors -> Seq(Errands)] /\ \A d \in Collectors : d # c => work'[d] = work[d]
    BY <1>2, <2>1, <2>2
  <2>4. /\ at' \in [Collectors -> Collecting \cup Capturing \cup {"begin"}]
        /\ at'[c] = l /\ \A d \in Collectors : d # c => at'[d] = at[d]
    BY <1>2
  <2> QED
    BY <2>3, <2>4
<1>4. l \notin Collecting /\ "begin" \notin Capturing
  BY DEF Collecting, Capturing, Reading
<1>5. InHand'
  <2>1. l # "begin" => work'[c] = work[c]
    OBVIOUS
  <2>2. \A d \in Collectors : d # c =>
          /\ at'[d] # "begin" => work'[d] # <<>>
          /\ at'[d] \in Collecting => Head(work'[d]) = "collect"
          /\ at'[d] \in Capturing => Head(work'[d]) \in Inventory!Scopes
    BY <1>3 DEF HistoryInv, InHand
  <2>3. /\ at'[c] # "begin" => work'[c] # <<>>
        /\ at'[c] \notin Collecting
        /\ at'[c] \in Capturing => Head(work'[c]) \in Inventory!Scopes
    BY <1>1, <1>3, <1>4, <2>1
  <2> QED
    BY <2>2, <2>3 DEF InHand
<1>6. OwnSnapshot'
  BY <1>3, <1>4 DEF HistoryInv, OwnSnapshot
<1>7. Inventory!SnapshotsAreWhole' /\ Inventory!Graph' = Inventory!Graph
  BY HistoryIs, GraphIs DEF HistoryInv, Inventory!HistoryHolds
<1> QED
  BY <1>1, <1>3, <1>5, <1>6, <1>7

\* What is read is right, until the graph moves.
LEMMA ReadKeeps ==
  ASSUME HistoryInv, NEW c \in Collectors, NEW s \in Inventory!Scopes,
         Inventory!ReadDevices(c, s) \/ Inventory!ReadGraph(c, s)
  PROVE  HistoryInv'
<1>1. PICK l \in {"load", "compare"} :
        /\ Inventory!Capturing(c, s) /\ at' = [at EXCEPT ![c] = l]
        /\ UNCHANGED <<answers, link, status, snapshots, snap, rows, work, stale, alone, current>>
        /\ \/ /\ at[c] = "begin" /\ l = "load"
              /\ seen' = [seen EXCEPT ![c] = [Inventory!NoGraph EXCEPT !.status = status]]
           \/ /\ at[c] = "load" /\ l = "compare"
              /\ seen' = [seen EXCEPT ![c].inventory = Inventory!Inventory, ![c].link = link]
  BY DEF Inventory!ReadDevices, Inventory!ReadGraph, Inventory!Goto, Inventory!inputs
<1>2. l \in Capturing \cup {"begin"}
  BY <1>1 DEF Capturing, Reading
<1>3. /\ InHand' /\ OwnSnapshot' /\ Inventory!SnapshotsAreWhole' /\ Inventory!Graph' = Inventory!Graph
      /\ at' \in [Collectors -> Collecting \cup Capturing \cup {"begin"}]
      /\ at'[c] = l /\ \A d \in Collectors : d # c => at'[d] = at[d] /\ work'[d] = work[d]
  BY <1>1, <1>2, CaptureStep
<1>4. /\ seen \in [Collectors -> Graphs] /\ seen[c] \in Graphs /\ link \in BOOLEAN
      /\ status \in {"unknown", "online", "offline"} /\ snapshots \in Seq(Collected)
  BY DEF HistoryInv, HistoryTypes
<1>5. Inventory!Inventory \in [Sections -> Nat] \cup {<<>>}
  <2>1. Inventory!Inventory = InventoryOf(snapshots)
    BY DEF Inventory!Inventory, Inventory!Finished, InventoryOf, Done
  <2> QED
    BY <1>4, <2>1, InventoryTyped
<1>6. PICK g \in Graphs :
        /\ seen' = [seen EXCEPT ![c] = g]
        /\ l = "load" => g.status = status
        /\ l = "compare" => (at[c] = "load" /\ (seen[c].status = status => g = Inventory!Graph))
  <2>1. CASE at[c] = "begin" /\ l = "load" /\ seen' = [seen EXCEPT ![c] = [Inventory!NoGraph EXCEPT !.status = status]]
    <3>1. PICK g : g = [Inventory!NoGraph EXCEPT !.status = status]
      OBVIOUS
    <3>2. g \in Graphs /\ g.status = status
      BY <1>4, <3>1 DEF Inventory!NoGraph, Graphs
    <3> QED
      BY <2>1, <3>1, <3>2
  <2>2. CASE at[c] = "load" /\ l = "compare"
             /\ seen' = [seen EXCEPT ![c].inventory = Inventory!Inventory, ![c].link = link]
    <3>1. PICK g : g = [seen[c] EXCEPT !.inventory = Inventory!Inventory, !.link = link]
      OBVIOUS
    <3>2. seen' = [seen EXCEPT ![c] = g]
      BY <1>4, <2>2, <3>1
    <3>3. g \in Graphs
      BY <1>4, <1>5, <3>1 DEF Graphs
    <3>4. seen[c].status = status => g = Inventory!Graph
      BY <1>4, <3>1 DEF Graphs, Inventory!Graph
    <3> QED
      BY <2>2, <3>2, <3>3, <3>4
  <2> QED
    BY <1>1, <2>1, <2>2
<1>7. seen' \in [Collectors -> Graphs] /\ seen'[c] = g /\ \A d \in Collectors : d # c => seen'[d] = seen[d]
  BY <1>4, <1>6
<1>8. HistoryTypes'
  BY <1>1, <1>3, <1>7 DEF HistoryInv, HistoryTypes
<1>9. ReadAlone'
  <2>1. \A d \in Collectors : d # c =>
          /\ at'[d] = "load" /\ ~stale'[d] => seen'[d].status = status'
          /\ at'[d] \in {"compare", "create"} /\ ~stale'[d] => seen'[d] = Inventory!Graph'
          /\ at'[d] = "create" /\ alone'[d] =>
               \A t \in Inventory!Scopes : Head(work'[d]) = t =>
                 rows'[t] = <<>> \/ rows'[t][Len(rows'[t])].graph # seen'[d]
    BY <1>1, <1>3, <1>7 DEF HistoryInv, ReadAlone
  <2>2. /\ at'[c] = "load" /\ ~stale'[c] => seen'[c].status = status'
        /\ at'[c] \in {"compare", "create"} /\ ~stale'[c] => seen'[c] = Inventory!Graph'
        /\ at'[c] # "create"
    <3>1. at[c] = "load" /\ ~stale[c] => seen[c].status = status
      BY DEF HistoryInv, ReadAlone
    <3> QED
      BY <1>1, <1>3, <1>6, <1>7, <3>1
  <2> QED
    BY <2>1, <2>2 DEF ReadAlone
<1>10. Inventory!HistoryIsCurrent'
  BY <1>1, <1>3 DEF HistoryInv, Inventory!HistoryHolds, Inventory!HistoryIsCurrent, Inventory!Last
<1> QED
  BY <1>3, <1>8, <1>9, <1>10 DEF HistoryInv, Inventory!HistoryHolds

\* The newest row is the graph that was read, or it is to be stored.
LEMMA CompareKeeps ==
  ASSUME HistoryInv, NEW c \in Collectors, NEW s \in Inventory!Scopes, Inventory!Compare(c, s)
  PROVE  HistoryInv'
<1>1. /\ Inventory!Capturing(c, s) /\ at[c] = "compare"
      /\ UNCHANGED <<answers, link, status, snapshots, snap, rows>>
  BY DEF Inventory!Compare, Inventory!inputs
<1>2. /\ seen \in [Collectors -> Graphs] /\ stale \in [Collectors -> BOOLEAN] /\ alone \in [Collectors -> BOOLEAN]
      /\ current \in [Inventory!Scopes -> BOOLEAN] /\ Inventory!NoGraph \in Graphs
      /\ ~stale[c] => seen[c] = Inventory!Graph
  BY <1>1 DEF HistoryInv, HistoryTypes, ReadAlone, Inventory!NoGraph, Graphs
<1>3. CASE Inventory!Known(c, s)
  <2>1. /\ work' = [work EXCEPT ![c] = Tail(@)] /\ at' = [at EXCEPT ![c] = "begin"]
        /\ current' = [current EXCEPT ![s] = ~stale[c]]
        /\ seen' = [seen EXCEPT ![c] = Inventory!NoGraph] /\ stale' = [stale EXCEPT ![c] = FALSE]
        /\ alone' = [alone EXCEPT ![c] = TRUE]
        /\ rows[s] # <<>> /\ rows[s][Len(rows[s])].graph = seen[c]
    BY <1>3 DEF Inventory!Compare, Inventory!Done, Inventory!Goto, Inventory!Settle, Inventory!Known, Inventory!Last
  <2>2. /\ InHand' /\ OwnSnapshot' /\ Inventory!SnapshotsAreWhole' /\ Inventory!Graph' = Inventory!Graph
        /\ work' \in [Collectors -> Seq(Errands)]
        /\ at' \in [Collectors -> Collecting \cup Capturing \cup {"begin"}]
        /\ at'[c] = "begin" /\ \A d \in Collectors : d # c => at'[d] = at[d] /\ work'[d] = work[d]
    BY <1>1, <2>1, CaptureStep
  <2>3. /\ seen' \in [Collectors -> Graphs] /\ stale' \in [Collectors -> BOOLEAN] /\ alone' \in [Collectors -> BOOLEAN]
        /\ \A d \in Collectors : d # c => seen'[d] = seen[d] /\ stale'[d] = stale[d] /\ alone'[d] = alone[d]
    BY <1>2, <2>1
  <2>4. /\ current' \in [Inventory!Scopes -> BOOLEAN]
        /\ current'[s] => ~stale[c]
        /\ \A t \in Inventory!Scopes : t # s => current'[t] = current[t]
    BY <1>2, <2>1
  <2>5. HistoryTypes'
    BY <1>1, <2>2, <2>3, <2>4 DEF HistoryInv, HistoryTypes
  <2>6. ReadAlone'
    <3>1. ASSUME NEW d \in Collectors, d # c
          PROVE  /\ at'[d] = "load" /\ ~stale'[d] => seen'[d].status = status'
                 /\ at'[d] \in {"compare", "create"} /\ ~stale'[d] => seen'[d] = Inventory!Graph'
                 /\ at'[d] = "create" /\ alone'[d] =>
                      \A t \in Inventory!Scopes : Head(work'[d]) = t =>
                        rows'[t] = <<>> \/ rows'[t][Len(rows'[t])].graph # seen'[d]
      <4>1. /\ at'[d] = at[d] /\ work'[d] = work[d] /\ seen'[d] = seen[d] /\ stale'[d] = stale[d]
            /\ alone'[d] = alone[d] /\ status' = status /\ rows' = rows /\ Inventory!Graph' = Inventory!Graph
        BY <1>1, <2>2, <2>3, <3>1
      <4> QED
        BY <4>1 DEF HistoryInv, ReadAlone
    <3> QED
      BY <2>2, <3>1 DEF ReadAlone
  <2>7. Inventory!HistoryIsCurrent'
    <3>1. \A t \in Inventory!Scopes : current'[t] =>
            rows'[t] # <<>> /\ rows'[t][Len(rows'[t])].graph = Inventory!Graph'
      BY <1>1, <1>2, <2>1, <2>2, <2>4
      DEF HistoryInv, Inventory!HistoryHolds, Inventory!HistoryIsCurrent, Inventory!Last
    <3> QED
      BY <1>1, <3>1 DEF HistoryInv, Inventory!HistoryHolds, Inventory!HistoryIsCurrent, Inventory!Last
  <2> QED
    BY <2>2, <2>5, <2>6, <2>7 DEF HistoryInv, Inventory!HistoryHolds
<1>4. CASE ~Inventory!Known(c, s)
  <2>1. /\ at' = [at EXCEPT ![c] = "create"]
        /\ UNCHANGED <<work, current, seen, stale, alone>>
        /\ rows[s] = <<>> \/ rows[s][Len(rows[s])].graph # seen[c]
    BY <1>4 DEF Inventory!Compare, Inventory!Goto, Inventory!Known, Inventory!Last
  <2>2. "create" \in Capturing \cup {"begin"}
    BY DEF Capturing, Reading
  <2>3. /\ InHand' /\ OwnSnapshot' /\ Inventory!SnapshotsAreWhole' /\ Inventory!Graph' = Inventory!Graph
        /\ at' \in [Collectors -> Collecting \cup Capturing \cup {"begin"}]
        /\ at'[c] = "create" /\ Head(work[c]) = s
        /\ \A d \in Collectors : d # c => at'[d] = at[d] /\ work'[d] = work[d]
    BY <1>1, <2>1, <2>2, CaptureStep
  <2>4. HistoryTypes'
    BY <1>1, <2>1, <2>3 DEF HistoryInv, HistoryTypes
  <2>5. ReadAlone'
    <3>1. \A d \in Collectors : d # c =>
            /\ at'[d] = "load" /\ ~stale'[d] => seen'[d].status = status'
            /\ at'[d] \in {"compare", "create"} /\ ~stale'[d] => seen'[d] = Inventory!Graph'
            /\ at'[d] = "create" /\ alone'[d] =>
                 \A t \in Inventory!Scopes : Head(work'[d]) = t =>
                   rows'[t] = <<>> \/ rows'[t][Len(rows'[t])].graph # seen'[d]
      BY <1>1, <2>1, <2>3 DEF HistoryInv, ReadAlone
    <3>2. /\ at'[c] = "create" /\ work' = work /\ rows' = rows /\ seen' = seen /\ stale' = stale
      BY <1>1, <2>1, <2>3
    <3> QED
      BY <1>2, <2>1, <2>3, <3>1, <3>2 DEF ReadAlone
  <2>6. Inventory!HistoryIsCurrent'
    BY <1>1, <2>1, <2>3 DEF HistoryInv, Inventory!HistoryHolds, Inventory!HistoryIsCurrent, Inventory!Last
  <2> QED
    BY <2>3, <2>4, <2>5, <2>6 DEF HistoryInv, Inventory!HistoryHolds
<1> QED
  BY <1>3, <1>4

\* A row is stored after one that differs, unless another came between: its caller
\* knows that one did.
LEMMA CreateKeeps ==
  ASSUME HistoryInv, NEW c \in Collectors, NEW s \in Inventory!Scopes, Inventory!Create(c, s)
  PROVE  HistoryInv'
<1>1. /\ Inventory!Capturing(c, s) /\ at[c] = "create" /\ at' = [at EXCEPT ![c] = "prune"]
      /\ UNCHANGED <<answers, link, status, snapshots, snap, work>>
      /\ current' = [current EXCEPT ![s] = ~stale[c]]
      /\ seen' = [seen EXCEPT ![c] = Inventory!NoGraph] /\ stale' = [stale EXCEPT ![c] = FALSE]
      /\ alone' = [d \in Collectors |-> d = c \/ (alone[d] /\ ~(Inventory!Doing(d, s) /\ at[d] \in {"load", "compare", "create"}))]
  BY DEF Inventory!Create, Inventory!Goto, Inventory!Settle, Inventory!inputs
<1>2. /\ seen \in [Collectors -> Graphs] /\ stale \in [Collectors -> BOOLEAN] /\ alone \in [Collectors -> BOOLEAN]
      /\ current \in [Inventory!Scopes -> BOOLEAN] /\ Inventory!NoGraph \in Graphs
      /\ rows \in [Inventory!Scopes -> Seq(GraphRows)] /\ seen[c] \in Graphs /\ alone[c] \in BOOLEAN
      /\ ~stale[c] => seen[c] = Inventory!Graph
  BY <1>1 DEF HistoryInv, HistoryTypes, ReadAlone, Inventory!NoGraph, Graphs
<1>3. "prune" \in Capturing \cup {"begin"}
  BY DEF Capturing
<1>4. /\ InHand' /\ OwnSnapshot' /\ Inventory!SnapshotsAreWhole' /\ Inventory!Graph' = Inventory!Graph
      /\ at' \in [Collectors -> Collecting \cup Capturing \cup {"begin"}]
      /\ at'[c] = "prune" /\ Head(work[c]) = s
      /\ \A d \in Collectors : d # c => at'[d] = at[d] /\ work'[d] = work[d]
  BY <1>1, <1>3, CaptureStep
<1>5. PICK r : r = [graph |-> seen[c], alone |-> alone[c]]
  OBVIOUS
<1>6. r \in GraphRows /\ r.graph = seen[c] /\ r.alone = alone[c]
  BY <1>2, <1>5 DEF GraphRows
<1>7. rows' = [rows EXCEPT ![s] = Append(rows[s], r)]
  BY <1>2, <1>5 DEF Inventory!Create
<1>8. /\ rows' \in [Inventory!Scopes -> Seq(GraphRows)] /\ rows'[s] = Append(rows[s], r)
      /\ \A t \in Inventory!Scopes : t # s => rows'[t] = rows[t]
  BY <1>2, <1>6, <1>7
<1>9. /\ rows[s] \in Seq(GraphRows) /\ rows'[s] \in Seq(GraphRows) /\ Len(rows[s]) \in Nat
      /\ Len(rows'[s]) = Len(rows[s]) + 1 /\ rows'[s] # <<>>
      /\ rows'[s][Len(rows[s]) + 1] = r
      /\ \A i \in 1 .. Len(rows[s]) : rows'[s][i] = rows[s][i]
  BY <1>2, <1>6, <1>8
<1>10. /\ seen' \in [Collectors -> Graphs] /\ stale' \in [Collectors -> BOOLEAN]
       /\ \A d \in Collectors : d # c => seen'[d] = seen[d] /\ stale'[d] = stale[d]
  BY <1>1, <1>2
<1>11. /\ alone' \in [Collectors -> BOOLEAN]
       /\ \A d \in Collectors : d # c /\ alone'[d] => alone[d] /\ ~(Inventory!Doing(d, s) /\ at[d] = "create")
  BY <1>1, Zenon
<1>12. /\ current' \in [Inventory!Scopes -> BOOLEAN]
       /\ current'[s] => ~stale[c]
       /\ \A t \in Inventory!Scopes : t # s => current'[t] = current[t]
  BY <1>1, <1>2
<1>13. HistoryTypes'
  BY <1>1, <1>4, <1>8, <1>10, <1>11, <1>12 DEF HistoryInv, HistoryTypes
<1>14. ReadAlone'
  <2>1. ASSUME NEW d \in Collectors, d # c
        PROVE  /\ at'[d] = "load" /\ ~stale'[d] => seen'[d].status = status'
               /\ at'[d] \in {"compare", "create"} /\ ~stale'[d] => seen'[d] = Inventory!Graph'
               /\ at'[d] = "create" /\ alone'[d] =>
                    \A t \in Inventory!Scopes : Head(work'[d]) = t =>
                      rows'[t] = <<>> \/ rows'[t][Len(rows'[t])].graph # seen'[d]
    <3>1. /\ at'[d] = at[d] /\ work'[d] = work[d] /\ seen'[d] = seen[d] /\ stale'[d] = stale[d]
          /\ status' = status /\ Inventory!Graph' = Inventory!Graph
      BY <1>1, <1>4, <1>10, <2>1
    <3>2. /\ at[d] = "load" /\ ~stale[d] => seen[d].status = status
          /\ at[d] \in {"compare", "create"} /\ ~stale[d] => seen[d] = Inventory!Graph
          /\ at[d] = "create" /\ alone[d] =>
               \A t \in Inventory!Scopes : Head(work[d]) = t =>
                 rows[t] = <<>> \/ rows[t][Len(rows[t])].graph # seen[d]
      BY DEF HistoryInv, ReadAlone
    <3>3. at[d] = "create" /\ alone'[d] => alone[d] /\ Head(work[d]) # s
      <4>1. at[d] = "create" => work[d] # <<>>
        BY DEF HistoryInv, InHand
      <4> QED
        BY <1>11, <2>1, <4>1 DEF Inventory!Doing
    <3>4. at[d] = "create" /\ alone'[d] =>
            \A t \in Inventory!Scopes : Head(work[d]) = t =>
              rows'[t] = <<>> \/ rows'[t][Len(rows'[t])].graph # seen[d]
      BY <1>8, <3>2, <3>3
    <3> QED
      BY <3>1, <3>2, <3>4
  <2> QED
    BY <1>4, <2>1 DEF ReadAlone
<1>15. Inventory!HistoryIsCurrent'
  <2>1. \A t \in Inventory!Scopes : current'[t] => rows'[t] # <<>> /\ rows'[t][Len(rows'[t])].graph = Inventory!Graph'
    <3> SUFFICES ASSUME NEW t \in Inventory!Scopes, current'[t]
                 PROVE  rows'[t] # <<>> /\ rows'[t][Len(rows'[t])].graph = Inventory!Graph'
      OBVIOUS
    <3>1. CASE t = s
      BY <1>2, <1>4, <1>6, <1>9, <1>12, <3>1
    <3>2. CASE t # s
      BY <1>4, <1>8, <1>12, <3>2
      DEF HistoryInv, Inventory!HistoryHolds, Inventory!HistoryIsCurrent, Inventory!Last
    <3> QED
      BY <3>1, <3>2
  <2>2. ASSUME NEW t \in Inventory!Scopes, NEW i \in 2 .. Len(rows'[t]), rows'[t][i].alone
        PROVE  rows'[t][i].graph # rows'[t][i - 1].graph
    <3>1. CASE t # s
      <4>1. rows'[t] = rows[t]
        BY <1>8, <3>1
      <4> QED
        BY <2>2, <4>1 DEF HistoryInv, Inventory!HistoryHolds, Inventory!HistoryIsCurrent
    <3>2. CASE t = s /\ i <= Len(rows[s])
      <4>1. i \in 2 .. Len(rows[s]) /\ rows'[s][i] = rows[s][i] /\ rows'[s][i - 1] = rows[s][i - 1]
        <5>1. PICK n \in Nat : n = Len(rows[s])
          BY <1>9
        <5>2. i \in 2 .. n
          BY <1>9, <3>2, <5>1
        <5>3. i \in 1 .. n /\ i - 1 \in 1 .. n
          BY <5>1, <5>2
        <5> QED
          BY <1>9, <5>1, <5>2, <5>3
      <4>2. rows[s][i].alone => rows[s][i].graph # rows[s][i - 1].graph
        BY <4>1 DEF HistoryInv, Inventory!HistoryHolds, Inventory!HistoryIsCurrent
      <4> QED
        BY <2>2, <3>2, <4>1, <4>2
    <3>3. CASE t = s /\ ~(i <= Len(rows[s]))
      <4>1. i = Len(rows[s]) + 1 /\ rows'[s][i] = r /\ Len(rows[s]) # 0 /\ i - 1 = Len(rows[s])
        BY <1>9, <3>3
      <4>2. rows[s] # <<>> /\ rows'[s][i - 1] = rows[s][Len(rows[s])]
        BY <1>9, <4>1
      <4>3. rows[s][Len(rows[s])].graph # seen[c]
        BY <1>1, <1>4, <1>6, <2>2, <3>3, <4>1, <4>2 DEF HistoryInv, ReadAlone
      <4> QED
        BY <1>6, <3>3, <4>1, <4>2, <4>3
    <3> QED
      BY <3>1, <3>2, <3>3
  <2> QED
    BY <2>1, <2>2 DEF Inventory!HistoryIsCurrent, Inventory!Last
<1> QED
  BY <1>4, <1>13, <1>14, <1>15 DEF HistoryInv, Inventory!HistoryHolds

\* What is pruned is old: the newest row stays.
LEMMA PruneRowsKeeps ==
  ASSUME HistoryInv, NEW c \in Collectors, NEW s \in Inventory!Scopes, Inventory!Prune(c, s)
  PROVE  HistoryInv'
<1>1. /\ Inventory!Capturing(c, s) /\ at[c] = "prune" /\ at' = [at EXCEPT ![c] = "begin"]
      /\ work' = [work EXCEPT ![c] = Tail(@)]
      /\ UNCHANGED <<answers, link, status, snapshots, snap, seen, stale, alone, current>>
      /\ rows' = [rows EXCEPT ![s] = IF Len(@) > KeepRows THEN SubSeq(@, Len(@) - KeepRows + 1, Len(@)) ELSE @]
  BY DEF Inventory!Prune, Inventory!Done, Inventory!Goto, Inventory!inputs
<1>2. /\ InHand' /\ OwnSnapshot' /\ Inventory!SnapshotsAreWhole' /\ Inventory!Graph' = Inventory!Graph
      /\ work' \in [Collectors -> Seq(Errands)]
      /\ at' \in [Collectors -> Collecting \cup Capturing \cup {"begin"}]
      /\ at'[c] = "begin"
      /\ \A d \in Collectors : d # c => at'[d] = at[d] /\ work'[d] = work[d]
  BY <1>1, CaptureStep
<1>3. rows \in [Inventory!Scopes -> Seq(GraphRows)] /\ rows[s] \in Seq(GraphRows) /\ Len(rows[s]) \in Nat
  BY DEF HistoryInv, HistoryTypes
<1>4. PICK k \in Nat : /\ k <= Len(rows[s]) /\ (rows[s] # <<>> => k < Len(rows[s]))
                       /\ rows'[s] \in Seq(GraphRows) /\ Len(rows'[s]) = Len(rows[s]) - k
                       /\ \A i \in 1 .. Len(rows[s]) - k : rows'[s][i] = rows[s][i + k]
  <2>1. CASE Len(rows[s]) > KeepRows
    <3>1. PICK k \in Nat : k = Len(rows[s]) - KeepRows
      BY <1>3, <2>1, InventorySizes
    <3>2. rows'[s] = SubSeq(rows[s], k + 1, Len(rows[s]))
      BY <1>1, <1>3, <2>1, <3>1
    <3>3. /\ rows'[s] \in Seq(GraphRows) /\ Len(rows'[s]) = Len(rows[s]) - k
          /\ \A i \in 1 .. Len(rows[s]) - k : rows'[s][i] = rows[s][i + k]
      <4>1. PICK n \in Int : n = Len(rows[s])
        BY <1>3
      <4>2. k + 1 \in Int /\ k + 1 <= n /\ 1 <= k + 1
        BY <2>1, <3>1, <4>1, InventorySizes
      <4>3. \A i \in k + 1 .. n : rows[s][i] \in GraphRows
        BY <1>3, <4>1, <4>2
      <4>4. /\ SubSeq(rows[s], k + 1, n) \in Seq(GraphRows)
            /\ Len(SubSeq(rows[s], k + 1, n)) = n - (k + 1) + 1
            /\ \A i \in 1 .. n - (k + 1) + 1 : SubSeq(rows[s], k + 1, n)[i] = rows[s][k + 1 + i - 1]
        BY <4>2, <4>3, SubSeqProperties
      <4>5. /\ rows'[s] \in Seq(GraphRows) /\ Len(rows'[s]) = n - (k + 1) + 1
            /\ \A i \in 1 .. n - (k + 1) + 1 : rows'[s][i] = rows[s][k + 1 + i - 1]
        BY <3>2, <4>1, <4>4
      <4>6. n - (k + 1) + 1 = n - k /\ \A i \in 1 .. n - k : k + 1 + i - 1 = i + k
        BY <4>1
      <4>7. \A i \in 1 .. n - k : rows'[s][i] = rows[s][i + k]
        BY <4>5, <4>6
      <4> QED
        BY <4>1, <4>5, <4>6, <4>7
    <3>4. k <= Len(rows[s]) /\ k < Len(rows[s])
      BY <1>3, <2>1, <3>1, InventorySizes
    <3> QED
      BY <3>3, <3>4
  <2>2. CASE ~(Len(rows[s]) > KeepRows)
    <3>1. rows'[s] = rows[s]
      BY <1>1, <1>3, <2>2
    <3>2. 0 \in Nat /\ (rows[s] # <<>> => 0 < Len(rows[s]))
      BY <1>3
    <3> QED
      BY <1>3, <3>1, <3>2
  <2> QED
    BY <2>1, <2>2
<1>5. /\ rows' \in [Inventory!Scopes -> Seq(GraphRows)]
      /\ \A t \in Inventory!Scopes : t # s => rows'[t] = rows[t]
  BY <1>1, <1>3, <1>4
<1>6. /\ rows[s] = <<>> <=> rows'[s] = <<>>
      /\ rows[s] # <<>> => rows'[s][Len(rows'[s])] = rows[s][Len(rows[s])]
  <2>1. rows[s] = <<>> <=> Len(rows[s]) = 0
    BY <1>3
  <2>2. rows'[s] = <<>> <=> Len(rows'[s]) = 0
    BY <1>4
  <2>3. Len(rows[s]) = 0 <=> Len(rows'[s]) = 0
    BY <1>3, <1>4, <2>1
  <2>4. ASSUME rows[s] # <<>> PROVE rows'[s][Len(rows'[s])] = rows[s][Len(rows[s])]
    <3>1. Len(rows[s]) - k \in 1 .. Len(rows[s]) - k /\ Len(rows[s]) - k + k = Len(rows[s])
      BY <1>3, <1>4, <2>4
    <3> QED
      BY <1>4, <3>1
  <2> QED
    BY <2>1, <2>2, <2>3, <2>4
<1>7. \A t \in Inventory!Scopes :
        /\ rows[t] = <<>> <=> rows'[t] = <<>>
        /\ rows[t] # <<>> => rows'[t][Len(rows'[t])] = rows[t][Len(rows[t])]
  BY <1>5, <1>6
<1>8. HistoryTypes'
  BY <1>1, <1>2, <1>5 DEF HistoryInv, HistoryTypes
<1>9. ReadAlone'
  <2>1. ASSUME NEW d \in Collectors, d # c
        PROVE  /\ at'[d] = "load" /\ ~stale'[d] => seen'[d].status = status'
               /\ at'[d] \in {"compare", "create"} /\ ~stale'[d] => seen'[d] = Inventory!Graph'
               /\ at'[d] = "create" /\ alone'[d] =>
                    \A t \in Inventory!Scopes : Head(work'[d]) = t =>
                      rows'[t] = <<>> \/ rows'[t][Len(rows'[t])].graph # seen'[d]
    <3>1. /\ at'[d] = at[d] /\ work'[d] = work[d] /\ seen' = seen /\ stale' = stale /\ alone' = alone
          /\ status' = status /\ Inventory!Graph' = Inventory!Graph
      BY <1>1, <1>2, <2>1
    <3>2. /\ at[d] = "load" /\ ~stale[d] => seen[d].status = status
          /\ at[d] \in {"compare", "create"} /\ ~stale[d] => seen[d] = Inventory!Graph
          /\ at[d] = "create" /\ alone[d] =>
               \A t \in Inventory!Scopes : Head(work[d]) = t =>
                 rows[t] = <<>> \/ rows[t][Len(rows[t])].graph # seen[d]
      BY DEF HistoryInv, ReadAlone
    <3>3. at[d] = "create" /\ alone[d] =>
            \A t \in Inventory!Scopes : Head(work[d]) = t =>
              rows'[t] = <<>> \/ rows'[t][Len(rows'[t])].graph # seen[d]
      BY <1>7, <3>2
    <3> QED
      BY <3>1, <3>2, <3>3
  <2> QED
    BY <1>2, <2>1 DEF ReadAlone
<1>10. Inventory!HistoryIsCurrent'
  <2>1. \A t \in Inventory!Scopes : current'[t] => rows'[t] # <<>> /\ rows'[t][Len(rows'[t])].graph = Inventory!Graph'
    <3>1. \A t \in Inventory!Scopes : current[t] => rows[t] # <<>> /\ rows[t][Len(rows[t])].graph = Inventory!Graph
      BY DEF HistoryInv, Inventory!HistoryHolds, Inventory!HistoryIsCurrent, Inventory!Last
    <3>2. current' = current /\ Inventory!Graph' = Inventory!Graph
      BY <1>1, <1>2
    <3>3. ASSUME NEW t \in Inventory!Scopes, current[t]
          PROVE  rows'[t] # <<>> /\ rows'[t][Len(rows'[t])].graph = Inventory!Graph
      <4>1. rows[t] # <<>> /\ rows[t][Len(rows[t])].graph = Inventory!Graph
        BY <3>1, <3>3
      <4>2. rows'[t] # <<>> /\ rows'[t][Len(rows'[t])] = rows[t][Len(rows[t])]
        BY <1>7, <4>1
      <4> QED
        BY <4>1, <4>2
    <3> QED
      BY <3>2, <3>3
  <2>2. ASSUME NEW t \in Inventory!Scopes, NEW i \in 2 .. Len(rows'[t]), rows'[t][i].alone
        PROVE  rows'[t][i].graph # rows'[t][i - 1].graph
    <3>1. CASE t # s
      <4>1. rows'[t] = rows[t]
        BY <1>5, <3>1
      <4> QED
        BY <2>2, <4>1 DEF HistoryInv, Inventory!HistoryHolds, Inventory!HistoryIsCurrent
    <3>2. CASE t = s
      <4>1. i + k \in 2 .. Len(rows[s]) /\ i \in 1 .. Len(rows[s]) - k /\ i - 1 \in 1 .. Len(rows[s]) - k
        BY <1>3, <1>4, <3>2
      <4>2. rows'[s][i] = rows[s][i + k] /\ rows'[s][i - 1] = rows[s][(i + k) - 1]
        BY <1>3, <1>4, <4>1
      <4> QED
        BY <2>2, <3>2, <4>1, <4>2 DEF HistoryInv, Inventory!HistoryHolds, Inventory!HistoryIsCurrent
    <3> QED
      BY <3>1, <3>2
  <2> QED
    BY <2>1, <2>2 DEF Inventory!HistoryIsCurrent, Inventory!Last
<1> QED
  BY <1>2, <1>8, <1>9, <1>10 DEF HistoryInv, Inventory!HistoryHolds

LEMMA InitHistory == Inventory!Init => HistoryInv
<1> SUFFICES ASSUME Inventory!Init PROVE HistoryInv
  OBVIOUS
<1>1. /\ answers = 1 /\ link = FALSE /\ status = "unknown" /\ snapshots = <<>>
      /\ rows = [s \in Inventory!Scopes |-> <<>>] /\ work = [c \in Collectors |-> <<>>]
      /\ at = [c \in Collectors |-> "begin"] /\ snap = [c \in Collectors |-> 0]
      /\ seen = [c \in Collectors |-> Inventory!NoGraph] /\ stale = [c \in Collectors |-> FALSE]
      /\ alone = [c \in Collectors |-> TRUE] /\ current = [s \in Inventory!Scopes |-> FALSE]
  BY DEF Inventory!Init
<1>2. Inventory!NoGraph \in Graphs
  BY DEF Inventory!NoGraph, Graphs
<1>3. HistoryTypes
  <2>1. /\ answers \in Nat /\ link \in BOOLEAN /\ status \in {"unknown", "online", "offline"}
        /\ snapshots \in Seq(Collected)
    <3>1. snapshots \in Seq(Collected)
      BY <1>1
    <3>2. answers \in Nat /\ link \in BOOLEAN
      BY <1>1
    <3>3. status \in {"unknown", "online", "offline"}
      BY <1>1
    <3> QED
      BY <3>1, <3>2, <3>3
  <2>2. rows \in [Inventory!Scopes -> Seq(GraphRows)] /\ work \in [Collectors -> Seq(Errands)]
    BY <1>1
  <2>3. at \in [Collectors -> Collecting \cup Capturing \cup {"begin"}]
    BY <1>1
  <2>4. snap \in [Collectors -> Nat] /\ seen \in [Collectors -> Graphs]
    BY <1>1, <1>2
  <2>5. /\ stale \in [Collectors -> BOOLEAN] /\ alone \in [Collectors -> BOOLEAN]
        /\ current \in [Inventory!Scopes -> BOOLEAN]
    BY <1>1
  <2> QED
    BY <2>1, <2>2, <2>3, <2>4, <2>5 DEF HistoryTypes
<1>4. \A c \in Collectors : at[c] = "begin"
  BY <1>1
<1>5. InHand /\ OwnSnapshot /\ ReadAlone
  BY <1>4 DEF InHand, OwnSnapshot, ReadAlone, Collecting, Capturing, Reading
<1>6. Inventory!SnapshotsAreWhole
  BY <1>1, HistoryIs
<1>7. Inventory!HistoryIsCurrent
  BY <1>1 DEF Inventory!HistoryIsCurrent
<1> QED
  BY <1>3, <1>5, <1>6, <1>7 DEF HistoryInv, Inventory!HistoryHolds

LEMMA NextHistory ==
  ASSUME HistoryInv, Inventory!Next \/ UNCHANGED inventoryVars PROVE HistoryInv'
BY ApartKeeps, CollectionKeeps, CreateSnapshotKeeps, ReadKeeps, CompareKeeps, CreateKeeps, PruneRowsKeeps
DEF Inventory!Next, Inventory!Step

\* Inventory and topology history: a finished snapshot is complete exactly when no
\* required section is missing, the newest row is the graph as it is from the end of
\* an undisturbed capture on, and equal neighbours were stored by captures that met.
THEOREM HistoryAlwaysHolds == Spec => []HistoryHolds
<1> DEFINE I == part = "inventory" => HistoryInv
<1>1. Init => I
  BY InitHistory DEF Init
<1>2. I /\ [Next]_allVars => I'
  <2> SUFFICES ASSUME I, [Next]_allVars, part' = "inventory" PROVE HistoryInv'
    OBVIOUS
  <2>1. part = "inventory"
    BY DEF Next, allVars
  <2>2. Inventory!Next \/ UNCHANGED inventoryVars
    BY <2>1 DEF Next, allVars, inventoryVars
  <2> QED
    BY <2>1, <2>2, NextHistory
<1>3. I => HistoryHolds
  BY DEF HistoryHolds, HistoryInv
<1> QED
  BY <1>1, <1>2, <1>3, PTL DEF Spec
-----------------------------------------------------------------------------
(* The topology resolver                                                   *)

\* A link has two ends, both in the graph, and evidence; the routers are in it from
\* the start.
GraphTyped ==
  /\ externalAliases \in [Resolver!Aliases -> SUBSET nodes]
  /\ landed \in [Macs -> SUBSET nodes]
  /\ \A i \in DOMAIN Devices : Resolver!Managed(Devices[i]) \in nodes
  /\ links = [l \in DOMAIN links |-> links[l]]
  /\ \A l \in DOMAIN links : links[l] # {} /\ \E a, b \in nodes : a # b /\ l = {a, b}
  /\ \E i \in 1 .. Len(Devices) + 1, t \in DOMAIN Resolver!Sources : place = <<i, t>>

\* An address has one node, or none yet, and it is what the address stands for.
OneEach ==
  \A m \in Macs :
    /\ externalAliases[Resolver!Alias("mac", m)] = landed[m]
    /\ landed[m] = {} \/ \E x \in nodes : landed[m] = {x}

\* An address one router claims never has a node of its own; every row drawn is in a link
\* that its addresses account for.
Claims ==
  \A m \in Macs : Resolver!Unique(managedAliases[Resolver!Alias("mac", m)]) => landed[m] = {}

RowsDrawn ==
  \A l \in DOMAIN links : \A e \in links[l] : e.source # "manual" =>
    Resolver!RowAliases(e.row) \subseteq Resolver!Aliases /\ Resolver!Drawn(l, e)

ResolverInv == GraphTyped /\ OneEach /\ Claims /\ RowsDrawn

\* The graph before any table is read: the routers, and no address.
LEMMA InitResolver ==
  ASSUME Resolver!Init PROVE ResolverInv
<1>1. /\ externalAliases = [a \in Resolver!Aliases |-> {}]
      /\ nodes = {Resolver!Managed(Devices[i]) : i \in DOMAIN Devices}
      /\ links = <<>> /\ place = <<1, 1>> /\ landed = [m \in Macs |-> {}]
  BY DEF Resolver!Init
<1>2. DOMAIN links = {} /\ links = [l \in DOMAIN links |-> links[l]]
  BY <1>1
<1>3. Len(Devices) \in Nat
  BY ResolverAssumption, LenProperties
<1>4. \E i \in 1 .. Len(Devices) + 1, t \in DOMAIN Resolver!Sources : place = <<i, t>>
  <2>1. 1 \in 1 .. Len(Devices) + 1 /\ 1 \in DOMAIN Resolver!Sources
    BY <1>3 DEF Resolver!Sources
  <2> QED
    BY <1>1, <2>1
<1>5. \A m \in Macs : Resolver!Alias("mac", m) \in Resolver!Aliases
  BY DEF Resolver!Aliases
<1>6. GraphTyped
  BY <1>1, <1>2, <1>4 DEF GraphTyped
<1>7. OneEach /\ Claims
  BY <1>1, <1>5 DEF OneEach, Claims
<1>8. RowsDrawn
  BY <1>2 DEF RowsDrawn
<1> QED
  BY <1>6, <1>7, <1>8 DEF ResolverInv

\* Evidence of a link between two nodes of the graph.
LEMMA EvidenceTyped ==
  ASSUME ResolverInv, NEW a \in nodes', NEW b \in nodes', NEW e, Resolver!AddEvidence(a, b, e),
         nodes \subseteq nodes'
  PROVE  /\ links' = [l \in DOMAIN links' |-> links'[l]]
         /\ \A l \in DOMAIN links' : links'[l] # {} /\ \E x, y \in nodes' : x # y /\ l = {x, y}
<1>1. CASE a = b
  <2>1. links' = links
    BY <1>1 DEF Resolver!AddEvidence
  <2> QED
    BY <2>1 DEF ResolverInv, GraphTyped
<1>2. CASE a # b
  <2>1. links' = [l \in DOMAIN links \cup {{a, b}} |->
                    IF l = {a, b} THEN Resolver!Evidence(l) \cup {e} ELSE links[l]]
    BY <1>2 DEF Resolver!AddEvidence
  <2>2. ASSUME NEW l \in DOMAIN links' PROVE links'[l] # {} /\ \E x, y \in nodes' : x # y /\ l = {x, y}
    <3>1. CASE l = {a, b}
      BY <1>2, <2>1, <3>1
    <3>2. CASE l # {a, b}
      <4>1. l \in DOMAIN links /\ links'[l] = links[l]
        BY <2>1, <2>2, <3>2
      <4> QED
        BY <4>1 DEF ResolverInv, GraphTyped
    <3> QED
      BY <3>1, <3>2
  <2>3. links' = [l \in DOMAIN links' |-> links'[l]]
    BY <2>1
  <2> QED
    BY <2>2, <2>3
<1> QED
  BY <1>1, <1>2

\* Rows drawn stay accounted for while addresses only gain nodes.
LEMMA EvidenceDrawn ==
  ASSUME RowsDrawn, NEW a, NEW b, NEW e, Resolver!AddEvidence(a, b, e), managedAliases' = managedAliases,
         \A x \in Resolver!Aliases : externalAliases[x] \subseteq externalAliases'[x],
         e.source # "manual" => Resolver!RowAliases(e.row) \subseteq Resolver!Aliases /\ Resolver!Drawn({a, b}, e)'
  PROVE  RowsDrawn'
<1>1. ASSUME NEW l, NEW f, Resolver!RowAliases(f.row) \subseteq Resolver!Aliases, Resolver!Drawn(l, f)
      PROVE  Resolver!Drawn(l, f)'
  <2>1. Resolver!ManagedId(f.row)' = Resolver!ManagedId(f.row)
    BY DEF Resolver!ManagedId
  <2>2. ASSUME Resolver!ManagedId(f.row) = {}
        PROVE  \E x \in l : l = {Resolver!Managed(f.device), x}
                             /\ \A y \in Resolver!RowAliases(f.row) : x \in externalAliases'[y]
    <3>1. PICK x \in l : l = {Resolver!Managed(f.device), x}
                         /\ \A y \in Resolver!RowAliases(f.row) : x \in externalAliases[y]
      BY <1>1, <2>2 DEF Resolver!Drawn
    <3> QED
      BY <1>1, <3>1
  <2> QED
    BY <1>1, <2>1, <2>2 DEF Resolver!Drawn
<1>2. ASSUME NEW l \in DOMAIN links', NEW f \in links'[l], f.source # "manual"
      PROVE  Resolver!RowAliases(f.row) \subseteq Resolver!Aliases /\ Resolver!Drawn(l, f)'
  <2>1. CASE l \in DOMAIN links /\ f \in links[l]
    BY <1>1, <1>2, <2>1 DEF RowsDrawn
  <2>2. CASE ~(l \in DOMAIN links /\ f \in links[l])
    <3>1. l = {a, b} /\ f = e
      BY <1>2, <2>2 DEF Resolver!AddEvidence, Resolver!Evidence
    <3> QED
      BY <1>2, <3>1
  <2> QED
    BY <2>1, <2>2
<1> QED
  BY <1>2 DEF RowsDrawn

\* The address comes first: what it alone stands for decides, whatever else the row tells.
LEMMA AddressFirst ==
  ASSUME NEW F, NEW kinds, 1 \in DOMAIN kinds, DOMAIN kinds \subseteq Nat \ {0}, kinds[1] = "mac",
         NEW r, r.mac # "absent", Resolver!Unique(F[Resolver!Alias("mac", r.mac)])
  PROVE  Resolver!FirstOf(F, kinds, r) = F[Resolver!Alias("mac", r.mac)]
<1> DEFINE P == {i \in DOMAIN kinds : r[kinds[i]] # Resolver!Absent
                                      /\ Resolver!Unique(F[Resolver!Alias(kinds[i], r[kinds[i]])])}
<1>1. r[kinds[1]] = r.mac
  OBVIOUS
<1>2. 1 \in P
  BY <1>1 DEF Resolver!Absent
<1>3. (CHOOSE i \in P : \A j \in P : i <= j) = 1
  <2>1. \A j \in P : 1 <= j
    OBVIOUS
  <2>2. \A i \in P : (\A j \in P : i <= j) => i = 1
    BY <1>2, <2>1
  <2> QED
    BY <1>2, <2>1, <2>2
<1> QED
  BY <1>1, <1>2, <1>3 DEF Resolver!FirstOf

\* An address seen before decides.
LEMMA AddressDecides ==
  ASSUME NEW r, r.mac # "absent", NEW x, externalAliases[Resolver!Alias("mac", r.mac)] = {x}
  PROVE  Resolver!KnownId(r) = {x}
<1>1. Resolver!KnownId(r) = Resolver!FirstOf(externalAliases, <<"mac", "ip">>, r)
  BY DEF Resolver!KnownId, Resolver!Absent
<1>2. PICK kinds : kinds = <<"mac", "ip">>
  OBVIOUS
<1>3. 1 \in DOMAIN kinds /\ DOMAIN kinds \subseteq Nat \ {0} /\ kinds[1] = "mac"
  BY <1>2
<1>4. Resolver!Unique({x})
  <2>1. Cardinality({x}) = 1
    BY FS_Singleton
  <2> QED
    BY <2>1 DEF Resolver!Unique, Resolver!Cardinality, Cardinality
<1> QED
  BY <1>1, <1>2, <1>3, <1>4, AddressFirst

\* An address that one router claims is that router's.
LEMMA ClaimDecides ==
  ASSUME NEW r, r.mac # "absent", Resolver!Unique(managedAliases[Resolver!Alias("mac", r.mac)])
  PROVE  Resolver!ManagedId(r) = managedAliases[Resolver!Alias("mac", r.mac)] /\ Resolver!ManagedId(r) # {}
<1>1. PICK kinds : kinds = <<"mac", "ip", "name">>
  OBVIOUS
<1>2. 1 \in DOMAIN kinds /\ DOMAIN kinds \subseteq Nat \ {0} /\ kinds[1] = "mac"
  BY <1>1
<1>3. Resolver!ManagedId(r) = managedAliases[Resolver!Alias("mac", r.mac)]
  BY <1>1, <1>2, AddressFirst DEF Resolver!ManagedId
<1>4. ~Resolver!Unique({})
  <2>1. Cardinality({}) = 0
    BY FS_EmptySet
  <2> QED
    BY <2>1 DEF Resolver!Unique, Resolver!Cardinality, Cardinality
<1> QED
  BY <1>3, <1>4

\* A row of an address the node of which is known lands on it; a row without, or of a
\* new one, teaches no other address anything.
LEMMA ObserveKeeps ==
  ASSUME ResolverInv, NEW r, Resolver!RowAliases(r) \subseteq Resolver!Aliases,
         r.mac \in Macs \cup {"absent"}, Resolver!Observe(r)
  PROVE  ResolverInv'
<1>1. PICK d : d = Resolver!Managed(Devices[place[1]])
  OBVIOUS
<1>2. PICK id : id = Resolver!NodeOf(r)
  OBVIOUS
<1>3. /\ place[1] <= Len(Devices) /\ nodes' = nodes \cup {id} /\ place' = place
      /\ IF Resolver!ManagedId(r) = {}
         THEN Resolver!Learn(r, id)
              /\ landed' = [m \in Macs |-> IF m = r.mac THEN landed[m] \cup {id} ELSE landed[m]]
         ELSE UNCHANGED <<externalAliases, landed>>
      /\ Resolver!AddEvidence(d, id, [source |-> Resolver!Sources[place[2]], device |-> Devices[place[1]], row |-> r])
  BY <1>1, <1>2 DEF Resolver!Observe
<1>3b. managedAliases' = managedAliases
  BY DEF Resolver!Observe
<1>4. PICK i \in 1 .. Len(Devices) + 1, t \in DOMAIN Resolver!Sources : place = <<i, t>>
  BY DEF ResolverInv, GraphTyped
<1>5. d \in nodes
  <2>1. Len(Devices) \in Nat /\ DOMAIN Devices = 1 .. Len(Devices)
    BY ResolverAssumption, LenProperties
  <2>2. place[1] \in DOMAIN Devices
    BY <1>3, <1>4, <2>1
  <2> QED
    BY <1>1, <2>2 DEF ResolverInv, GraphTyped
<1>6. /\ links' = [l \in DOMAIN links' |-> links'[l]]
      /\ \A l \in DOMAIN links' : links'[l] # {} /\ \E x, y \in nodes' : x # y /\ l = {x, y}
  BY <1>3, <1>5, EvidenceTyped
<1>7. /\ externalAliases' \in [Resolver!Aliases -> SUBSET nodes'] /\ landed' \in [Macs -> SUBSET nodes']
  BY <1>3 DEF ResolverInv, GraphTyped, Resolver!Learn
<1>8. GraphTyped'
  BY <1>3, <1>4, <1>6, <1>7 DEF ResolverInv, GraphTyped
<1>9. OneEach'
  <2> SUFFICES ASSUME NEW m \in Macs
               PROVE  /\ externalAliases'[Resolver!Alias("mac", m)] = landed'[m]
                      /\ landed'[m] = {} \/ \E x \in nodes' : landed'[m] = {x}
    BY DEF OneEach
  <2>1. /\ externalAliases[Resolver!Alias("mac", m)] = landed[m]
        /\ landed[m] = {} \/ \E x \in nodes : landed[m] = {x}
    BY DEF ResolverInv, OneEach
  <2>2. Resolver!Alias("mac", m) \in Resolver!Aliases
    BY DEF Resolver!Aliases
  <2>3. Resolver!Alias("mac", m) \in Resolver!RowAliases(r) <=> r.mac = m
    BY ResolverAssumption DEF Resolver!RowAliases, Resolver!Alias, Resolver!Absent
  <2>4. CASE Resolver!ManagedId(r) # {} \/ r.mac # m
    <3>1. externalAliases'[Resolver!Alias("mac", m)] = externalAliases[Resolver!Alias("mac", m)] /\ landed'[m] = landed[m]
      BY <1>3, <2>2, <2>3, <2>4 DEF Resolver!Learn, ResolverInv, GraphTyped
    <3> QED
      BY <1>3, <2>1, <3>1
  <2>5. CASE Resolver!ManagedId(r) = {} /\ r.mac = m
    <3>1. /\ externalAliases'[Resolver!Alias("mac", m)] = externalAliases[Resolver!Alias("mac", m)] \cup {id}
          /\ landed'[m] = landed[m] \cup {id}
      BY <1>3, <2>2, <2>3, <2>5 DEF Resolver!Learn, ResolverInv, GraphTyped
    <3>2. CASE landed[m] = {}
      BY <1>3, <2>1, <3>1, <3>2
    <3>3. CASE landed[m] # {}
      <4>1. PICK x \in nodes : landed[m] = {x}
        BY <2>1, <3>3
      <4>2. Resolver!KnownId(r) = {x}
        BY <2>1, <2>5, <4>1, ResolverAssumption, AddressDecides
      <4>3. id = x
        BY <1>2, <2>5, <4>2 DEF Resolver!NodeOf, Resolver!The
      <4> QED
        BY <1>3, <2>1, <3>1, <4>1, <4>3
    <3> QED
      BY <3>2, <3>3
  <2> QED
    BY <2>4, <2>5
<1>10. Claims'
  <2> SUFFICES ASSUME NEW m \in Macs, Resolver!Unique(managedAliases[Resolver!Alias("mac", m)]) PROVE landed'[m] = {}
    BY <1>3b DEF Claims, Resolver!Unique
  <2>1. landed[m] = {} /\ landed \in [Macs -> SUBSET nodes]
    BY DEF ResolverInv, Claims, GraphTyped
  <2>2. m # "absent"
    BY ResolverAssumption
  <2>3. CASE r.mac = m
    <3>1. Resolver!ManagedId(r) # {}
      BY <2>2, <2>3, ClaimDecides
    <3> QED
      BY <1>3, <2>1, <3>1
  <2>4. CASE r.mac # m
    BY <1>3, <2>1, <2>4
  <2> QED
    BY <2>3, <2>4
<1>11. RowsDrawn'
  <2>1. PICK e : e = [source |-> Resolver!Sources[place[2]], device |-> Devices[place[1]], row |-> r]
    OBVIOUS
  <2>2. e.device = Devices[place[1]] /\ e.row = r
    BY <2>1
  <2>3. \A x \in Resolver!Aliases : externalAliases[x] \subseteq externalAliases'[x]
    BY <1>3 DEF Resolver!Learn
  <2>4. ASSUME r.mac # Resolver!Absent, Resolver!Unique(managedAliases[Resolver!Alias("mac", r.mac)])
        PROVE  {d, id} = {Resolver!Managed(e.device),
                          Resolver!Managed(Resolver!The(managedAliases[Resolver!Alias("mac", r.mac)]))}
    <3>1. Resolver!ManagedId(r) = managedAliases[Resolver!Alias("mac", r.mac)] /\ Resolver!ManagedId(r) # {}
      BY <2>4, ClaimDecides DEF Resolver!Absent
    <3>2. id = Resolver!Managed(Resolver!The(managedAliases[Resolver!Alias("mac", r.mac)]))
      BY <1>2, <3>1 DEF Resolver!NodeOf
    <3> QED
      BY <1>1, <2>2, <3>2
  <2>5. ASSUME Resolver!ManagedId(r) = {}
        PROVE  \E x \in {d, id} : {d, id} = {Resolver!Managed(e.device), x}
                                  /\ \A y \in Resolver!RowAliases(r) : x \in externalAliases'[y]
    <3>1. \A y \in Resolver!RowAliases(r) : id \in externalAliases'[y]
      BY <1>3, <2>5 DEF Resolver!Learn
    <3> QED
      BY <1>1, <2>2, <3>1
  <2>6. Resolver!ManagedId(r)' = Resolver!ManagedId(r)
    BY <1>3b DEF Resolver!ManagedId
  <2>7. Resolver!Drawn({d, id}, e)'
    BY <1>3b, <2>2, <2>4, <2>5, <2>6 DEF Resolver!Drawn
  <2> QED
    BY <1>3, <1>3b, <2>1, <2>2, <2>3, <2>7, EvidenceDrawn DEF ResolverInv
<1> QED
  BY <1>8, <1>9, <1>10, <1>11 DEF ResolverInv

\* Nothing is undrawn by a step that draws nothing.
LEMMA RowsDrawnStay ==
  ASSUME RowsDrawn, UNCHANGED <<managedAliases, externalAliases, links>> PROVE RowsDrawn'
<1>1. \A f : Resolver!ManagedId(f)' = Resolver!ManagedId(f)
  BY DEF Resolver!ManagedId
<1>2. \A l, f : Resolver!Drawn(l, f)' <=> Resolver!Drawn(l, f)
  BY <1>1 DEF Resolver!Drawn
<1> QED
  BY <1>2 DEF RowsDrawn

\* Each row and each link by hand keeps it.
LEMMA NextResolver ==
  ASSUME ResolverInv, Resolver!Next \/ UNCHANGED resolverVars PROVE ResolverInv'
<1>1. CASE UNCHANGED resolverVars
  <2>1. UNCHANGED <<managedAliases, externalAliases, nodes, links, place, landed>>
    BY <1>1 DEF resolverVars
  <2>2. RowsDrawn'
    BY <2>1, RowsDrawnStay DEF ResolverInv
  <2> QED
    BY <2>1, <2>2 DEF ResolverInv, GraphTyped, OneEach, Claims
<1>2. ASSUME NEW i \in DOMAIN Resolver!Sources, NEW r \in Resolver!Row(Resolver!Sources[i]), Resolver!Observe(r)
      PROVE  ResolverInv'
  <2>1. /\ r.mac \in Macs \cup {"absent"} /\ r.ip \in Ips \cup {"absent"} /\ r.name \in Names \cup {"absent"}
    BY <1>2 DEF Resolver!Row, Resolver!Absent
  <2>2. Resolver!RowAliases(r) \subseteq Resolver!Aliases
    BY <2>1 DEF Resolver!RowAliases, Resolver!Aliases, Resolver!Alias, Resolver!Absent
  <2> QED
    BY <1>2, <2>1, <2>2, ObserveKeeps
<1>3. CASE Resolver!NextTable
  <2>1. /\ UNCHANGED <<managedAliases, externalAliases, nodes, links, landed>> /\ place[1] <= Len(Devices)
        /\ place' = IF place[2] < Len(Resolver!Sources) THEN <<place[1], place[2] + 1>> ELSE <<place[1] + 1, 1>>
    BY <1>3 DEF Resolver!NextTable
  <2>2. PICK i \in 1 .. Len(Devices) + 1, t \in DOMAIN Resolver!Sources : place = <<i, t>>
    BY DEF ResolverInv, GraphTyped
  <2>3. Len(Devices) \in Nat
    BY ResolverAssumption, LenProperties
  <2>4. Len(Resolver!Sources) = 6 /\ DOMAIN Resolver!Sources = 1 .. 6
    BY DEF Resolver!Sources
  <2>5. \E j \in 1 .. Len(Devices) + 1, u \in DOMAIN Resolver!Sources : place' = <<j, u>>
    <3>1. CASE t < 6
      <4>1. t + 1 \in DOMAIN Resolver!Sources /\ place' = <<i, t + 1>>
        BY <2>1, <2>2, <2>4, <3>1
      <4> QED
        BY <4>1
    <3>2. CASE ~(t < 6)
      <4>1. i + 1 \in 1 .. Len(Devices) + 1 /\ place' = <<i + 1, 1>> /\ 1 \in DOMAIN Resolver!Sources
        BY <2>1, <2>2, <2>3, <2>4, <3>2
      <4> QED
        BY <4>1
    <3> QED
      BY <3>1, <3>2
  <2>6. GraphTyped'
    BY <2>1, <2>5 DEF ResolverInv, GraphTyped
  <2>7. OneEach' /\ Claims'
    BY <2>1 DEF ResolverInv, OneEach, Claims
  <2>8. RowsDrawn'
    BY <2>1, RowsDrawnStay DEF ResolverInv
  <2> QED
    BY <2>6, <2>7, <2>8 DEF ResolverInv
<1>4. ASSUME NEW a, NEW b, Resolver!Manual(a, b) PROVE ResolverInv'
  <2>1. /\ nodes' = nodes \cup {a, b} /\ UNCHANGED <<managedAliases, externalAliases, place, landed>>
        /\ Resolver!AddEvidence(a, b, [source |-> "manual", device |-> Resolver!Absent, row |-> {a, b}])
    BY <1>4 DEF Resolver!Manual
  <2>2. a \in nodes' /\ b \in nodes' /\ nodes \subseteq nodes'
    BY <2>1
  <2>3. /\ links' = [l \in DOMAIN links' |-> links'[l]]
        /\ \A l \in DOMAIN links' : links'[l] # {} /\ \E x, y \in nodes' : x # y /\ l = {x, y}
    BY <2>1, <2>2, EvidenceTyped
  <2>4. externalAliases' \in [Resolver!Aliases -> SUBSET nodes'] /\ landed' \in [Macs -> SUBSET nodes']
    BY <2>1, <2>2 DEF ResolverInv, GraphTyped
  <2>5. GraphTyped'
    BY <2>1, <2>2, <2>3, <2>4 DEF ResolverInv, GraphTyped
  <2>6. OneEach' /\ Claims'
    BY <2>1, <2>2 DEF ResolverInv, OneEach, Claims
  <2>7. RowsDrawn'
    <3>1. PICK e : e = [source |-> "manual", device |-> Resolver!Absent, row |-> {a, b}]
      OBVIOUS
    <3>2. e.source = "manual"
      BY <3>1
    <3> QED
      BY <2>1, <3>1, <3>2, EvidenceDrawn DEF ResolverInv
  <2> QED
    BY <2>5, <2>6, <2>7 DEF ResolverInv
<1> QED
  BY <1>1, <1>2, <1>3, <1>4 DEF Resolver!Next

\* What the invariant says of the addresses, and of the graph.
LEMMA ResolverHolds ==
  ASSUME ResolverInv PROVE Resolver!OneNodePerMac /\ Resolver!TypeOK
<1>1. Resolver!OneNodePerMac
  <2> SUFFICES ASSUME NEW m \in Macs
               PROVE  /\ Resolver!Cardinality(landed[m]) <= 1
                      /\ externalAliases[Resolver!Alias("mac", m)] = landed[m]
                      /\ Resolver!Unique(managedAliases[Resolver!Alias("mac", m)]) => landed[m] = {}
    BY DEF Resolver!OneNodePerMac, ResolverInv, RowsDrawn
  <2>1. /\ externalAliases[Resolver!Alias("mac", m)] = landed[m]
        /\ landed[m] = {} \/ \E x \in nodes : landed[m] = {x}
        /\ Resolver!Unique(managedAliases[Resolver!Alias("mac", m)]) => landed[m] = {}
    BY DEF ResolverInv, OneEach, Claims
  <2>2. Cardinality({}) = 0 /\ \A x : Cardinality({x}) = 1
    BY FS_EmptySet, FS_Singleton
  <2>3. Cardinality(landed[m]) \in {0, 1}
    BY <2>1, <2>2
  <2>4. Resolver!Cardinality(landed[m]) = Cardinality(landed[m])
    BY DEF Resolver!Cardinality, Cardinality
  <2> QED
    BY <2>1, <2>3, <2>4
<1>2. Resolver!TypeOK
  <2>1. ASSUME NEW a \in Resolver!Aliases PROVE externalAliases[a] \subseteq nodes
    BY <2>1 DEF ResolverInv, GraphTyped
  <2>2. ASSUME NEW l \in DOMAIN links
        PROVE  l \subseteq nodes /\ Resolver!Cardinality(l) = 2 /\ links[l] # {}
    <3>1. links[l] # {} /\ \E a, b \in nodes : a # b /\ l = {a, b}
      BY <2>2 DEF ResolverInv, GraphTyped
    <3>2. PICK a \in nodes, b \in nodes : a # b /\ l = {a, b}
      BY <3>1
    <3>3. Cardinality({a} \cup {b}) = 2
      <4>1. IsFiniteSet({a}) /\ Cardinality({a}) = 1 /\ b \notin {a}
        BY <3>2, FS_Singleton
      <4>2. Cardinality({a} \cup {b}) = Cardinality({a}) + 1
        BY <4>1, FS_AddElement
      <4> QED
        BY <4>1, <4>2
    <3>4. l = {a} \cup {b}
      BY <3>2
    <3>5. Resolver!Cardinality(l) = Cardinality(l)
      BY DEF Resolver!Cardinality, Cardinality
    <3> QED
      BY <3>1, <3>2, <3>3, <3>4, <3>5
  <2>3. place[1] \in 1 .. Len(Devices) + 1 /\ place[2] \in DOMAIN Resolver!Sources
    BY DEF ResolverInv, GraphTyped
  <2> QED
    BY <2>1, <2>2, <2>3 DEF Resolver!TypeOK
<1> QED
  BY <1>1, <1>2

\* The topology of the network: the rows of one MAC address land on one node of the graph,
\* whatever routers, tables and rows, in whatever order, and the address stands for it; one
\* a router claims is drawn as that router; and each link is to what every address of its
\* row stands for, unless that is more than one node.
THEOREM OneNodeAlways == Spec => []OneNodePerMac
<1> DEFINE I == part = "topology" => ResolverInv
<1>1. Init => I
  BY InitResolver DEF Init
<1>2. I /\ [Next]_allVars => I'
  <2> SUFFICES ASSUME I, [Next]_allVars, part' = "topology" PROVE ResolverInv'
    OBVIOUS
  <2>1. part = "topology"
    BY DEF Next, allVars
  <2>2. Resolver!Next \/ UNCHANGED resolverVars
    BY <2>1 DEF Next, allVars, resolverVars
  <2> QED
    BY <2>1, <2>2, NextResolver
<1>3. I => OneNodePerMac
  BY ResolverHolds DEF OneNodePerMac
<1> QED
  BY <1>1, <1>2, <1>3, PTL DEF Spec

-----------------------------------------------------------------------------
(* The types of the backup page                                            *)

\* The page's own types: what there is to show, tick, make or delete is a backup, and
\* a list under way was asked for.
PageTyped ==
  /\ chosen \in Page!Routers \cup {Page!All}
  /\ loading \in BOOLEAN /\ failed \in BOOLEAN /\ busy \in BOOLEAN
  /\ posted \in 0 .. MaxPosts /\ lastAsk \in 1 .. MaxAsks
  /\ \A r \in asks : r.nr \in 1 .. lastAsk /\
       \A d \in DOMAIN r.lists : r.lists[d] # Page!None => r.lists[d] \subseteq Page!Backups
  /\ stock \cup shown \cup unborn \subseteq Page!Backups
  /\ \A p \in posts : p.left \subseteq Page!Backups

\* A list is asked for: the next number, and nothing in it.
LEMMA LoadTyped ==
  ASSUME PageTyped, NEW d, Page!Load(d)
  PROVE  /\ lastAsk' \in 1 .. MaxAsks /\ loading' \in BOOLEAN /\ failed' \in BOOLEAN /\ shown' = shown
         /\ \A r \in asks' : r.nr \in 1 .. lastAsk' /\
              \A x \in DOMAIN r.lists : r.lists[x] # Page!None => r.lists[x] \subseteq Page!Backups
<1> DEFINE n == [nr |-> lastAsk + 1, lists |-> [x \in Page!Targets(d) |-> Page!None]]
<1>1. /\ lastAsk < MaxAsks /\ asks' = asks \cup {n} /\ lastAsk' = lastAsk + 1 /\ loading' = TRUE /\ failed' = FALSE
      /\ shown' = shown
  BY DEF Page!Load, Page!Ask
<1>2. n.nr = lastAsk + 1 /\ \A x \in DOMAIN n.lists : n.lists[x] = Page!None
  OBVIOUS
<1> HIDE DEF n
<1>3. MaxAsks \in Nat /\ lastAsk \in 1 .. MaxAsks
  BY BoundsAssumption DEF PageTyped
<1>4. lastAsk' \in 1 .. MaxAsks /\ lastAsk + 1 \in 1 .. lastAsk' /\ \A k \in 1 .. lastAsk : k \in 1 .. lastAsk'
  BY <1>1, <1>3
<1> QED
  BY <1>1, <1>2, <1>4 DEF PageTyped

\* The page opens so.
LEMMA InitPageTyped == ASSUME Page!Init PROVE PageTyped
<1>1. /\ chosen = First /\ shown = {} /\ loading = TRUE /\ failed = FALSE /\ lastAsk = 1 /\ busy = FALSE
      /\ posts = {} /\ stock = Stored /\ unborn = Page!Backups \ Stored /\ posted = 0
      /\ asks = {[nr |-> 1, lists |-> [x \in Page!Targets(First) |-> Page!None]]}
  BY DEF Page!Init, Page!Ask
<1>2. MaxPosts \in Nat /\ MaxAsks \in Nat \ {0} /\ First \in Page!Routers \cup {Page!All} /\ Stored \subseteq Page!Backups
  BY BoundsAssumption DEF Page!Routers, Page!Backups, Page!All
<1>3. \A r \in asks : r.nr = 1 /\ \A d \in DOMAIN r.lists : r.lists[d] = Page!None
  BY <1>1
<1>4. 0 \in 0 .. MaxPosts /\ 1 \in 1 .. MaxAsks /\ 1 \in 1 .. 1
  BY <1>2
<1> QED
  BY <1>1, <1>2, <1>3, <1>4 DEF PageTyped

\* Every step of the page keeps its types.
LEMMA NextPageTyped ==
  ASSUME PageInv, PageTyped, Page!Next \/ UNCHANGED pageVars PROVE PageTyped'
<1>0. MaxPosts \in Nat /\ MaxAsks \in Nat
  BY BoundsAssumption
<1>1. ASSUME NEW r \in asks, Page!Loaded(r) PROVE PageTyped'
  <2> DEFINE L == UNION {r.lists[d] : d \in DOMAIN r.lists}
  <2>1. /\ \A d \in DOMAIN r.lists : r.lists[d] # Page!None
        /\ asks' = asks \ {r} /\ shown' \in {shown, L} /\ loading' \in {loading, FALSE}
        /\ UNCHANGED <<chosen, failed, lastAsk, busy, posts, stock, unborn, posted>>
    BY <1>1 DEF Page!Loaded
  <2>2. L \subseteq Page!Backups
    BY <2>1 DEF PageTyped
  <2> HIDE DEF L
  <2> QED
    BY <2>1, <2>2 DEF PageTyped
<1>2. ASSUME NEW r \in asks, Page!LoadFails(r) PROVE PageTyped'
  <2>1. /\ asks' = asks \ {r} /\ loading' \in {loading, FALSE} /\ failed' \in {failed, TRUE}
        /\ UNCHANGED <<chosen, shown, lastAsk, busy, posts, stock, unborn, posted>>
    BY <1>2 DEF Page!LoadFails
  <2> QED
    BY <2>1 DEF PageTyped
<1>3. ASSUME NEW r \in asks, NEW d \in DOMAIN r.lists, Page!Answer(r, d) PROVE PageTyped'
  <2> DEFINE v == {b \in stock : Owner[b] = d}
             n == [r EXCEPT !.lists[d] = v]
  <2>1. /\ asks' = (asks \ {r}) \cup {n}
        /\ UNCHANGED <<chosen, shown, loading, failed, lastAsk, busy, posts, stock, unborn, posted>>
    BY <1>3 DEF Page!Answer
  <2>2. IsAsk(r)
    BY DEF PageInv, PageLists
  <2>3. /\ n.nr = r.nr /\ DOMAIN n.lists = DOMAIN r.lists /\ n.lists[d] = v
        /\ \A x \in DOMAIN r.lists \ {d} : n.lists[x] = r.lists[x]
    BY <2>2 DEF IsAsk
  <2>4. v \subseteq Page!Backups
    BY DEF PageTyped
  <2> HIDE DEF n, v
  <2> QED
    BY <2>1, <2>3, <2>4 DEF PageTyped
<1>4. ASSUME NEW d \in Page!Routers \cup {Page!All}, Page!Choose(d) PROVE PageTyped'
  <2>1. chosen' = d /\ Page!Load(d) /\ UNCHANGED <<busy, posts, stock, unborn, posted>>
    BY <1>4 DEF Page!Choose
  <2> QED
    BY <2>1, LoadTyped DEF PageTyped
<1>5. ASSUME (\E b \in shown : Page!Toggle(b)) \/ (\E V \in SUBSET shown : Page!ToggleAll(V)) PROVE PageTyped'
  <2>1. UNCHANGED <<chosen, shown, loading, failed, lastAsk, asks, busy, posts, stock, unborn, posted>>
    BY <1>5 DEF Page!Toggle, Page!ToggleAll, Page!list
  <2> QED
    BY <2>1 DEF PageTyped
<1>6. ASSUME NEW kind, NEW S \in SUBSET Page!Backups, Page!Post(kind, S), busy' \in BOOLEAN, unborn' \subseteq unborn,
             UNCHANGED <<chosen, shown, loading, failed, lastAsk, asks, stock>>
      PROVE  PageTyped'
  <2> DEFINE n == [nr |-> posted, kind |-> kind, left |-> S, named |-> S]
  <2>1. posted < MaxPosts /\ posted' = posted + 1 /\ posts' = posts \cup {n} /\ n.left = S
    BY <1>6 DEF Page!Post
  <2> HIDE DEF n
  <2>2. posted' \in 0 .. MaxPosts
    BY <1>0, <2>1 DEF PageTyped
  <2> QED
    BY <1>6, <2>1, <2>2 DEF PageTyped
<1>7. ASSUME NEW b \in shown, Page!DeleteOne(b) PROVE PageTyped'
  <2>1. /\ Page!Post("delete", {b}) /\ UNCHANGED <<chosen, shown, loading, failed, lastAsk, asks, stock, unborn, busy>>
    BY <1>7 DEF Page!DeleteOne, Page!list
  <2>2. {b} \in SUBSET Page!Backups /\ busy \in BOOLEAN
    BY DEF PageTyped
  <2> QED
    BY <1>6, <2>1, <2>2
<1>8. CASE Page!DeleteSelected
  <2>1. /\ Page!Post("deleteMany", selected) /\ busy' = TRUE
        /\ UNCHANGED <<chosen, shown, loading, failed, lastAsk, asks, stock, unborn>>
    BY <1>8 DEF Page!DeleteSelected, Page!list
  <2>2. selected \in SUBSET Page!Backups
    BY DEF PageTyped, PageInv, Page!PageIsTrue
  <2> QED
    BY <1>6, <2>1, <2>2
<1>9. ASSUME NEW S \in SUBSET unborn, Page!Create(S) PROVE PageTyped'
  <2>1. /\ Page!Post("create", S) /\ unborn' = unborn \ S
        /\ UNCHANGED <<chosen, shown, loading, failed, lastAsk, asks, stock, busy>>
    BY <1>9 DEF Page!Create, Page!list
  <2>2. S \in SUBSET Page!Backups /\ busy \in BOOLEAN
    BY DEF PageTyped
  <2> QED
    BY <1>6, <2>1, <2>2
<1>10. ASSUME NEW p \in posts, Page!Succeeds(p) \/ Page!Rejected(p) PROVE PageTyped'
  <2>1. /\ posts' = posts \ {p} /\ busy' \in {busy, FALSE}
        /\ Page!Load(chosen) \/ UNCHANGED <<shown, loading, failed, lastAsk, asks>>
        /\ UNCHANGED <<chosen, stock, unborn, posted>>
    <3>1. busy \in BOOLEAN
      BY DEF PageTyped
    <3>2. CASE Page!Succeeds(p)
      BY <3>2 DEF Page!Succeeds, Page!Refresh
    <3>3. CASE Page!Rejected(p)
      <4>1. /\ posts' = posts \ {p} /\ busy' = (busy /\ p.kind # "deleteMany")
            /\ Page!Load(chosen) \/ UNCHANGED <<shown, loading, failed, lastAsk, asks>>
            /\ UNCHANGED <<chosen, stock, unborn, posted>>
        BY <3>3 DEF Page!Rejected, Page!Refresh, Page!list
      <4>2. busy' \in {busy, FALSE}
        BY <3>1, <4>1
      <4> QED
        BY <4>1, <4>2
    <3> QED
      BY <1>10, <3>2, <3>3
  <2>2. CASE Page!Load(chosen)
    BY <2>1, <2>2, LoadTyped DEF PageTyped
  <2>3. CASE UNCHANGED <<shown, loading, failed, lastAsk, asks>>
    BY <2>1, <2>3 DEF PageTyped
  <2> QED
    BY <2>1, <2>2, <2>3
<1>11. ASSUME NEW p \in posts, NEW b \in p.left, Page!Serve(p, b) PROVE PageTyped'
  <2> DEFINE n == [p EXCEPT !.left = @ \ {b}]
  <2>1. /\ posts' = (posts \ {p}) \cup {n} /\ stock' \in {stock \cup {b}, stock \ {b}}
        /\ UNCHANGED <<chosen, shown, loading, failed, lastAsk, asks, busy, unborn, posted>>
    BY <1>11 DEF Page!Serve, Page!list
  <2>2. IsPost(p)
    BY DEF PageInv, PagePosts
  <2>3. n.left = p.left \ {b}
    BY <2>2 DEF IsPost
  <2>4. b \in Page!Backups
    BY DEF PageTyped
  <2> HIDE DEF n
  <2> QED
    BY <2>1, <2>3, <2>4 DEF PageTyped
<1>12. CASE Page!Elsewhere
  <2>1. /\ stock' \cup unborn' \subseteq stock \cup unborn
        /\ UNCHANGED <<chosen, shown, loading, failed, lastAsk, asks, busy, posts, posted>>
    BY <1>12 DEF Page!Elsewhere, Page!list
  <2> QED
    BY <2>1 DEF PageTyped
<1>13. CASE UNCHANGED pageVars
  BY <1>13 DEF pageVars, PageTyped
<1> QED
  BY <1>1, <1>2, <1>3, <1>4, <1>5, <1>7, <1>8, <1>9, <1>10, <1>11, <1>12, <1>13 DEF Page!Next

\* With the invariant of the page these are its types.
LEMMA PageTypesHold == PageInv /\ PageTyped => Page!TypeOK
BY DEF PageInv, PagePosts, PageTyped, Page!TypeOK

-----------------------------------------------------------------------------
(* The types of the reports                                                *)

\* A round is in flight as long as a delivery of the timer is.
ReportTyped ==
  /\ clock \in 1 .. MaxTime /\ active \subseteq Schedules
  /\ saves \in 0 .. MaxSaves /\ mishaps \in 0 .. MaxMishaps
  /\ inFlight = (\E s \in Schedules : sending[s]["timer"].pc # "idle")

\* It starts so.
LEMMA InitReportTyped == ASSUME Reports!Init PROVE ReportTyped
<1>1. MaxTime \in Nat \ {0} /\ MaxSaves \in Nat /\ MaxMishaps \in Nat
  BY BoundsAssumption
<1>2. /\ clock = 1 /\ active = {} /\ saves = 0 /\ mishaps = 0 /\ inFlight = FALSE
      /\ sending = [s \in Schedules |-> [k \in {"timer", "manual"} |-> [pc |-> "idle", at |-> 0]]]
  BY DEF Reports!Init, Reports!Kinds, Reports!NotSending
<1>3. \A s \in Schedules : sending[s]["timer"].pc = "idle"
  BY <1>2
<1>4. clock \in 1 .. MaxTime /\ saves \in 0 .. MaxSaves /\ mishaps \in 0 .. MaxMishaps
  BY <1>1, <1>2
<1>5. ~\E s \in Schedules : sending[s]["timer"].pc # "idle"
  BY <1>3
<1> QED
  BY <1>2, <1>4, <1>5 DEF ReportTyped

\* Every step of the reports keeps their types.
LEMMA NextReportTyped ==
  ASSUME ReportInv, ReportTyped, Reports!Next \/ UNCHANGED reportsVars PROVE ReportTyped'
<1> DEFINE S == [Schedules -> [Reports!Kinds -> SendTypes]]
<1>0. /\ MaxTime \in Nat \ {0} /\ MaxSaves \in Nat /\ MaxMishaps \in Nat /\ sending \in S
      /\ clock \in Nat /\ saves \in Nat /\ mishaps \in Nat /\ Reports!Kinds = {"timer", "manual"}
  BY BoundsAssumption DEF ReportTyped, ReportInv, ReportTypes, Reports!Kinds
<1> HIDE DEF S
<1>1. ASSUME Reports!Mishap PROVE mishaps' \in 0 .. MaxMishaps
  BY <1>0, <1>1 DEF Reports!Mishap, ReportTyped
<1>2. CASE Reports!Elapse
  <2>1. clock < MaxTime /\ clock' = clock + 1 /\ UNCHANGED <<inFlight, active, sending, saves, mishaps>>
    BY <1>2 DEF Reports!Elapse
  <2> QED
    BY <1>0, <2>1 DEF ReportTyped
<1>3. ASSUME NEW s \in Schedules, NEW on \in BOOLEAN, NEW start, NEW every, Reports!Save(s, on, start, every)
      PROVE  ReportTyped'
  <2>1. /\ saves < MaxSaves /\ saves' = saves + 1 /\ UNCHANGED <<clock, inFlight, active, sending>>
        /\ mishaps' = mishaps \/ Reports!Mishap
    BY <1>3 DEF Reports!Save, Reports!Persisted
  <2>2. mishaps' \in 0 .. MaxMishaps
    BY <1>1, <2>1 DEF ReportTyped
  <2> QED
    BY <1>0, <2>1, <2>2 DEF ReportTyped
<1>4. ASSUME NEW s \in Schedules, Reports!Delete(s) PROVE ReportTyped'
  <2>1. UNCHANGED <<clock, inFlight, active, sending, saves>> /\ (mishaps' = mishaps \/ Reports!Mishap)
    BY <1>4 DEF Reports!Delete, Reports!Persisted
  <2>2. mishaps' \in 0 .. MaxMishaps
    BY <1>1, <2>1 DEF ReportTyped
  <2> QED
    BY <2>1, <2>2 DEF ReportTyped
<1>5. ASSUME NEW s \in Schedules, Reports!SendNow(s) PROVE ReportTyped'
  <2>1. /\ active' = active \cup {s} /\ UNCHANGED <<clock, inFlight, saves, mishaps>>
        /\ sending' = [sending EXCEPT ![s]["manual"] = [pc |-> "deliver", at |-> clock]]
    BY <1>5 DEF Reports!SendNow, Reports!Send
  <2>2. \A t \in Schedules : sending'[t]["timer"] = sending[t]["timer"]
    BY <1>0, <2>1 DEF S
  <2> QED
    BY <2>1, <2>2 DEF ReportTyped
<1>6. CASE Reports!Tick
  <2> DEFINE D == {s \in Schedules : Reports!Due(s) /\ s \notin active}
             r == [pc |-> "deliver", at |-> clock]
  <2>1. /\ D # {} /\ D \subseteq Schedules /\ inFlight' = TRUE /\ active' = active \cup D
        /\ sending' = [s \in Schedules |-> IF s \in D THEN [sending[s] EXCEPT !["timer"] = r] ELSE sending[s]]
        /\ UNCHANGED <<clock, saves, mishaps>>
    BY <1>6 DEF Reports!Tick
  <2> HIDE DEF D
  <2>2. PICK s \in Schedules : s \in D
    BY <2>1
  <2>3. sending'[s]["timer"] = r
    BY <1>0, <2>1, <2>2 DEF S
  <2>4. r.pc # "idle"
    OBVIOUS
  <2> HIDE DEF r
  <2> QED
    BY <2>1, <2>3, <2>4 DEF ReportTyped
<1>7. ASSUME NEW s \in Schedules, NEW k \in Reports!Kinds, Reports!Deliver(s, k) PROVE ReportTyped'
  <2> DEFINE r == [sending[s][k] EXCEPT !.pc = "sent"]
  <2>1. /\ sending[s][k].pc = "deliver" /\ sending' = [sending EXCEPT ![s][k] = r]
        /\ UNCHANGED <<clock, inFlight, active, saves, mishaps>>
    BY <1>7 DEF Reports!Deliver, Reports!Send
  <2>2. r.pc = "sent"
    BY <1>0 DEF S, SendTypes
  <2> HIDE DEF r
  <2>3. \A t \in Schedules : \/ sending'[t]["timer"] = sending[t]["timer"]
                             \/ t = s /\ k = "timer" /\ sending'[t]["timer"] = r
    BY <1>0, <2>1 DEF S
  <2>4. \A t \in Schedules : sending'[t]["timer"].pc # "idle" <=> sending[t]["timer"].pc # "idle"
    BY <2>1, <2>2, <2>3
  <2> QED
    BY <2>1, <2>4 DEF ReportTyped
<1>8. ASSUME NEW s \in Schedules, NEW k \in Reports!Kinds, Reports!Settled(s, k), UNCHANGED <<clock, saves>>,
             mishaps' = mishaps \/ Reports!Mishap
      PROVE  ReportTyped'
  <2>1. /\ active' = active \ {s} /\ sending' = [sending EXCEPT ![s][k] = Reports!NotSending]
        /\ inFlight' = (inFlight /\ \E t \in Schedules : sending'[t]["timer"].pc # "idle")
    BY <1>8 DEF Reports!Settled, Reports!Send
  <2>2. Reports!NotSending.pc = "idle"
    BY DEF Reports!NotSending
  <2>3. \A t \in Schedules : sending'[t]["timer"] \in {sending[t]["timer"], Reports!NotSending}
    BY <1>0, <2>1 DEF S
  <2>4. (\E t \in Schedules : sending'[t]["timer"].pc # "idle") => inFlight
    BY <2>2, <2>3 DEF ReportTyped
  <2>5. mishaps' \in 0 .. MaxMishaps
    BY <1>1, <1>8 DEF ReportTyped
  <2> QED
    BY <1>8, <2>1, <2>4, <2>5 DEF ReportTyped
<1>9. ASSUME NEW s \in Schedules, NEW k \in Reports!Kinds, Reports!End(s, k) \/ Reports!Throws(s, k) PROVE ReportTyped'
  <2>1. Reports!Settled(s, k) /\ UNCHANGED <<clock, saves>> /\ (mishaps' = mishaps \/ Reports!Mishap)
    BY <1>9 DEF Reports!End, Reports!Throws, Reports!Persisted
  <2> QED
    BY <1>8, <2>1
<1>10. CASE Reports!Restart
  <2>1. /\ Reports!Mishap /\ inFlight' = FALSE /\ active' = {} /\ UNCHANGED <<clock, saves>>
        /\ sending' = [s \in Schedules |-> [k \in Reports!Kinds |-> Reports!NotSending]]
    BY <1>10 DEF Reports!Restart
  <2>2. \A t \in Schedules : sending'[t]["timer"].pc = "idle"
    BY <1>0, <2>1 DEF Reports!NotSending
  <2> QED
    BY <1>1, <2>1, <2>2 DEF ReportTyped
<1>11. CASE UNCHANGED reportsVars
  BY <1>11 DEF reportsVars, ReportTyped
<1> QED
  BY <1>2, <1>3, <1>4, <1>5, <1>6, <1>7, <1>9, <1>10, <1>11 DEF Reports!Next

\* With the invariant of the schedules these are the types of the reports.
LEMMA ReportTypesHold == ReportInv /\ ReportTyped => Reports!TypeOK
BY DEF ReportInv, ReportTypes, ScheduleTypes, SendTypes, ReportTyped, Reports!TypeOK

-----------------------------------------------------------------------------
(* The types of an upgrade                                                 *)

\* A file that is not there holds nothing.
UpgradeTyped == \A f \in Upgrade!Files : ~dbs[f].there => dbs[f] = Upgrade!NoFile

\* It starts so: what is there was installed.
LEMMA InitUpgradeTyped == ASSUME Upgrade!Init PROVE UpgradeTyped
BY DEF Upgrade!Init, UpgradeTyped

\* Every step of an upgrade that writes a file leaves it there.
LEMMA NextUpgradeTyped ==
  ASSUME UpgradeInv, UpgradeTyped, Upgrade!Next \/ UNCHANGED upgradeVars PROVE UpgradeTyped'
<1>0. dbs \in [Upgrade!Files -> FileTypes] /\ env.url \in Upgrade!Files /\ "main" \in Upgrade!Files
  BY DEF UpgradeInv, UpgradeTypes, EnvTypes, Upgrade!Files
<1>1. ASSUME NEW f \in Upgrade!Files, NEW x, x.there, dbs' = [dbs EXCEPT ![f] = x] PROVE UpgradeTyped'
  BY <1>0, <1>1 DEF UpgradeTyped
<1>2. ASSUME dbs' = dbs PROVE UpgradeTyped'
  BY <1>2 DEF UpgradeTyped
<1>3. CASE Upgrade!Create
  <2> DEFINE x == [Upgrade!NoFile EXCEPT !.there = TRUE]
  <2>1. dbs' = dbs \/ dbs' = [dbs EXCEPT ![env.url] = x]
    BY <1>3 DEF Upgrade!Create, Upgrade!Change
  <2>2. x.there
    BY DEF Upgrade!NoFile
  <2> HIDE DEF x
  <2> QED
    BY <1>0, <1>1, <1>2, <2>1, <2>2
<1>4. CASE Upgrade!Schema
  <2>1. Upgrade!Db.there /\ Upgrade!Db \in FileTypes
    BY <1>0, <1>4 DEF Upgrade!Schema, UpgradeInv, UpgradeWork, Upgrade!Db
  <2>2. CASE dbs' = dbs
    BY <1>2, <2>2
  <2>3. ASSUME NEW k, dbs' = [dbs EXCEPT ![env.url] = [Upgrade!Db EXCEPT !.objects = @ \cup {k}]] PROVE UpgradeTyped'
    <3> DEFINE x == [Upgrade!Db EXCEPT !.objects = @ \cup {k}]
    <3>1. x.there
      BY <2>1 DEF FileTypes
    <3> HIDE DEF x
    <3>2. dbs' = [dbs EXCEPT ![env.url] = x]
      BY <2>3 DEF x
    <3> QED
      BY <1>0, <1>1, <3>1, <3>2
  <2> QED
    BY <1>4, <2>2, <2>3 DEF Upgrade!Schema, Upgrade!Change
<1>5. CASE Upgrade!Migrate
  <2>1. Upgrade!Db.there /\ Upgrade!Db \in FileTypes
    BY <1>0, <1>5 DEF Upgrade!Migrate, UpgradeInv, UpgradeWork, Upgrade!Db
  <2>2. CASE dbs' = dbs
    BY <1>2, <2>2
  <2>3. ASSUME NEW k, dbs' = [dbs EXCEPT ![env.url] = [Upgrade!Db EXCEPT !.objects = @ \cup {k}, !.version = k]]
        PROVE  UpgradeTyped'
    <3> DEFINE x == [Upgrade!Db EXCEPT !.objects = @ \cup {k}, !.version = k]
    <3>1. x.there
      BY <2>1 DEF FileTypes
    <3> HIDE DEF x
    <3>2. dbs' = [dbs EXCEPT ![env.url] = x]
      BY <2>3 DEF x
    <3> QED
      BY <1>0, <1>1, <3>1, <3>2
  <2> QED
    BY <1>5, <2>2, <2>3 DEF Upgrade!Migrate, Upgrade!Change
<1>6. CASE Upgrade!RestoreDb
  <2>1. CASE dbs' = dbs
    BY <1>2, <2>1
  <2>2. CASE backup.db.there /\ dbs' = [dbs EXCEPT !["main"] = backup.db]
    BY <1>0, <1>1, <2>2
  <2>3. ASSUME NEW left \in {dbs["main"], Upgrade!NoFile, Upgrade!Emptied}, dbs' = [dbs EXCEPT !["main"] = left]
        PROVE  UpgradeTyped'
    <3>1. Upgrade!Emptied.there
      BY DEF Upgrade!Emptied, Upgrade!NoFile
    <3>2. ~left.there => left = Upgrade!NoFile
      BY <1>0, <2>3, <3>1 DEF UpgradeTyped
    <3> QED
      BY <1>0, <2>3, <3>2 DEF UpgradeTyped
  <2> QED
    BY <1>6, <2>1, <2>2, <2>3 DEF Upgrade!RestoreDb
<1>7. CASE (\E p \in Payloads, wanted \in {"keep", "other"} : Upgrade!Install(p, wanted)) \/ Upgrade!Toggle
  BY <1>2, <1>7 DEF Upgrade!Install, Upgrade!Toggle
<1>8. CASE \/ Upgrade!StopService \/ Upgrade!BackupState \/ Upgrade!InitializeEnv \/ Upgrade!ReadVersion \/ Upgrade!Seed
           \/ Upgrade!StartService \/ Upgrade!Ready
  BY <1>2, <1>8
  DEF Upgrade!StopService, Upgrade!BackupState, Upgrade!InitializeEnv, Upgrade!ReadVersion, Upgrade!Seed,
      Upgrade!StartService, Upgrade!Ready
<1>9. CASE \/ Upgrade!StepFails \/ Upgrade!RestoreEnv \/ Upgrade!Restart \/ Upgrade!PowerLoss \/ UNCHANGED upgradeVars
  BY <1>2, <1>9 DEF Upgrade!StepFails, Upgrade!RestoreEnv, Upgrade!Restart, Upgrade!PowerLoss, upgradeVars
<1> QED
  BY <1>3, <1>4, <1>5, <1>6, <1>7, <1>8, <1>9 DEF Upgrade!Next

\* With the invariant of an upgrade these are its types.
LEMMA UpgradeTypesHold == UpgradeInv /\ UpgradeTyped => Upgrade!TypeOK
BY DEF UpgradeInv, UpgradeTypes, EnvTypes, UpgradeTyped, Upgrade!TypeOK

-----------------------------------------------------------------------------
(* The types of a device's state                                           *)

\* Settings are numbered up to the last edit, in whatever connection they are kept.
RealtimeTyped ==
  /\ turns \in 0 .. MaxOutages
  /\ refreshOf \in Refreshers \cup {"none"} /\ round \in {"idle", "list", "wait"}
  /\ device.gen <= MaxEdits + 1 /\ (edit = "update" => device.gen <= MaxEdits)
  /\ client.gen <= MaxEdits + 1
  /\ \A c \in Refreshers : job[c].client.gen <= MaxEdits + 1 /\ job[c].seen <= MaxEdits + 1

\* The program starts so, before any edit.
LEMMA InitRealtimeTyped == ASSUME Realtime!Init PROVE RealtimeTyped
<1>1. MaxOutages \in Nat /\ MaxEdits \in Nat
  BY BoundsAssumption
<1>2. /\ turns = 0 /\ refreshOf = "none" /\ round = "idle" /\ edit = "none"
      /\ device.gen = 1 /\ client.gen = 0
      /\ \A c \in Refreshers : job[c].client.gen = 0 /\ job[c].seen = 0
  BY DEF Realtime!Init, Realtime!NoJob, Realtime!NoClient, Realtime!None
<1>3. 0 \in 0 .. MaxOutages /\ 1 <= MaxEdits + 1 /\ 0 <= MaxEdits + 1
  BY <1>1
<1> QED
  BY <1>2, <1>3 DEF RealtimeTyped

\* A refresh that moves on knows no other settings than there are.
LEMMA JobTyped ==
  ASSUME RealtimeTyped, job \in [Refreshers -> Jobs], NEW c \in Refreshers, NEW j, job' = [job EXCEPT ![c] = j],
         j.client.gen <= MaxEdits + 1, j.seen <= MaxEdits + 1, client'.gen <= MaxEdits + 1,
         device'.gen = device.gen, edit' = edit, turns' = turns \/ Realtime!Turn,
         refreshOf' \in {refreshOf, c, "none"}, round' \in {round, "idle", "wait"}
  PROVE  RealtimeTyped'
<1>1. \A d \in Refreshers : job'[d] = IF d = c THEN j ELSE job[d]
  OBVIOUS
<1>2. turns' \in 0 .. MaxOutages
  <2>1. MaxOutages \in Nat /\ turns \in 0 .. MaxOutages
    BY BoundsAssumption DEF RealtimeTyped
  <2>2. CASE turns < MaxOutages /\ turns' = turns + 1
    BY <2>1, <2>2
  <2> QED
    BY <2>1, <2>2 DEF Realtime!Turn
<1> QED
  BY <1>1, <1>2 DEF RealtimeTyped

\* A connection that dies keeps the number of its settings.
LEMMA LostTyped ==
  ASSUME RealtimeInv, NEW c \in Refreshers
  PROVE  LET j == [job[c] EXCEPT !.client.ok = FALSE] IN j.client.gen = job[c].client.gen /\ j.seen = job[c].seen
<1>1. job[c] \in Jobs /\ job[c].client \in Clients
  BY DEF RealtimeInv, RealtimeTypes, Jobs
<1>2. [job[c] EXCEPT !.client.ok = FALSE] = [job[c] EXCEPT !.client = [job[c].client EXCEPT !.ok = FALSE]]
  OBVIOUS
<1>3. PICK k : k = [job[c].client EXCEPT !.ok = FALSE]
  OBVIOUS
<1>4. k.gen = job[c].client.gen
  BY <1>1, <1>3 DEF Clients
<1>5. PICK j : j = [job[c] EXCEPT !.client = k]
  OBVIOUS
<1>6. j.client = k /\ j.seen = job[c].seen
  BY <1>1, <1>5 DEF Jobs
<1> QED
  BY <1>2, <1>3, <1>4, <1>5, <1>6

\* The world, the scheduler and the edits keep their types.
LEMMA AroundTyped ==
  ASSUME RealtimeInv, RealtimeTyped,
         \/ Realtime!RouterDown \/ Realtime!RouterTurns \/ Realtime!RouterLogs
         \/ Realtime!Tick \/ Realtime!EditWrites \/ Realtime!Restart \/ UNCHANGED realtimeVars
         \/ \E kind \in {"update", "delete"} : Realtime!EditBegins(kind)
  PROVE  RealtimeTyped'
<1>0. /\ MaxOutages \in Nat /\ MaxEdits \in Nat /\ turns \in 0 .. MaxOutages
      /\ client \in Clients /\ device \in [gen : Nat, status : {"unknown", "online", "offline"}]
      /\ Realtime!NoJob.client.gen = 0 /\ Realtime!NoJob.seen = 0 /\ Realtime!NoClient.gen = 0 /\ 0 <= MaxEdits + 1
      /\ "none" \notin {"update", "delete"}
  BY BoundsAssumption DEF RealtimeInv, RealtimeTypes, RealtimeTyped, Realtime!NoJob, Realtime!NoClient
<1>1. ASSUME Realtime!Turn PROVE turns' \in 0 .. MaxOutages
  BY <1>0, <1>1 DEF Realtime!Turn
<1>2. [client EXCEPT !.ok = FALSE].gen = client.gen
  BY <1>0 DEF Clients
<1>3. CASE Realtime!RouterDown
  <2>1. /\ Realtime!Turn /\ client' = [client EXCEPT !.ok = FALSE] /\ UNCHANGED <<device, refreshOf, edit, round>>
        /\ job' = [c \in Refreshers |-> [job[c] EXCEPT !.client.ok = FALSE]]
    BY <1>3 DEF Realtime!RouterDown
  <2>2. \A c \in Refreshers : job'[c].client.gen = job[c].client.gen /\ job'[c].seen = job[c].seen
    BY <2>1, LostTyped
  <2> QED
    BY <1>1, <1>2, <2>1, <2>2 DEF RealtimeTyped
<1>4. CASE Realtime!RouterTurns
  <2>1. (turns' = turns \/ Realtime!Turn) /\ UNCHANGED <<device, refreshOf, job, client, edit, round>>
    BY <1>4 DEF Realtime!RouterTurns
  <2> QED
    BY <1>1, <2>1 DEF RealtimeTyped
<1>5. CASE Realtime!RouterLogs \/ UNCHANGED realtimeVars
  BY <1>5 DEF Realtime!RouterLogs, realtimeVars, RealtimeTyped
<1>6. CASE Realtime!Tick
  BY <1>6 DEF Realtime!Tick, Realtime!world, RealtimeTyped
<1>7. CASE Realtime!EditWrites
  <2>1. /\ edit' = "none" /\ UNCHANGED <<turns, refreshOf, job, client, round>>
        /\ \/ edit = "update" /\ device' = [device EXCEPT !.gen = @ + 1]
           \/ device' = [device EXCEPT !.gen = 0]
    BY <1>7, RealtimeSizes DEF Realtime!EditWrites, Realtime!world
  <2>2. device'.gen <= MaxEdits + 1
    <3>1. CASE edit = "update" /\ device' = [device EXCEPT !.gen = @ + 1]
      BY <1>0, <3>1 DEF RealtimeTyped
    <3>2. CASE device' = [device EXCEPT !.gen = 0]
      BY <1>0, <3>2
    <3> QED
      BY <2>1, <3>1, <3>2
  <2> QED
    BY <1>0, <2>1, <2>2 DEF RealtimeTyped
<1>8. CASE Realtime!Restart
  <2>1. /\ Realtime!Turn /\ refreshOf' = "none" /\ job' = [c \in Refreshers |-> Realtime!NoJob]
        /\ client' = Realtime!NoClient /\ edit' = "none" /\ round' = "list" /\ device' = device
    BY <1>8, RealtimeSizes DEF Realtime!Restart
  <2> QED
    BY <1>0, <1>1, <2>1 DEF RealtimeTyped
<1>9. ASSUME NEW kind \in {"update", "delete"}, Realtime!EditBegins(kind) PROVE RealtimeTyped'
  <2>1. /\ (kind = "update" => device.gen <= MaxEdits) /\ edit' = kind /\ client' = Realtime!NoClient
        /\ UNCHANGED <<turns, device, refreshOf, round>>
        /\ \A c \in Refreshers : job'[c] \in {job[c], [job[c] EXCEPT !.client.ok = FALSE]}
    BY <1>9 DEF Realtime!EditBegins, Realtime!Clear, Realtime!world
  <2>2. \A c \in Refreshers : job'[c].client.gen = job[c].client.gen /\ job'[c].seen = job[c].seen
    BY <2>1, LostTyped
  <2> QED
    BY <1>0, <2>1, <2>2 DEF RealtimeTyped
<1> QED
  BY <1>3, <1>4, <1>5, <1>6, <1>7, <1>8, <1>9

\* Every step of the refreshes and around them keeps the types.
LEMMA NextRealtimeTyped ==
  ASSUME RealtimeInv, RealtimeTyped, Realtime!Next \/ UNCHANGED realtimeVars PROVE RealtimeTyped'
<1>0. /\ job \in [Refreshers -> Jobs] /\ 0 <= MaxEdits + 1 /\ client \in Clients
      /\ "scheduler" \in Refreshers /\ "none" \notin Refreshers /\ Realtime!None = "none"
      /\ client.gen <= MaxEdits + 1 /\ device.gen <= MaxEdits + 1
  BY BoundsAssumption, RealtimeSizes DEF RealtimeInv, RealtimeTypes, RealtimeTyped
<1>1. \A c \in Refreshers : job[c] \in Jobs /\ job[c].client.gen <= MaxEdits + 1 /\ job[c].seen <= MaxEdits + 1
  BY <1>0 DEF RealtimeTyped
<1>2. ASSUME NEW j, j \in {Realtime!NoJob, [Realtime!NoJob EXCEPT !.pc = "find"],
                           [Realtime!NoJob EXCEPT !.pc = "find", !.force = TRUE]}
      PROVE  j.client.gen <= MaxEdits + 1 /\ j.seen <= MaxEdits + 1
  <2>1. Realtime!NoJob \in Jobs /\ Realtime!NoJob.client.gen = 0 /\ Realtime!NoJob.seen = 0
    BY RealtimeNoJob DEF Realtime!NoJob, Realtime!NoClient
  <2>2. j.client = Realtime!NoJob.client /\ j.seen = Realtime!NoJob.seen
    BY <1>2, <2>1 DEF Jobs
  <2> QED
    BY <1>0, <2>1, <2>2
<1>3. ASSUME NEW c \in Refreshers, NEW j, job' = [job EXCEPT ![c] = j], j.client = job[c].client, j.seen = job[c].seen,
             client' = client, device'.gen = device.gen, edit' = edit, turns' = turns \/ Realtime!Turn,
             UNCHANGED <<refreshOf, round>>
      PROVE  RealtimeTyped'
  BY <1>0, <1>1, <1>3, JobTyped
<1>4. ASSUME NEW c \in Refreshers, Realtime!Settle(c), client' = client, device'.gen = device.gen, edit' = edit,
             turns' = turns \/ Realtime!Turn
      PROVE  RealtimeTyped'
  BY <1>0, <1>2, <1>4, JobTyped DEF Realtime!Settle
<1>5. ASSUME NEW c \in Refreshers, Realtime!Refresh(c), client' = client, device' = device, edit' = edit, turns' = turns,
             round' \in {round, "wait"}
      PROVE  RealtimeTyped'
  BY <1>0, <1>2, <1>5, JobTyped DEF Realtime!Refresh
<1>6. ASSUME NEW c \in Refreshers, Realtime!Find(c) PROVE RealtimeTyped'
  <2>1. UNCHANGED <<device, edit, turns, refreshOf, round>>
    BY <1>6 DEF Realtime!Find, Realtime!world
  <2>2. CASE client.gen = device.gen /\ ~job[c].force
    <3>1. PICK j : j = [job[c] EXCEPT !.pc = "talk", !.seen = device.gen, !.client = client, !.reused = TRUE]
      OBVIOUS
    <3>2. job' = [job EXCEPT ![c] = j] /\ client' = client
      BY <1>0, <1>6, <2>2, <3>1 DEF Realtime!Find
    <3>3. j.client = client /\ j.seen = device.gen
      BY <1>1, <3>1 DEF Jobs
    <3> QED
      BY <1>0, <2>1, <3>2, <3>3, JobTyped
  <2>3. CASE ~(client.gen = device.gen /\ ~job[c].force)
    <3>1. PICK k : k = [gen |-> device.gen, ok |-> FALSE]
      OBVIOUS
    <3>2. PICK j : j = [job[c] EXCEPT !.pc = "connect", !.seen = device.gen, !.reused = FALSE, !.client = k]
      OBVIOUS
    <3>3. job' = [job EXCEPT ![c] = j] /\ client' = [client EXCEPT !.ok = FALSE]
      BY <1>0, <1>6, <2>3, <3>1, <3>2 DEF Realtime!Find
    <3>4. j.client = k /\ j.seen = device.gen /\ k.gen = device.gen /\ client'.gen = client.gen
      BY <1>0, <1>1, <3>1, <3>2, <3>3 DEF Jobs, Clients
    <3> QED
      BY <1>0, <2>1, <3>3, <3>4, JobTyped
  <2> QED
    BY <2>2, <2>3
<1>7. ASSUME NEW c \in Refreshers, Realtime!Connected(c) PROVE RealtimeTyped'
  <2>1. PICK k : k = [gen |-> job[c].seen, ok |-> TRUE]
    OBVIOUS
  <2>2. PICK j : j = [job[c] EXCEPT !.pc = "talk", !.client = k]
    OBVIOUS
  <2>3. /\ client' = k /\ job' = [job EXCEPT ![c] = j] /\ UNCHANGED <<device, edit, turns, refreshOf, round>>
    BY <1>0, <1>7, <2>1, <2>2 DEF Realtime!Connected, Realtime!world
  <2>4. k.gen = job[c].seen /\ j.client = k /\ j.seen = job[c].seen
    BY <1>1, <2>1, <2>2 DEF Jobs
  <2> QED
    BY <1>0, <1>1, <2>3, <2>4, JobTyped
<1>8. ASSUME NEW c \in Refreshers, Realtime!Talk(c) PROVE RealtimeTyped'
  <2>1. PICK polled \in BOOLEAN, came \in BOOLEAN, p \in Realtime!PortsPrinted, h \in Realtime!SensorsPrinted :
          /\ c # "scheduler" => polled
          /\ came => polled
          /\ job' = [job EXCEPT ![c].pc = "traffic", ![c].polled = polled,
                                ![c].logs = IF came THEN Realtime!LogOf(entries) ELSE {},
                                ![c].port = p, ![c].health = h]
    BY <1>8 DEF Realtime!Talk
  <2>2. PICK j : j = [job[c] EXCEPT !.pc = "traffic", !.polled = polled,
                             !.logs = IF came THEN Realtime!LogOf(entries) ELSE {},
                             !.port = p, !.health = h]
    OBVIOUS
  <2>3. job' = [job EXCEPT ![c] = j]
    BY <1>0, <2>1, <2>2
  <2>4. j.client = job[c].client /\ j.seen = job[c].seen
    BY <1>1, <2>2 DEF Jobs
  <2>5. UNCHANGED <<client, device, edit, turns, refreshOf, round>>
    BY <1>8 DEF Realtime!Talk, Realtime!world
  <2> QED
    BY <1>3, <2>3, <2>4, <2>5
<1>9. ASSUME NEW c \in Refreshers, Realtime!SaveOnline(c) PROVE RealtimeTyped'
  <2>1. PICK j : j = [job[c] EXCEPT !.pc = "online"]
    OBVIOUS
  <2>2. /\ job' = [job EXCEPT ![c] = j] /\ device' = [device EXCEPT !.status = "online"]
        /\ UNCHANGED <<client, edit, turns, refreshOf, round>>
    BY <1>0, <1>9, <2>1 DEF Realtime!SaveOnline, Realtime!Go, Realtime!world
  <2>3. j.client = job[c].client /\ j.seen = job[c].seen
    BY <1>1, <2>1 DEF Jobs
  <2>4. device'.gen = device.gen
    BY <2>2 DEF RealtimeInv, RealtimeTypes
  <2> QED
    BY <1>3, <2>2, <2>3, <2>4
<1>10. ASSUME NEW c \in Refreshers, Realtime!PublishOnline(c) PROVE RealtimeTyped'
  <2>1. PICK p : p = IF job[c].polled THEN "logged" ELSE "health"
    OBVIOUS
  <2>2. PICK j : j = [job[c] EXCEPT !.pc = p, !.port = "none"]
    OBVIOUS
  <2>3. /\ job' = [job EXCEPT ![c] = j] /\ UNCHANGED <<client, device, edit, turns, refreshOf, round>>
    BY <1>0, <1>10, <2>1, <2>2 DEF Realtime!PublishOnline, Realtime!world
  <2>4. j.client = job[c].client /\ j.seen = job[c].seen
    BY <1>1, <2>2 DEF Jobs
  <2> QED
    BY <1>3, <2>3, <2>4
<1>11. ASSUME NEW c \in Refreshers, Realtime!AskBaseline(c) PROVE RealtimeTyped'
  <2>1. PICK j : j = [job[c] EXCEPT !.pc = "remember", !.known = baseline]
    OBVIOUS
  <2>2. /\ job' = [job EXCEPT ![c] = j] /\ UNCHANGED <<client, device, edit, turns, refreshOf, round>>
    BY <1>0, <1>11, <2>1 DEF Realtime!AskBaseline, Realtime!world
  <2>3. j.client = job[c].client /\ j.seen = job[c].seen
    BY <1>1, <2>1 DEF Jobs
  <2> QED
    BY <1>3, <2>2, <2>3
<1>12. ASSUME NEW c \in Refreshers, Realtime!Remember(c) PROVE RealtimeTyped'
  <2>1. PICK e : e = Realtime!Oldest(job[c].logs)
    OBVIOUS
  <2>2. PICK n : n = IF e \notin seenLog /\ job[c].known THEN e ELSE 0
    OBVIOUS
  <2>3. PICK j : j = [job[c] EXCEPT !.logs = job[c].logs \ {e}, !.entry = n]
    OBVIOUS
  <2>4. /\ job' = [job EXCEPT ![c] = j] /\ UNCHANGED <<client, device, edit, turns, refreshOf, round>>
    BY <1>0, <1>12, <2>1, <2>2, <2>3 DEF Realtime!Remember, Realtime!world
  <2>5. j.client = job[c].client /\ j.seen = job[c].seen
    BY <1>1, <2>3 DEF Jobs
  <2> QED
    BY <1>3, <2>4, <2>5
<1>13. ASSUME NEW c \in Refreshers, Realtime!Publish(c) PROVE RealtimeTyped'
  <2>1. PICK j : j = [job[c] EXCEPT !.entry = 0]
    OBVIOUS
  <2>2. /\ job' = [job EXCEPT ![c] = j] /\ UNCHANGED <<client, device, edit, turns, refreshOf, round>>
    BY <1>0, <1>13, <2>1 DEF Realtime!Publish, Realtime!world
  <2>3. j.client = job[c].client /\ j.seen = job[c].seen
    BY <1>1, <2>1 DEF Jobs
  <2> QED
    BY <1>3, <2>2, <2>3
<1>14. ASSUME NEW c \in Refreshers, Realtime!MarkInitialized(c) PROVE RealtimeTyped'
  <2>1. PICK j : j = [job[c] EXCEPT !.pc = "prune", !.known = FALSE]
    OBVIOUS
  <2>2. /\ job' = [job EXCEPT ![c] = j] /\ UNCHANGED <<client, device, edit, turns, refreshOf, round>>
    BY <1>0, <1>14, <2>1 DEF Realtime!MarkInitialized, Realtime!world
  <2>3. j.client = job[c].client /\ j.seen = job[c].seen
    BY <1>1, <2>1 DEF Jobs
  <2> QED
    BY <1>3, <2>2, <2>3
<1>15. ASSUME NEW c \in Refreshers, Realtime!Prune(c) PROVE RealtimeTyped'
  <2>1. PICK j : j = [job[c] EXCEPT !.pc = "health"]
    OBVIOUS
  <2>2. /\ job' = [job EXCEPT ![c] = j] /\ UNCHANGED <<client, device, edit, turns, refreshOf, round>>
    BY <1>0, <1>15, <2>1 DEF Realtime!Prune, Realtime!Go, Realtime!world
  <2>3. j.client = job[c].client /\ j.seen = job[c].seen
    BY <1>1, <2>1 DEF Jobs
  <2> QED
    BY <1>3, <2>2, <2>3
<1>16. ASSUME NEW c \in Refreshers, Realtime!Fail(c) PROVE RealtimeTyped'
  <2>1. /\ client' = Realtime!NoClient /\ UNCHANGED <<device, edit, refreshOf, round>> /\ (turns' = turns \/ Realtime!Turn)
    BY <1>16 DEF Realtime!Fail, Realtime!Caught
  <2>2. client'.gen = 0 /\ Realtime!NoClient.gen = 0
    BY <2>1 DEF Realtime!NoClient
  <2>3. CASE job[c].reused
    <3>1. job' = [job EXCEPT ![c] = [Realtime!NoJob EXCEPT !.pc = "find", !.force = TRUE]]
      BY <1>0, <1>16, <2>3 DEF Realtime!Fail, Realtime!Caught
    <3> QED
      BY <1>0, <1>2, <2>1, <2>2, <3>1, JobTyped
  <2>4. CASE ~job[c].reused
    <3>1. PICK x : x = Realtime!Excused(c)
      OBVIOUS
    <3>2. PICK j : j = [job[c] EXCEPT !.pc = "offline", !.client = Realtime!NoClient, !.excuse = x]
      OBVIOUS
    <3>3. job' = [job EXCEPT ![c] = j]
      BY <1>0, <1>16, <2>4, <3>1, <3>2 DEF Realtime!Fail, Realtime!Caught
    <3>4. j.client = Realtime!NoClient /\ j.seen = job[c].seen
      BY <1>1, <3>2 DEF Jobs
    <3> QED
      BY <1>0, <1>1, <2>1, <2>2, <3>3, <3>4, JobTyped
  <2> QED
    BY <2>3, <2>4
<1>17. ASSUME NEW c \in Refreshers, Realtime!Offline(c) PROVE RealtimeTyped'
  <2>1. /\ Realtime!Settle(c) /\ UNCHANGED <<client, edit>> /\ (turns' = turns \/ Realtime!Turn)
        /\ device' = device \/ device' = [device EXCEPT !.status = "offline"]
    BY <1>17 DEF Realtime!Offline
  <2>2. device'.gen = device.gen
    BY <2>1 DEF RealtimeInv, RealtimeTypes
  <2> QED
    BY <1>4, <2>1, <2>2
<1>18. ASSUME NEW c \in Refreshers, Realtime!FindFails(c) \/ Realtime!PublishHealth(c) PROVE RealtimeTyped'
  <2>1. Realtime!Settle(c) /\ UNCHANGED <<client, device, edit>> /\ (turns' = turns \/ Realtime!Turn)
    BY <1>18 DEF Realtime!FindFails, Realtime!PublishHealth, Realtime!world
  <2> QED
    BY <1>4, <2>1
<1>19. ASSUME NEW c \in Refreshers, Realtime!Request(c) PROVE RealtimeTyped'
  BY <1>5, <1>19 DEF Realtime!Request, Realtime!world
<1>20. CASE Realtime!Listed
  <2>1. UNCHANGED <<client, device, edit, turns>> /\ round' \in {"idle", "wait"}
    BY <1>20 DEF Realtime!Listed, Realtime!world
  <2>2. CASE device.gen # 0 /\ refreshOf = "none"
    <3>1. Realtime!Refresh("scheduler") /\ round' = "wait"
      BY <1>0, <1>20, <2>2 DEF Realtime!Listed
    <3> QED
      BY <1>0, <1>5, <2>1, <3>1
  <2>3. CASE ~(device.gen # 0 /\ refreshOf = "none")
    <3>1. UNCHANGED <<refreshOf, job>>
      BY <1>0, <1>20, <2>3 DEF Realtime!Listed
    <3> QED
      BY <2>1, <3>1 DEF RealtimeTyped
  <2> QED
    BY <2>2, <2>3
<1> QED
  BY <1>6, <1>7, <1>8, <1>9, <1>10, <1>11, <1>12, <1>13, <1>14, <1>15, <1>16, <1>17, <1>18, <1>19, <1>20,
     AroundTyped
  DEF Realtime!Next, Realtime!Step

\* With the invariant of the refreshes these are their types.
LEMMA RealtimeTypesHold == RealtimeInv /\ RealtimeTyped => Realtime!TypeOK
<1> SUFFICES ASSUME RealtimeInv, RealtimeTyped PROVE Realtime!TypeOK
  OBVIOUS
<1>1. MaxEdits \in Nat /\ MaxEntries \in Nat
  BY BoundsAssumption, RealtimeSizes
<1>2. \A n \in Nat : n <= MaxEdits + 1 => n \in 0 .. MaxEdits + 1
  BY <1>1
<1>3. /\ device \in [gen : 0 .. MaxEdits + 1, status : {"unknown", "online", "offline"}]
      /\ client \in [gen : 0 .. MaxEdits + 1, ok : BOOLEAN]
  BY <1>2 DEF RealtimeInv, RealtimeTypes, RealtimeTyped, Clients
<1>4. ASSUME NEW c \in Refreshers
      PROVE  /\ job[c].client \in [gen : 0 .. MaxEdits + 1, ok : BOOLEAN] /\ job[c].logs \subseteq Realtime!Entries
             /\ job[c].pc # "idle" => refreshOf = c
  <2>1. job[c].client \in Clients /\ job[c].logs \subseteq Realtime!Entries
    BY DEF RealtimeInv, RealtimeTypes, Jobs
  <2>2. job[c].client \in [gen : 0 .. MaxEdits + 1, ok : BOOLEAN]
    BY <1>2, <2>1 DEF Clients, RealtimeTyped
  <2> QED
    BY <2>1, <2>2 DEF RealtimeInv, Refreshing
<1>5. seenLog \subseteq Realtime!Entries /\ old \subseteq Realtime!Entries
  <2>1. \A e \in 1 .. entries : e \in 1 .. MaxEntries
    BY <1>1 DEF RealtimeInv, RealtimeTypes
  <2> QED
    BY <2>1, RealtimeSizes DEF RealtimeInv, Remembered
<1>6. announced \in [Realtime!Entries -> Nat]
  BY DEF RealtimeInv, Remembered
<1> QED
  BY <1>3, <1>4, <1>5, <1>6, RealtimeSizes
  DEF RealtimeInv, RealtimeTypes, RealtimeTyped, Healths, Online, Realtime!Online, Realtime!TypeOK

-----------------------------------------------------------------------------
(* The types of the syslog settings                                        *)

\* What is open listens on the port of a configuration and is nobody else's, and an update
\* that is not in the receiver's start() has no start() under way: also when one met
\* SyslogService.start() half-way.
SocketsTyped ==
  open \subseteq Settings!Transports \X {c.port : c \in AllConfigs} /\ open \cap taken = {}

SettingsTyped ==
  /\ SocketsTyped /\ rule \in Ports
  /\ update.pc \in {"idle", "firewall", "save", "undoFirewall"} => call["update"].pc = "none"
  /\ degraded \in BOOLEAN /\ unsynced \in BOOLEAN

\* The program starts so, with nothing open.
LEMMA InitSettingsTyped == ASSUME Settings!Init PROVE SettingsTyped
<1>1. /\ open = {} /\ taken = {} /\ rule = 0 /\ call["update"].pc = "none" /\ degraded = FALSE /\ unsynced = TRUE
  BY DEF Settings!Init, Settings!NoCall, Settings!Actors
<1> QED
  BY <1>1, PortsDiffer DEF SettingsTyped, SocketsTyped

\* Sockets close, and open where nobody holds the port.
LEMMA SocketsClose ==
  ASSUME SocketsTyped, NEW a, NEW c, Settings!CallStart(a, c), taken' = taken
  PROVE  SocketsTyped'
BY DEF SocketsTyped, Settings!CallStart

\* The steps of the receiver's start() keep the types.
LEMMA StartStepTyped ==
  ASSUME SettingsInv, SettingsTyped, NEW a \in Settings!Actors, Settings!StartStep(a)
  PROVE  SettingsTyped'
<1>0. SettingsTypes /\ SocketsTyped
  BY DEF SettingsInv, SettingsTyped
<1>1. /\ SettingsTypes' /\ call[a].pc \in {"stopped", "udp", "udpDone", "tcp"}
      /\ \A b \in Settings!Actors \ {a} : call'[b] = call[b]
      /\ UNCHANGED <<rule, taken, update, degraded, unsynced>>
  BY <1>0, SettingsStepTypes
<1>2. open' = open \/ \E t \in Settings!Transports, p \in {bound.port, bound'.port} :
                        <<t, p>> \notin open \cup taken /\ open' = open \cup {<<t, p>>}
  BY DEF Settings!StartStep, Settings!Stopped, Settings!KeepUdp, Settings!StartTcp, Settings!KeepTcp, Settings!Bind,
         Settings!Transports
<1>3. {bound.port, bound'.port} \subseteq {c.port : c \in AllConfigs}
  BY <1>0, <1>1 DEF SettingsTypes
<1>4. SocketsTyped'
  <2>1. CASE open' = open
    BY <1>0, <1>1, <2>1 DEF SocketsTyped
  <2>2. ASSUME NEW t \in Settings!Transports, NEW p \in {bound.port, bound'.port},
               <<t, p>> \notin open \cup taken, open' = open \cup {<<t, p>>}
        PROVE  SocketsTyped'
    <3>1. <<t, p>> \in Settings!Transports \X {c.port : c \in AllConfigs}
      BY <1>3
    <3> QED
      BY <1>0, <1>1, <2>2, <3>1 DEF SocketsTyped
  <2> QED
    BY <1>2, <2>1, <2>2
<1>5. update.pc \in {"idle", "firewall", "save", "undoFirewall"} => call'["update"].pc = "none"
  BY <1>1 DEF SettingsTyped, Settings!Actors
<1> QED
  BY <1>1, <1>4, <1>5 DEF SettingsTyped

\* Every step of the settings keeps the types.
LEMMA NextSettingsTyped ==
  ASSUME SettingsInv, SettingsTyped, Settings!Next \/ UNCHANGED settingsVars PROVE SettingsTyped'
<1>0. /\ SettingsTypes /\ SocketsTyped /\ rule \in Ports /\ degraded \in BOOLEAN /\ unsynced \in BOOLEAN
      /\ call \in [Settings!Actors -> Calls] /\ "update" \in Settings!Actors /\ "boot" \in Settings!Actors
  BY DEF SettingsInv, SettingsTypes, SettingsTyped, Settings!Actors
<1>1. update \in [pc : {"idle", "start", "refused", "firewall", "save", "undo", "undoFirewall"},
                  next : AllConfigs, prev : AllConfigs]
  BY <1>0 DEF SettingsTypes
<1>2. \A l : [update EXCEPT !.pc = l].pc = l
  BY <1>1
<1>3. \A c \in AllConfigs : Settings!RuleOf(c) \in Ports
  BY PortsDiffer DEF Settings!RuleOf, Ports
<1>4. \A r : \A a \in Settings!Actors : [call EXCEPT ![a] = r][a] = r /\
        \A b \in Settings!Actors : b # a => [call EXCEPT ![a] = r][b] = call[b]
  BY <1>0
<1>5. Settings!NoCall.pc = "none" /\ Settings!NoUpdate.pc = "idle"
  BY SettingsNothing
<1>6. CASE Settings!Others
  <2>1. \/ \E x : x \notin open /\ taken' = taken \cup {x}
        \/ taken' = {}
    BY <1>6 DEF Settings!Others
  <2>2. UNCHANGED <<rule, open, call, update, degraded, unsynced>>
    BY <1>6 DEF Settings!Others, Settings!places, Settings!sockets, Settings!ssHistory
  <2> QED
    BY <2>1, <2>2 DEF SettingsTyped, SocketsTyped
<1>7. CASE Settings!BootRead \/ UNCHANGED settingsVars \/ \E c \in Configs : Settings!Ask(c)
  BY <1>7 DEF Settings!BootRead, Settings!Ask, Settings!places, Settings!sockets, Settings!ssHistory, settingsVars,
              SettingsTyped, SocketsTyped
<1>8. CASE Settings!BootStart
  <2>1. Settings!CallStart("boot", memory) /\ UNCHANGED <<rule, taken, update, degraded, unsynced>>
    BY <1>8 DEF Settings!BootStart, Settings!places, Settings!ssHistory
  <2>2. call'["update"] = call["update"]
    BY <1>0, <2>1 DEF Settings!CallStart
  <2>3. SocketsTyped'
    BY <1>0, <2>1, SocketsClose
  <2> QED
    BY <2>1, <2>2, <2>3 DEF SettingsTyped
<1>9. CASE Settings!BootEnd
  <2>1. /\ Settings!Back("boot") /\ degraded' = Settings!Refused(call["boot"].cfg)
        /\ UNCHANGED <<rule, open, taken, update, unsynced>>
    BY <1>9 DEF Settings!BootEnd, Settings!places, Settings!sockets
  <2>2. call'["update"] = call["update"] /\ degraded' \in BOOLEAN
    BY <1>0, <2>1 DEF Settings!Back, Settings!Refused
  <2> QED
    BY <2>1, <2>2 DEF SettingsTyped, SocketsTyped
<1>10. CASE Settings!Apply
  <2>1. /\ update' = [pc |-> "start", next |-> Head(waiting), prev |-> memory]
        /\ Settings!CallStart("update", Head(waiting)) /\ UNCHANGED <<rule, taken, degraded, unsynced>>
    BY <1>10 DEF Settings!Apply, Settings!places
  <2>2. SocketsTyped' /\ update'.pc = "start"
    BY <1>0, <2>1, SocketsClose
  <2> QED
    BY <2>1, <2>2 DEF SettingsTyped
<1>11. CASE Settings!Started
  <2>1. UNCHANGED <<rule, taken, degraded, unsynced>>
    BY <1>11 DEF Settings!Started, Settings!places, Settings!ssHistory
  <2>2. CASE Settings!Refused(update.next)
    <3>1. update' = [update EXCEPT !.pc = "refused"] /\ Settings!CallStart("update", update.prev)
      BY <1>11, <2>2 DEF Settings!Started, Settings!UpdateGo
    <3>2. SocketsTyped' /\ update'.pc = "refused"
      BY <1>0, <1>2, <2>1, <3>1, SocketsClose
    <3> QED
      BY <2>1, <3>2 DEF SettingsTyped
  <2>3. CASE ~Settings!Refused(update.next)
    <3>1. update' = [update EXCEPT !.pc = "firewall"] /\ Settings!Back("update") /\ open' = open
      BY <1>11, <2>3 DEF Settings!Started, Settings!UpdateGo, Settings!sockets
    <3>2. call'["update"].pc = "none"
      BY <1>0, <1>4, <1>5, <3>1 DEF Settings!Back
    <3> QED
      BY <2>1, <3>1, <3>2 DEF SettingsTyped, SocketsTyped
  <2> QED
    BY <2>2, <2>3
<1>12. CASE Settings!FirewallOk
  <2>1. /\ update.pc = "firewall" /\ rule' = Settings!RuleOf(update.next)
        /\ UNCHANGED <<open, taken, call, degraded, unsynced>>
    BY <1>12 DEF Settings!FirewallOk, Settings!sockets, Settings!ssHistory
  <2>2. rule' \in Ports
    BY <1>1, <1>3, <2>1
  <2> QED
    BY <2>1, <2>2 DEF SettingsTyped, SocketsTyped
<1>13. CASE Settings!FirewallFails \/ Settings!SaveFails
  <2>1. /\ rule' \in {rule, Settings!RuleOf(update.next)} /\ update' = [update EXCEPT !.pc = "undo"]
        /\ Settings!CallStart("update", update.prev) /\ UNCHANGED <<taken, degraded, unsynced>>
    BY <1>13 DEF Settings!FirewallFails, Settings!SaveFails, Settings!UpdateGo, Settings!places, Settings!ssHistory
  <2>2. rule' \in Ports /\ update'.pc = "undo" /\ SocketsTyped'
    BY <1>0, <1>1, <1>2, <1>3, <2>1, SocketsClose
  <2> QED
    BY <2>1, <2>2 DEF SettingsTyped
<1>14. CASE Settings!SaveOk
  <2>1. /\ update.pc = "save" /\ degraded' = FALSE /\ unsynced' = FALSE /\ UNCHANGED <<rule, open, taken, call>>
    BY <1>14 DEF Settings!SaveOk, Settings!sockets
  <2> QED
    BY <2>1 DEF SettingsTyped, SocketsTyped
<1>15. CASE Settings!RolledBack
  <2>1. /\ Settings!Back("update") /\ degraded' = Settings!Refused(update.prev)
        /\ UNCHANGED <<rule, open, taken, unsynced>>
    BY <1>15 DEF Settings!RolledBack, Settings!sockets
  <2>2. call'["update"].pc = "none" /\ degraded' \in BOOLEAN
    BY <1>0, <1>4, <1>5, <2>1 DEF Settings!Back, Settings!Refused
  <2> QED
    BY <2>1, <2>2 DEF SettingsTyped, SocketsTyped
<1>16. CASE Settings!UndoFirewall
  <2>1. /\ update.pc = "undoFirewall" /\ rule' \in {rule, Settings!RuleOf(update.prev)} /\ unsynced' \in {unsynced, TRUE}
        /\ UNCHANGED <<open, taken, call, degraded>>
    BY <1>16 DEF Settings!UndoFirewall, Settings!sockets
  <2>2. rule' \in Ports
    BY <1>0, <1>1, <1>3, <2>1
  <2> QED
    BY <1>0, <2>1, <2>2 DEF SettingsTyped, SocketsTyped
<1>17. CASE Settings!Reboot
  <2>1. /\ open' = {} /\ call' = [a \in Settings!Actors |-> Settings!NoCall] /\ degraded' = FALSE /\ unsynced' = TRUE
        /\ UNCHANGED <<rule, taken>>
    BY <1>17 DEF Settings!Reboot
  <2> QED
    BY <1>0, <1>5, <2>1 DEF SettingsTyped, SocketsTyped
<1> QED
  BY <1>6, <1>7, <1>8, <1>9, <1>10, <1>11, <1>12, <1>13, <1>14, <1>15, <1>16, <1>17, StartStepTyped DEF Settings!Next

\* With the invariant of the settings these are their types.
LEMMA SettingsTypesHold == SettingsInv /\ SettingsTyped => Settings!TypeOK
<1> SUFFICES ASSUME SettingsInv, SettingsTyped PROVE Settings!TypeOK
  OBVIOUS
<1> QED
  BY DEF SettingsInv, SettingsTypes, SettingsTyped, SocketsTyped, AllConfigs, Ports, Settings!TypeOK

-----------------------------------------------------------------------------
(* The types of the inventory                                              *)

\* The end of a round, and of a device job, is in the hands of one caller, who has it to do
\* once; it is in somebody's hands as long as the round or job counts as under way.
Has(w, e) == \E i \in 1 .. Len(w) : w[i] = e
Once(w, e) == \A i, j \in 1 .. Len(w) : w[i] = e /\ w[j] = e => i = j
Guarded(W, e, f) ==
  /\ f = (\E c \in Collectors : Has(W[c], e))
  /\ \A c \in Collectors : Once(W[c], e)
  /\ \A c, d \in Collectors : Has(W[c], e) /\ Has(W[d], e) => c = d

ErrandsTyped == Guarded(work, "endRound", roundInFlight) /\ Guarded(work, "endJob", deviceJob)

\* A snapshot holds no answer the router has not given yet.
SnapshotsTyped ==
  /\ \A i \in DOMAIN snapshots : \A s \in Sections : snapshots[i].sections[s] <= answers
  /\ \A c \in Collectors : snap[c] <= Len(snapshots)

\* Nobody has anything to do: so it is in the beginning and after a restart.
LEMMA NothingToDo ==
  ASSUME NEW W, \A c \in Collectors : W[c] = <<>>, NEW e PROVE Guarded(W, e, FALSE)
<1>1. \A c \in Collectors : ~Has(W[c], e) /\ Once(W[c], e)
  BY DEF Has, Once
<1> QED
  BY <1>1 DEF Guarded

\* It starts so: nobody has anything to do.
LEMMA InitInventoryTyped == ASSUME Inventory!Init PROVE ErrandsTyped /\ SnapshotsTyped
<1>1. /\ snapshots = <<>> /\ roundInFlight = FALSE /\ deviceJob = FALSE
      /\ \A c \in Collectors : work[c] = <<>> /\ snap[c] = 0
  BY DEF Inventory!Init
<1>2. \A e : Guarded(work, e, FALSE)
  BY <1>1, NothingToDo
<1>3. Len(snapshots) = 0 /\ DOMAIN snapshots = {}
  BY <1>1
<1>4. SnapshotsTyped
  BY <1>1, <1>3 DEF SnapshotsTyped
<1> QED
  BY <1>1, <1>2, <1>4 DEF ErrandsTyped

\* An errand of another kind is done: those that follow stay.
LEMMA NextErrand ==
  ASSUME NEW w \in Seq(Errands), w # <<>>, NEW e, Once(w, e)
  PROVE  /\ Once(Tail(w), e)
         /\ Head(w) # e => (Has(Tail(w), e) <=> Has(w, e))
         /\ Head(w) = e => ~Has(Tail(w), e) /\ Has(w, e)
<1>1. /\ Len(w) \in Nat \ {0} /\ Len(Tail(w)) = Len(w) - 1 /\ Head(w) = w[1]
      /\ \A i \in 1 .. Len(w) - 1 : Tail(w)[i] = w[i + 1]
  OBVIOUS
<1>2. \A i \in 1 .. Len(w) - 1 : i + 1 \in 1 .. Len(w) /\ i + 1 # 1
  BY <1>1
<1>3. \A i \in 1 .. Len(w) : i = 1 \/ (i - 1 \in 1 .. Len(w) - 1 /\ (i - 1) + 1 = i)
  BY <1>1
<1>4. Once(Tail(w), e)
  <2> SUFFICES ASSUME NEW i \in 1 .. Len(w) - 1, NEW j \in 1 .. Len(w) - 1, w[i + 1] = e, w[j + 1] = e PROVE i = j
    BY <1>1 DEF Once
  <2>1. i + 1 = j + 1
    BY <1>2 DEF Once
  <2> QED
    BY <2>1
<1>5. ASSUME Head(w) # e PROVE Has(Tail(w), e) <=> Has(w, e)
  <2>1. ASSUME NEW i \in 1 .. Len(w), w[i] = e PROVE Has(Tail(w), e)
    <3>1. i - 1 \in 1 .. Len(w) - 1 /\ Tail(w)[i - 1] = e
      BY <1>1, <1>3, <1>5, <2>1
    <3> QED
      BY <1>1, <3>1 DEF Has
  <2>2. ASSUME NEW i \in 1 .. Len(w) - 1, w[i + 1] = e PROVE Has(w, e)
    BY <1>2, <2>2 DEF Has
  <2> QED
    BY <1>1, <2>1, <2>2 DEF Has
<1>6. ASSUME Head(w) = e PROVE ~Has(Tail(w), e) /\ Has(w, e)
  <2>1. 1 \in 1 .. Len(w) /\ w[1] = e
    BY <1>1, <1>6
  <2>2. \A i \in 1 .. Len(w) - 1 : w[i + 1] # e
    BY <1>2, <2>1 DEF Once
  <2> QED
    BY <1>1, <2>1, <2>2 DEF Has
<1> QED
  BY <1>4, <1>5, <1>6

\* A caller's errands change, and not whether the one of kind e is among them.
LEMMA GuardKept ==
  ASSUME NEW W, NEW V, NEW c \in Collectors, \A d \in Collectors : d # c => V[d] = W[d], NEW e, NEW f, Guarded(W, e, f),
         Has(V[c], e) <=> Has(W[c], e), Once(V[c], e)
  PROVE  Guarded(V, e, f)
<1>1. \A d \in Collectors : (Has(V[d], e) <=> Has(W[d], e)) /\ Once(V[d], e)
  BY DEF Guarded
<1> QED
  BY <1>1 DEF Guarded

\* The errand of kind e is done.
LEMMA GuardFreed ==
  ASSUME NEW W, NEW V, NEW c \in Collectors, \A d \in Collectors : d # c => V[d] = W[d], NEW e, NEW f, Guarded(W, e, f),
         Has(W[c], e), ~Has(V[c], e), Once(V[c], e)
  PROVE  Guarded(V, e, FALSE)
<1>1. \A d \in Collectors : ~Has(V[d], e) /\ Once(V[d], e)
  BY DEF Guarded
<1> QED
  BY <1>1 DEF Guarded

\* The errand of kind e is taken on while nobody else has it.
LEMMA GuardTaken ==
  ASSUME NEW W, NEW V, NEW c \in Collectors, \A d \in Collectors : d # c => V[d] = W[d], NEW e, Guarded(W, e, FALSE),
         Has(V[c], e), Once(V[c], e)
  PROVE  Guarded(V, e, TRUE)
<1>1. \A d \in Collectors : ~Has(W[d], e)
  BY DEF Guarded
<1>2. \A d \in Collectors : (Has(V[d], e) <=> d = c) /\ Once(V[d], e)
  BY <1>1 DEF Guarded
<1> QED
  BY <1>2 DEF Guarded

\* What a plan has to end it ends once, and only if nobody else is about to.
LEMMA PlanErrands ==
  ASSUME NEW c \in Collectors, NEW w, w = Inventory!Plan(c[1])
  PROVE  /\ Once(w, "endRound") /\ (Has(w, "endRound") => ~roundInFlight)
         /\ Once(w, "endJob") /\ (Has(w, "endJob") => ~deviceJob)
<1>1. c[1] \in {"round", "all", "device", "manual"}
  BY InventoryAssumption
<1>2. PICK k : k = c[1]
  OBVIOUS
<1> DEFINE None(v) == \A i \in 1 .. Len(v) : v[i] \notin {"endRound", "endJob"}
           Job == <<"collect", "all", "device", "endJob">> \o <<"all", "device">>
           Round == <<"collect", "all", "endRound">> \o <<"all">>
           Alone == <<"collect", "all", "endRound">>
<1>3. \A v : None(v) => Once(v, "endRound") /\ ~Has(v, "endRound") /\ Once(v, "endJob") /\ ~Has(v, "endJob")
  BY DEF Once, Has
<1>4. ASSUME NEW v, v = Alone \/ v = Round PROVE Once(v, "endRound") /\ Once(v, "endJob") /\ ~Has(v, "endJob")
  <2>1. \A i \in 1 .. Len(v) : (v[i] = "endRound" => i = 3) /\ v[i] # "endJob"
    <3>1. CASE v = Alone
      BY <3>1
    <3>2. CASE v = Round
      BY <3>2
    <3> QED
      BY <1>4, <3>1, <3>2
  <2> QED
    BY <2>1 DEF Once, Has
<1>5. Once(Job, "endJob") /\ Once(Job, "endRound") /\ ~Has(Job, "endRound")
  <2>1. \A i \in 1 .. Len(Job) : (Job[i] = "endJob" => i = 4) /\ Job[i] # "endRound"
    OBVIOUS
  <2> QED
    BY <2>1 DEF Once, Has
<1>6. None(<<>>) /\ None(<<"collect">>) /\ None(<<>> \o <<"all">>) /\ None(<<>> \o <<"all", "device">>)
  OBVIOUS
<1>7. CASE k = "manual"
  BY <1>2, <1>3, <1>6, <1>7 DEF Inventory!Plan
<1>8. CASE k = "round"
  <2>1. w = IF roundInFlight THEN <<>> ELSE Alone
    BY <1>2, <1>8 DEF Inventory!Plan
  <2> HIDE DEF Alone
  <2> QED
    BY <1>3, <1>4, <1>6, <2>1
<1>9. CASE k = "all"
  <2>1. w = IF roundInFlight THEN <<>> \o <<"all">> ELSE Round
    BY <1>2, <1>9 DEF Inventory!Plan
  <2> HIDE DEF Round
  <2> QED
    BY <1>3, <1>4, <1>6, <2>1
<1>10. CASE k = "device"
  <2>1. w = IF deviceJob THEN <<>> \o <<"all", "device">> ELSE Job
    BY <1>2, <1>10 DEF Inventory!Plan
  <2> HIDE DEF Job
  <2> QED
    BY <1>3, <1>5, <1>6, <2>1
<1> QED
  BY <1>1, <1>2, <1>7, <1>8, <1>9, <1>10

\* A caller takes its plan, and with it the end of the round or job it opens.
LEMMA BeginErrands == ASSUME HistoryInv, ErrandsTyped, NEW c \in Collectors, Inventory!Begin(c) PROVE ErrandsTyped'
<1>1. PICK w : w = Inventory!Plan(c[1])
  OBVIOUS
<1>2. /\ work[c] = <<>> /\ work' = [work EXCEPT ![c] = w] /\ work \in [Collectors -> Seq(Errands)]
      /\ roundInFlight' = (roundInFlight \/ Has(w, "endRound"))
      /\ deviceJob' = (deviceJob \/ Has(w, "endJob"))
  BY <1>1 DEF Inventory!Begin, Inventory!Contains, Has, HistoryInv, HistoryTypes
<1>3. work'[c] = w /\ \A d \in Collectors : d # c => work'[d] = work[d]
  BY <1>2
<1>4. /\ Once(w, "endRound") /\ (Has(w, "endRound") => ~roundInFlight)
      /\ Once(w, "endJob") /\ (Has(w, "endJob") => ~deviceJob)
  BY <1>1, PlanErrands
<1>5. \A e : ~Has(work[c], e)
  BY <1>2 DEF Has
<1>6. Guarded(work, "endRound", roundInFlight) /\ Guarded(work, "endJob", deviceJob)
  BY DEF ErrandsTyped
<1>7. roundInFlight \in BOOLEAN /\ deviceJob \in BOOLEAN
  BY <1>6 DEF Guarded
<1>8. Guarded(work', "endRound", roundInFlight')
  <2>1. CASE Has(w, "endRound")
    <3>1. roundInFlight = FALSE /\ roundInFlight' = TRUE
      BY <1>2, <1>4, <1>7, <2>1
    <3> QED
      BY <1>3, <1>4, <1>6, <2>1, <3>1, GuardTaken
  <2>2. CASE ~Has(w, "endRound")
    <3>1. roundInFlight' = roundInFlight
      BY <1>2, <1>7, <2>2
    <3> QED
      BY <1>3, <1>4, <1>5, <1>6, <2>2, <3>1, GuardKept
  <2> QED
    BY <2>1, <2>2
<1>9. Guarded(work', "endJob", deviceJob')
  <2>1. CASE Has(w, "endJob")
    <3>1. deviceJob = FALSE /\ deviceJob' = TRUE
      BY <1>2, <1>4, <1>7, <2>1
    <3> QED
      BY <1>3, <1>4, <1>6, <2>1, <3>1, GuardTaken
  <2>2. CASE ~Has(w, "endJob")
    <3>1. deviceJob' = deviceJob
      BY <1>2, <1>7, <2>2
    <3> QED
      BY <1>3, <1>4, <1>5, <1>6, <2>2, <3>1, GuardKept
  <2> QED
    BY <2>1, <2>2
<1> QED
  BY <1>8, <1>9 DEF ErrandsTyped

\* The next errand, when the one done ends nothing.
LEMMA DoneErrands ==
  ASSUME HistoryInv, ErrandsTyped, NEW c \in Collectors, work[c] # <<>>, Head(work[c]) \notin {"endRound", "endJob"},
         work' = [work EXCEPT ![c] = Tail(@)], UNCHANGED <<roundInFlight, deviceJob>>
  PROVE  ErrandsTyped'
<1>1. work \in [Collectors -> Seq(Errands)] /\ work[c] \in Seq(Errands)
  BY DEF HistoryInv, HistoryTypes
<1>2. work'[c] = Tail(work[c]) /\ \A d \in Collectors : d # c => work'[d] = work[d]
  BY <1>1
<1>3. ASSUME NEW e \in {"endRound", "endJob"}, NEW f, Guarded(work, e, f) PROVE Guarded(work', e, f)
  <2>1. Once(work[c], e)
    BY <1>3 DEF Guarded
  <2>2. Once(Tail(work[c]), e) /\ (Has(Tail(work[c]), e) <=> Has(work[c], e))
    BY <1>1, <2>1, NextErrand
  <2>3. Once(work'[c], e) /\ (Has(work'[c], e) <=> Has(work[c], e))
    BY <1>2, <2>2
  <2> QED
    BY <1>2, <1>3, <2>3, GuardKept
<1> QED
  BY <1>3 DEF ErrandsTyped

\* A request is given up, but not the end it has promised.
LEMMA RejectsErrands ==
  ASSUME HistoryInv, ErrandsTyped, NEW c \in Collectors, work[c] # <<>>, Head(work[c]) \notin {"endRound", "endJob"},
         Inventory!Rejects(c), UNCHANGED <<roundInFlight, deviceJob>>
  PROVE  ErrandsTyped'
<1>1. work \in [Collectors -> Seq(Errands)] /\ work[c] \in Seq(Errands)
  BY DEF HistoryInv, HistoryTypes
<1>2. PICK r : r = IF Has(work[c], "endRound") THEN Tail(work[c]) ELSE IF Has(work[c], "endJob") THEN <<"endJob">> ELSE <<>>
  OBVIOUS
<1>3. work' = [work EXCEPT ![c] = r]
  BY <1>1, <1>2 DEF Inventory!Rejects, Inventory!Contains, Has
<1>4. work'[c] = r /\ \A d \in Collectors : d # c => work'[d] = work[d]
  BY <1>1, <1>3
<1>5. /\ Once(<<"endJob">>, "endJob") /\ Has(<<"endJob">>, "endJob")
      /\ Once(<<"endJob">>, "endRound") /\ ~Has(<<"endJob">>, "endRound")
  BY DEF Once, Has
<1>6. \A e : Once(<<>>, e) /\ ~Has(<<>>, e)
  BY DEF Once, Has
<1>7. ASSUME NEW e \in {"endRound", "endJob"}, NEW f, Guarded(work, e, f) PROVE Guarded(work', e, f)
  <2>1. Once(work[c], e)
    BY <1>7 DEF Guarded
  <2>2. Once(Tail(work[c]), e) /\ (Has(Tail(work[c]), e) <=> Has(work[c], e))
    BY <1>1, <2>1, NextErrand
  <2>3. Once(r, e) /\ (Has(r, e) <=> Has(work[c], e))
    BY <1>2, <1>5, <1>6, <2>2
  <2> QED
    BY <1>4, <1>7, <2>3, GuardKept
<1> QED
  BY <1>7 DEF ErrandsTyped

\* The end of a round or job is done, and it counts as over.
LEMMA EndErrands == ASSUME HistoryInv, ErrandsTyped, NEW c \in Collectors, Inventory!EndGuard(c) PROVE ErrandsTyped'
<1>1. work \in [Collectors -> Seq(Errands)] /\ work[c] \in Seq(Errands)
  BY DEF HistoryInv, HistoryTypes
<1>2. /\ work[c] # <<>> /\ work' = [work EXCEPT ![c] = Tail(work[c])]
      /\ \/ Head(work[c]) = "endRound" /\ roundInFlight' = FALSE /\ deviceJob' = deviceJob
         \/ Head(work[c]) = "endJob" /\ deviceJob' = FALSE /\ roundInFlight' = roundInFlight
  BY <1>1 DEF Inventory!EndGuard, Inventory!Doing, Inventory!Done
<1>3. work'[c] = Tail(work[c]) /\ \A d \in Collectors : d # c => work'[d] = work[d]
  BY <1>1, <1>2
<1>4. ASSUME NEW e \in {"endRound", "endJob"}, NEW f, Guarded(work, e, f)
      PROVE  Guarded(work', e, IF Head(work[c]) = e THEN FALSE ELSE f)
  <2>1. Once(work[c], e)
    BY <1>4 DEF Guarded
  <2>2. /\ Once(Tail(work[c]), e)
        /\ Head(work[c]) # e => (Has(Tail(work[c]), e) <=> Has(work[c], e))
        /\ Head(work[c]) = e => ~Has(Tail(work[c]), e) /\ Has(work[c], e)
    BY <1>1, <1>2, <2>1, NextErrand
  <2>3. CASE Head(work[c]) = e
    <3>1. Once(work'[c], e) /\ ~Has(work'[c], e) /\ Has(work[c], e)
      BY <1>3, <2>2, <2>3
    <3>2. Guarded(work', e, FALSE)
      BY <1>3, <1>4, <3>1, GuardFreed
    <3> QED
      BY <2>3, <3>2
  <2>4. CASE Head(work[c]) # e
    <3>1. Once(work'[c], e) /\ (Has(work'[c], e) <=> Has(work[c], e))
      BY <1>3, <2>2, <2>4
    <3>2. Guarded(work', e, f)
      BY <1>3, <1>4, <3>1, GuardKept
    <3> QED
      BY <2>4, <3>2
  <2> QED
    BY <2>3, <2>4
<1>5. /\ Guarded(work', "endRound", IF Head(work[c]) = "endRound" THEN FALSE ELSE roundInFlight)
      /\ Guarded(work', "endJob", IF Head(work[c]) = "endJob" THEN FALSE ELSE deviceJob)
  BY <1>4 DEF ErrandsTyped
<1>6. /\ roundInFlight' = IF Head(work[c]) = "endRound" THEN FALSE ELSE roundInFlight
      /\ deviceJob' = IF Head(work[c]) = "endJob" THEN FALSE ELSE deviceJob
  BY <1>2
<1> QED
  BY <1>5, <1>6 DEF ErrandsTyped

\* Every step keeps the flags and the errands together.
LEMMA NextErrandsTyped ==
  ASSUME HistoryInv, ErrandsTyped, Inventory!Next \/ UNCHANGED inventoryVars PROVE ErrandsTyped'
<1>1. ASSUME UNCHANGED <<work, roundInFlight, deviceJob>> PROVE ErrandsTyped'
  BY <1>1 DEF ErrandsTyped
<1>2. CASE Inventory!World \/ UNCHANGED inventoryVars
  BY <1>1, <1>2 DEF Inventory!World, Inventory!flags, inventoryVars
<1>3. CASE Inventory!Restart
  <2>1. roundInFlight' = FALSE /\ deviceJob' = FALSE /\ \A c \in Collectors : work'[c] = <<>>
    BY <1>3 DEF Inventory!Restart
  <2> QED
    BY <2>1, NothingToDo DEF ErrandsTyped
<1>4. ASSUME NEW c \in Collectors,
             \/ Inventory!CreateSnapshot(c) \/ Inventory!Complete(c) \/ Inventory!Fail(c)
             \/ \E replied \in SUBSET Sections : Inventory!CollectSections(c, replied)
             \/ \E s \in Inventory!Scopes :
                  Inventory!ReadDevices(c, s) \/ Inventory!ReadGraph(c, s) \/ Inventory!Create(c, s)
      PROVE  ErrandsTyped'
  BY <1>1, <1>4
  DEF Inventory!CreateSnapshot, Inventory!Complete, Inventory!Fail, Inventory!CollectSections, Inventory!ReadDevices,
      Inventory!ReadGraph, Inventory!Create, Inventory!flags
<1>5. ASSUME NEW c \in Collectors, Inventory!MarkDevice(c) \/ Inventory!FailsTwice(c) PROVE ErrandsTyped'
  <2>1. /\ work[c] # <<>> /\ Head(work[c]) = "collect" /\ UNCHANGED <<roundInFlight, deviceJob>>
        /\ work' = [work EXCEPT ![c] = Tail(@)] \/ Inventory!Rejects(c)
    BY <1>5 DEF Inventory!MarkDevice, Inventory!FailsTwice, Inventory!Doing, Inventory!Done, Inventory!flags
  <2> QED
    BY <2>1, DoneErrands, RejectsErrands
<1>6. ASSUME NEW c \in Collectors, NEW s \in Inventory!Scopes, Inventory!Compare(c, s) \/ Inventory!Prune(c, s)
      PROVE  ErrandsTyped'
  <2>1. /\ work[c] # <<>> /\ Head(work[c]) = s /\ UNCHANGED <<roundInFlight, deviceJob>>
        /\ work' = [work EXCEPT ![c] = Tail(@)] \/ work' = work
    BY <1>6 DEF Inventory!Compare, Inventory!Prune, Inventory!Capturing, Inventory!Doing, Inventory!Done, Inventory!flags
  <2>2. Head(work[c]) \notin {"endRound", "endJob"}
    BY <2>1, InventorySizes
  <2> QED
    BY <1>1, <2>1, <2>2, DoneErrands
<1>7. ASSUME NEW c \in Collectors, Inventory!CaptureFails(c) PROVE ErrandsTyped'
  <2>1. /\ work[c] # <<>> /\ Head(work[c]) \in Inventory!Scopes /\ UNCHANGED <<roundInFlight, deviceJob>>
        /\ Inventory!Rejects(c)
    BY <1>7 DEF Inventory!CaptureFails, Inventory!Capturing, Inventory!Doing, Inventory!flags
  <2>2. Head(work[c]) \notin {"endRound", "endJob"}
    BY <2>1, InventorySizes
  <2> QED
    BY <2>1, <2>2, RejectsErrands
<1> QED
  BY <1>2, <1>3, <1>4, <1>5, <1>6, <1>7, BeginErrands, EndErrands DEF Inventory!Next, Inventory!Step

\* Every step keeps the snapshots to what the router has answered, and a caller's among them.
LEMMA NextSnapshotsTyped ==
  ASSUME HistoryInv, SnapshotsTyped, Inventory!Next \/ UNCHANGED inventoryVars PROVE SnapshotsTyped'
<1>0. /\ answers \in Nat /\ snapshots \in Seq(Collected) /\ DOMAIN snapshots = 1 .. Len(snapshots) /\ Len(snapshots) \in Nat
      /\ snap \in [Collectors -> Nat] /\ 0 <= answers /\ 0 <= Len(snapshots)
      /\ \A i \in DOMAIN snapshots : snapshots[i] \in Collected
  BY DEF HistoryInv, HistoryTypes
<1>1. ASSUME UNCHANGED <<snapshots, answers>>, \A c \in Collectors : snap'[c] \in {snap[c], 0} PROVE SnapshotsTyped'
  BY <1>0, <1>1 DEF SnapshotsTyped
<1>2. CASE Inventory!World
  <2>1. UNCHANGED <<snapshots, snap>> /\ answers' \in {answers, answers + 1}
    BY <1>2 DEF Inventory!World
  <2>2. ASSUME NEW i \in DOMAIN snapshots, NEW s \in Sections PROVE snapshots[i].sections[s] <= answers'
    <3>1. snapshots[i].sections[s] \in Nat /\ snapshots[i].sections[s] <= answers
      BY <1>0 DEF SnapshotsTyped, Collected
    <3> QED
      BY <1>0, <2>1, <3>1
  <2> QED
    BY <2>1, <2>2 DEF SnapshotsTyped
<1>3. CASE Inventory!Restart \/ UNCHANGED inventoryVars
  BY <1>1, <1>3 DEF Inventory!Restart, Inventory!inputs, inventoryVars
<1>4. ASSUME NEW c \in Collectors,
             \/ Inventory!Begin(c) \/ Inventory!EndGuard(c) \/ Inventory!CaptureFails(c)
             \/ \E s \in Inventory!Scopes : \/ Inventory!ReadDevices(c, s) \/ Inventory!ReadGraph(c, s)
                                            \/ Inventory!Compare(c, s) \/ Inventory!Create(c, s) \/ Inventory!Prune(c, s)
      PROVE  SnapshotsTyped'
  BY <1>1, <1>4
  DEF Inventory!Begin, Inventory!EndGuard, Inventory!CaptureFails, Inventory!ReadDevices, Inventory!ReadGraph,
      Inventory!Compare, Inventory!Create, Inventory!Prune, Inventory!inputs
<1>5. ASSUME NEW c \in Collectors, Inventory!MarkDevice(c) \/ Inventory!FailsTwice(c) PROVE SnapshotsTyped'
  <2>1. UNCHANGED <<snapshots, answers>> /\ snap' = [snap EXCEPT ![c] = 0]
    BY <1>5 DEF Inventory!MarkDevice, Inventory!FailsTwice, Inventory!inputs
  <2> QED
    BY <1>0, <1>1, <2>1
<1>6. ASSUME NEW c \in Collectors, Inventory!CreateSnapshot(c) PROVE SnapshotsTyped'
  <2>1. PICK r : r = [status |-> "running", sections |-> [s \in Sections |-> 0]]
    OBVIOUS
  <2>2. r \in Collected /\ \A s \in Sections : r.sections[s] = 0
    BY <2>1 DEF Collected
  <2>3. snapshots' = Append(snapshots, r) /\ answers' = answers /\ snap' = [snap EXCEPT ![c] = Len(snapshots')]
    BY <1>6, <2>1 DEF Inventory!CreateSnapshot, Inventory!inputs
  <2>4. /\ Len(snapshots') = Len(snapshots) + 1 /\ DOMAIN snapshots' = DOMAIN snapshots \cup {Len(snapshots) + 1}
        /\ snapshots'[Len(snapshots) + 1] = r /\ \A i \in DOMAIN snapshots : snapshots'[i] = snapshots[i]
    <3>1. 1 .. Len(snapshots) + 1 = (1 .. Len(snapshots)) \cup {Len(snapshots) + 1}
      BY <1>0
    <3> QED
      BY <1>0, <2>2, <2>3, <3>1, AppendProperties
  <2>5. \A d \in Collectors : snap'[d] <= Len(snapshots')
    BY <1>0, <2>3, <2>4 DEF SnapshotsTyped
  <2>6. \A i \in DOMAIN snapshots' : \A s \in Sections : snapshots'[i].sections[s] <= answers'
    BY <1>0, <2>2, <2>3, <2>4 DEF SnapshotsTyped
  <2> QED
    BY <2>5, <2>6 DEF SnapshotsTyped
<1>7. ASSUME NEW c \in Collectors, NEW q, snapshots' = [snapshots EXCEPT ![snap[c]] = q],
             \A s \in Sections : q.sections[s] <= answers, UNCHANGED <<answers, snap>>
      PROVE  SnapshotsTyped'
  <2>1. Len(snapshots') = Len(snapshots) /\ DOMAIN snapshots' = DOMAIN snapshots
    BY <1>0, <1>7
  <2>2. \A i \in DOMAIN snapshots : snapshots'[i] = IF i = snap[c] THEN q ELSE snapshots[i]
    BY <1>0, <1>7
  <2> QED
    BY <1>7, <2>1, <2>2 DEF SnapshotsTyped
<1>8. ASSUME NEW c \in Collectors, at[c] \in Collecting PROVE snap[c] \in DOMAIN snapshots /\ snapshots[snap[c]] \in Collected
  BY <1>0, <1>8 DEF HistoryInv, OwnSnapshot
<1>9. ASSUME NEW c \in Collectors, NEW replied \in SUBSET Sections, Inventory!CollectSections(c, replied)
      PROVE  SnapshotsTyped'
  <2>1. PICK f : f = [s \in Sections |-> IF s \in replied THEN answers ELSE 0]
    OBVIOUS
  <2>2. PICK q : q = [snapshots[snap[c]] EXCEPT !.sections = f]
    OBVIOUS
  <2>3. at[c] \in Collecting
    BY <1>9 DEF Inventory!CollectSections, Collecting
  <2>4. snapshots' = [snapshots EXCEPT ![snap[c]] = q] /\ UNCHANGED <<answers, snap>>
    BY <1>0, <1>8, <1>9, <2>1, <2>2, <2>3 DEF Inventory!CollectSections, Inventory!inputs
  <2>5. q.sections = f
    BY <1>8, <2>2, <2>3 DEF Collected
  <2>6. \A s \in Sections : f[s] \in {answers, 0}
    BY <2>1
  <2>7. \A s \in Sections : f[s] <= answers
    BY <1>0, <2>6
  <2> QED
    BY <1>7, <2>4, <2>5, <2>7
<1>10. ASSUME NEW c \in Collectors, Inventory!Complete(c) \/ Inventory!Fail(c) PROVE SnapshotsTyped'
  <2>1. at[c] \in Collecting /\ UNCHANGED <<answers, snap>>
    BY <1>10 DEF Inventory!Complete, Inventory!Fail, Collecting, Inventory!inputs
  <2>2. \E l : snapshots' = [snapshots EXCEPT ![snap[c]].status = l]
    <3>1. CASE Inventory!Complete(c)
      BY <3>1 DEF Inventory!Complete
    <3>2. CASE Inventory!Fail(c)
      BY <3>2 DEF Inventory!Fail
    <3> QED
      BY <1>10, <3>1, <3>2
  <2>3. PICK l : snapshots' = [snapshots EXCEPT ![snap[c]].status = l]
    BY <2>2
  <2>4. PICK q : q = [snapshots[snap[c]] EXCEPT !.status = l]
    OBVIOUS
  <2>5. snapshots' = [snapshots EXCEPT ![snap[c]] = q]
    BY <1>0, <1>8, <2>1, <2>3, <2>4
  <2>6. q.sections = snapshots[snap[c]].sections
    BY <1>8, <2>1, <2>4 DEF Collected
  <2>7. \A s \in Sections : q.sections[s] <= answers
    BY <1>8, <2>1, <2>6 DEF SnapshotsTyped
  <2> QED
    BY <1>7, <2>1, <2>5, <2>7
<1> QED
  BY <1>2, <1>3, <1>4, <1>5, <1>6, <1>9, <1>10 DEF Inventory!Next, Inventory!Step

\* With the invariant of the inventory these are its types.
LEMMA InventoryTypesHold == HistoryInv /\ ErrandsTyped /\ SnapshotsTyped => Inventory!TypeOK
<1> SUFFICES ASSUME HistoryInv, ErrandsTyped, SnapshotsTyped PROVE Inventory!TypeOK
  OBVIOUS
<1>1. ASSUME NEW i \in DOMAIN snapshots
      PROVE  /\ snapshots[i].status \in {"running", "completed", "partial", "failed"}
             /\ snapshots[i].sections \in [Sections -> 0 .. answers]
  <2>1. snapshots[i] \in Collected /\ answers \in Nat
    BY DEF HistoryInv, HistoryTypes
  <2>2. snapshots[i].sections \in [Sections -> Nat]
    BY <2>1 DEF Collected
  <2>3. \A s \in Sections : snapshots[i].sections[s] \in 0 .. answers
    BY <2>1, <2>2 DEF SnapshotsTyped
  <2> QED
    BY <2>1, <2>2, <2>3 DEF Collected
<1>2. ASSUME NEW c \in Collectors
      PROVE  /\ c[1] \in Inventory!Kinds /\ snap[c] \in 0 .. Len(snapshots)
             /\ at[c] \in {"begin", "collect", "finish", "online", "offline", "load", "compare", "create", "prune"}
  <2>1. c[1] \in Inventory!Kinds
    BY InventoryAssumption DEF Inventory!Kinds
  <2>2. at[c] \in Collecting \cup Capturing \cup {"begin"} /\ snap[c] \in Nat /\ Len(snapshots) \in Nat
    BY DEF HistoryInv, HistoryTypes
  <2>3. snap[c] \in 0 .. Len(snapshots)
    BY <2>2 DEF SnapshotsTyped
  <2> QED
    BY <2>1, <2>2, <2>3 DEF Collecting, Capturing, Reading
<1>3. /\ roundInFlight = (\E c \in Collectors : Inventory!Contains(work[c], "endRound"))
      /\ deviceJob = (\E c \in Collectors : Inventory!Contains(work[c], "endJob"))
  BY DEF ErrandsTyped, Guarded, Has, Inventory!Contains
<1> QED
  BY <1>1, <1>2, <1>3 DEF HistoryInv, HistoryTypes, Inventory!TypeOK

-----------------------------------------------------------------------------
(* The types of all ten parts                                              *)

\* What is invariant of the part under check: its own invariant with its types.
AllTyped ==
  /\ part = "device realtime" => RealtimeInv /\ RealtimeTyped
  /\ part = "syslog settings" => SettingsInv /\ SettingsTyped
  /\ part = "reports" => ReportInv /\ ReportTyped
  /\ part = "inventory" => HistoryInv /\ ErrandsTyped /\ SnapshotsTyped
  /\ part = "router logging" => LoggingInv /\ LoggingTyped
  /\ part = "topology" => ResolverInv
  /\ part = "protocol" => CodecInv
  /\ part = "upgrade" => UpgradeInv /\ UpgradeTyped
  /\ part = "SDK" => SessionInv /\ SessionTyped
  /\ part = "backup page" => PageInv /\ PageTyped

\* Whichever part is chosen, it starts so.
LEMMA InitAllTyped == Init => AllTyped
<1> SUFFICES ASSUME Init PROVE AllTyped
  OBVIOUS
<1>1. part = "device realtime" => RealtimeInv /\ RealtimeTyped
  BY InitRealtime, InitRealtimeTyped DEF Init
<1>2. part = "syslog settings" => SettingsInv /\ SettingsTyped
  BY InitSettings, InitSettingsTyped DEF Init
<1>3. part = "reports" => ReportInv /\ ReportTyped
  BY InitReports, InitReportTyped DEF Init
<1>4. part = "inventory" => HistoryInv /\ ErrandsTyped /\ SnapshotsTyped
  BY InitHistory, InitInventoryTyped DEF Init
<1>5. part = "router logging" => LoggingInv /\ LoggingTyped
  BY InitLogging, InitLoggingTyped DEF Init
<1>6. part = "topology" => ResolverInv
  BY InitResolver DEF Init
<1>7. part = "protocol" => CodecInv
  BY InitCodec DEF Init
<1>8. part = "upgrade" => UpgradeInv /\ UpgradeTyped
  BY InitUpgrade, InitUpgradeTyped DEF Init
<1>9. part = "SDK" => SessionInv /\ SessionTyped
  BY InitSession, InitSessionTyped DEF Init
<1>10. part = "backup page" => PageInv /\ PageTyped
  BY InitPage, InitPageTyped DEF Init
<1> QED
  BY <1>1, <1>2, <1>3, <1>4, <1>5, <1>6, <1>7, <1>8, <1>9, <1>10 DEF AllTyped

\* And every step of it keeps it so.
LEMMA NextAllTyped == ASSUME AllTyped, [Next]_allVars PROVE AllTyped'
<1>1. part' = part
  BY DEF Next, allVars
<1>2. ASSUME part = "device realtime" PROVE (RealtimeInv /\ RealtimeTyped)'
  <2>1. Realtime!Next \/ UNCHANGED realtimeVars
    BY <1>2 DEF Next, allVars, realtimeVars
  <2> QED
    BY <1>2, <2>1, NextRealtime, NextRealtimeTyped DEF AllTyped
<1>3. ASSUME part = "syslog settings" PROVE (SettingsInv /\ SettingsTyped)'
  <2>1. Settings!Next \/ UNCHANGED settingsVars
    BY <1>3 DEF Next, allVars, settingsVars
  <2> QED
    BY <1>3, <2>1, NextSettings, NextSettingsTyped DEF AllTyped
<1>4. ASSUME part = "reports" PROVE (ReportInv /\ ReportTyped)'
  <2>1. Reports!Next \/ UNCHANGED reportsVars
    BY <1>4 DEF Next, allVars, reportsVars
  <2> QED
    BY <1>4, <2>1, NextReports, NextReportTyped DEF AllTyped
<1>5. ASSUME part = "inventory" PROVE (HistoryInv /\ ErrandsTyped /\ SnapshotsTyped)'
  <2>1. Inventory!Next \/ UNCHANGED inventoryVars
    BY <1>5 DEF Next, allVars, inventoryVars
  <2> QED
    BY <1>5, <2>1, NextHistory, NextErrandsTyped, NextSnapshotsTyped DEF AllTyped
<1>6. ASSUME part = "router logging" PROVE (LoggingInv /\ LoggingTyped)'
  <2>1. RouterOs!Next \/ UNCHANGED routerOsVars
    BY <1>6 DEF Next, allVars, routerOsVars
  <2> QED
    BY <1>6, <2>1, NextLogging, NextLoggingTyped DEF AllTyped
<1>7. ASSUME part = "topology" PROVE ResolverInv'
  <2>1. Resolver!Next \/ UNCHANGED resolverVars
    BY <1>7 DEF Next, allVars, resolverVars
  <2> QED
    BY <1>7, <2>1, NextResolver DEF AllTyped
<1>8. ASSUME part = "protocol" PROVE CodecInv'
  <2>1. Codec!Next \/ UNCHANGED codecVars
    BY <1>8 DEF Next, allVars, codecVars
  <2>2. CASE UNCHANGED codecVars
    BY <1>8, <2>2 DEF AllTyped, CodecInv, HeardAll, codecVars
  <2> QED
    BY <1>8, <2>1, <2>2, NextCodec DEF AllTyped
<1>9. ASSUME part = "upgrade" PROVE (UpgradeInv /\ UpgradeTyped)'
  <2>1. Upgrade!Next \/ UNCHANGED upgradeVars
    BY <1>9 DEF Next, allVars, upgradeVars
  <2> QED
    BY <1>9, <2>1, NextUpgrade, NextUpgradeTyped DEF AllTyped
<1>10. ASSUME part = "SDK" PROVE (SessionInv /\ SessionTyped)'
  <2>1. Sdk!Next \/ UNCHANGED sdkVars
    BY <1>10 DEF Next, allVars, sdkVars
  <2> QED
    BY <1>10, <2>1, NextSession, NextSessionTyped DEF AllTyped
<1>11. ASSUME part = "backup page" PROVE (PageInv /\ PageTyped)'
  <2>1. Page!Next \/ UNCHANGED pageVars
    BY <1>11 DEF Next, allVars, pageVars
  <2> QED
    BY <1>11, <2>1, NextPage, NextPageTyped DEF AllTyped
<1> QED
  BY <1>1, <1>2, <1>3, <1>4, <1>5, <1>6, <1>7, <1>8, <1>9, <1>10, <1>11 DEF AllTyped

\* Each part's types follow from what is invariant of it.
LEMMA AllTypesHold == AllTyped => TypeOK
<1> SUFFICES ASSUME AllTyped PROVE TypeOK
  OBVIOUS
<1> QED
  BY RealtimeTypesHold, SettingsTypesHold, ReportTypesHold, InventoryTypesHold, LoggingTypesHold, ResolverHolds,
     CodecHolds, UpgradeTypesHold, SessionTypesHold, PageTypesHold
  DEF AllTyped, TypeOK

\* The ten parts: every variable of the part under check keeps its type, and what the
\* types relate stays related: a flag of the inventory and the errand that clears it, a
\* round of reports and its deliveries, the sockets of the syslog receiver and those of
\* other programs, also when an update meets the start of the server half-way.
THEOREM TypeAlways == Spec => []TypeOK
<1>1. Init => AllTyped
  BY InitAllTyped
<1>2. AllTyped /\ [Next]_allVars => AllTyped'
  BY NextAllTyped
<1>3. AllTyped => TypeOK
  BY AllTypesHold
<1> QED
  BY <1>1, <1>2, <1>3, PTL DEF Spec
=============================================================================
