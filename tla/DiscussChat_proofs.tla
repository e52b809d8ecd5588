------------------------- MODULE DiscussChat_proofs -------------------------
(* The safety properties of DiscussChat for any channels, texts, page size,   *)
(* number of retries and budgets.                                             *)
(*                                                                            *)
(* What the window lists is right because every page it is given is: a page   *)
(* of the cache, the answer under way and, while no load-more has come out of *)
(* step, the list itself are each Good, that is of one channel, complete from *)
(* their oldest message on, and as the service has them, but for what was     *)
(* missed and what an event still to be handled will bring. Good sets stay    *)
(* Good when the service moves on (Evolves), when an event is handled (the    *)
(* Told lemmas) and when one is merged into the other (Merged).               *)
EXTENDS DiscussChat, FiniteSetTheorems, WellFoundedInduction, TLAPS

Temps == {Temp(k, t) : k \in 1 .. MaxSends, t \in Texts}

Fetches == {"none", "sent", "answered", "failed"}
CacheEntries ==
    [data : Pages \cup {None}, fetch : Fetches, answer : Pages \cup {None}, owed : BOOLEAN]
Posted == [channel : Channels, version : Versions, text : AllTexts]
Events == [id : Int, version : Versions]
Published == [channel : Channels, text : Texts, key : 1 .. MaxSends]
BudgetType == [posts : Nat, changes : Nat, sends : 0 .. MaxSends, mutations : Nat, opens : Nat,
               scrolls : 0 .. MaxScrolls, faults : Nat, typings : Nat]

ServiceType == posted \in Seq(Posted) /\ events \in Seq(Events) /\ outbox \in Seq(Published)

ClientType ==
    /\ link \in {"up", "broken", "down"} /\ isConnected \in BOOLEAN /\ closing \in BOOLEAN
    /\ rest \in Requests \cup {None}

WindowType ==
    /\ cache \in [Channels -> CacheEntries]
    /\ channel \in Channels /\ hook \in Pages \cup {None} /\ IsABag(list)
    /\ initial \in BOOLEAN /\ hasMore \in BOOLEAN /\ mixed \in BOOLEAN

LoadType ==
    /\ loads \in [Loops -> Loads \cup {None}]
    /\ lazy \in {"unused", "loading", "used"} /\ guard \in BOOLEAN /\ freed \in BOOLEAN

TypingType == typing \subseteq Typists /\ timers \subseteq Typists /\ cut \subseteq Typists

TypeInv ==
    ServiceType /\ ClientType /\ WindowType /\ LoadType /\ TypingType /\ budget \in BudgetType

-----------------------------------------------------------------------------
(* What a set of entries owes to the messages p of the service, the events ev *)
(* on their way and the messages ms missed.                                   *)

Known(p, e) ==
    /\ e \in Entries /\ e.id \in DOMAIN p
    /\ e.text = p[e.id].text
    /\ p[e.id].version = "sent" => e.version = "sent"

AllKnown(p, S) == \A e \in S : Known(p, e)

Pend(ev, n) == \E k \in DOMAIN ev : ev[k].id = n
SentPend(ev, n) == \E k \in DOMAIN ev : ev[k].id = n /\ ev[k].version = "sent"

MessageOf(p, n) == Entry(n, p[n].version, p[n].text)
Alive(p, ch) == {n \in DOMAIN p : p[n].channel = ch /\ p[n].version # "deleted"}

KnownIn(p, S, ch) == \A e \in S : 0 < e.id => Known(p, e) /\ p[e.id].channel = ch

Complete(p, ev, ms, S, ch) ==
    \A e \in S, i \in Alive(p, ch) :
        0 < e.id /\ e.id < i /\ i \notin ms => Has(S, i) \/ SentPend(ev, i)

\* Every message of S is in S as the service has it, or in T.
Fresh(p, ev, ms, S, T) ==
    \A e \in S : 0 < e.id /\ e.id \notin ms /\ ~Pend(ev, e.id)
                    => MessageOf(p, e.id) \in S \/ Has(T, e.id)

Good(p, ev, ms, S, ch) ==
    KnownIn(p, S, ch) /\ Complete(p, ev, ms, S, ch) /\ Fresh(p, ev, ms, S, {})

Unique(S) == \A e, f \in S : e.id = f.id => e = f

GoodPage(p, ev, ms, S, ch) == AllKnown(p, S) /\ Unique(S) /\ Good(p, ev, ms, S, ch)

PeerOnce(l) ==
    \A e, f \in Shown(l) : e.text = Peer => l[e] = 1 /\ (f.id = e.id => f = e)

GoodList(p, ev, ms, l, ch) == Good(p, ev, ms, Shown(l), ch) /\ PeerOnce(l)

\* Whatever the list has been given, it holds messages and optimistic entries.
AllListable(p, l) == \A e \in Shown(l) : Known(p, e) \/ e \in Temps

-----------------------------------------------------------------------------
(* The inductive invariant. *)

\* An event carries a version the message has had, the last of a message the
\* one it has; while a new message is on its way, so is each after it.
EventsOf(p, ev) ==
    \A k \in DOMAIN ev :
        /\ ev[k].id \in DOMAIN p
        /\ p[ev[k].id].version = "sent" => ev[k].version = "sent"
        /\ (\A j \in DOMAIN ev : k < j => ev[j].id # ev[k].id)
              => ev[k].version = p[ev[k].id].version
        /\ ev[k].version = "sent" =>
              \A i \in DOMAIN p : ev[k].id < i =>
                  \E j \in DOMAIN ev : k < j /\ ev[j].id = i /\ ev[j].version = "sent"

EventsInv == EventsOf(posted, events)

RestInv == rest # None /\ rest.op # "sent" => rest.id \in DOMAIN posted

PageInv(ch) ==
    /\ cache[ch].fetch = "answered" <=> cache[ch].answer # None
    /\ cache[ch].data # None => GoodPage(posted, events, missed, cache[ch].data.items, ch)
    /\ cache[ch].answer # None => GoodPage(posted, events, missed, cache[ch].answer.items, ch)

PagesInv == \A ch \in Channels : PageInv(ch)

HookInv == hook # None => AllKnown(posted, hook.items) /\ hook.items \subseteq Shown(list)

ListInv == AllListable(posted, list) /\ (~mixed => GoodList(posted, events, missed, list, channel))

ContentInv == EventsInv /\ RestInv /\ PagesInv /\ HookInv /\ ListInv

\* The first load-more is alone, and holds the guard until it is answered; a
\* loop that scrolling started holds it up to its first failure.
LoadInv ==
    /\ lazy = "unused" => ~guard /\ \A j \in Loops : loads[j] = None
    /\ lazy = "loading" =>
          \E j \in Loops : UnderWay(loads[j]) /\ \A i \in Loops \ {j} : loads[i] = None
    /\ lazy # "unused" => Scrolled >= 1
    /\ lazy = "used" /\ guard => Scrolled >= 2
    /\ lazy = "used" /\ ~freed /\ (\E j \in Loops : ByScroll(loads[j]) /\ loads[j].attempt = 0)
          => guard
    /\ OneLoop

Inv == TypeInv /\ ContentInv /\ LoadInv /\ TypingEnds

-----------------------------------------------------------------------------
(* The operators of ChatView. *)

LEMMA EntryFields ==
    ASSUME NEW n, NEW v, NEW t
    PROVE  Entry(n, v, t).id = n /\ Entry(n, v, t).version = v /\ Entry(n, v, t).text = t
BY DEF Entry

LEMMA SetToBagLists ==
    ASSUME NEW S
    PROVE  /\ IsABag(SetToBag(S)) /\ Shown(SetToBag(S)) = S
           /\ \A e \in S : SetToBag(S)[e] = 1
BY DEF IsABag, SetToBag, BagToSet, Shown

LEMMA EmptyLists == IsABag(EmptyBag) /\ Shown(EmptyBag) = {}
BY SetToBagLists DEF EmptyBag

LEMMA SumLists ==
    ASSUME NEW l, NEW k, IsABag(l), IsABag(k)
    PROVE  /\ IsABag(l (+) k) /\ Shown(l (+) k) = Shown(l) \cup Shown(k)
           /\ \A e \in Shown(l) \ Shown(k) : (l (+) k)[e] = l[e]
           /\ \A e \in Shown(k) \ Shown(l) : (l (+) k)[e] = k[e]
BY DEF IsABag, BagToSet, Shown, (+)

LEMMA MergedLists ==
    ASSUME NEW l, NEW items, IsABag(l)
    PROVE  /\ IsABag(Merged(l, items))
           /\ Shown(Merged(l, items)) = items \cup {e \in Shown(l) : ~Has(items, e.id)}
           /\ \A e \in items : Merged(l, items)[e] = 1
           /\ \A e \in Shown(Merged(l, items)) \ items : Merged(l, items)[e] = l[e]
<1> DEFINE rest1 == {e \in Shown(l) : ~Has(items, e.id)}
<1> DEFINE kept == [e \in rest1 |-> l[e]]
<1>1. IsABag(kept) /\ Shown(kept) = rest1 /\ \A e \in rest1 : kept[e] = l[e]
  BY DEF IsABag, Shown, BagToSet
<1>2. items \cap rest1 = {}
  BY DEF Has
<1>3. Merged(l, items) = SetToBag(items) (+) kept
  BY DEF Merged
<1> HIDE DEF kept, rest1
<1>4. QED
  <2>1. rest1 = {e \in Shown(l) : ~Has(items, e.id)}
    BY DEF rest1
  <2>2. /\ IsABag(SetToBag(items) (+) kept)
        /\ Shown(SetToBag(items) (+) kept) = items \cup rest1
        /\ \A e \in items \ rest1 : (SetToBag(items) (+) kept)[e] = SetToBag(items)[e]
        /\ \A e \in rest1 \ items : (SetToBag(items) (+) kept)[e] = kept[e]
    BY <1>1, SetToBagLists, SumLists
  <2> QED
    BY <1>1, <1>2, <1>3, <2>1, <2>2, SetToBagLists

\* A set of naturals has a least element: the set below it is a minimal one.
LEMMA LeastNatural ==
    ASSUME NEW T, T \subseteq Nat, T # {}
    PROVE  \E x \in T : \A y \in T : x <= y
<1> DEFINE below(x) == {y \in T : y < x}
           F == {below(x) : x \in T}
<1>1. F \subseteq FiniteSubsetsOf(Nat)
  <2> SUFFICES ASSUME NEW x \in T PROVE below(x) \in FiniteSubsetsOf(Nat)
    OBVIOUS
  <2>0. x \in Nat /\ \A y \in T : y \in Nat
    OBVIOUS
  <2>1. \A y \in T : y < x => y \in 0 .. x
    BY <2>0
  <2>2. IsFiniteSet(below(x)) /\ below(x) \subseteq Nat
    <3>1. below(x) \subseteq 0 .. x
      BY <2>1
    <3>2. IsFiniteSet(0 .. x)
      BY <2>0, FS_Interval
    <3> QED
      BY <2>0, <3>1, <3>2, FS_Subset
  <2> HIDE DEF below
  <2> QED
    BY <2>2 DEF FiniteSubsetsOf
<1>2. PICK B \in F : \A C \in F : ~(<<C, B>> \in StrictSubsetOrdering(Nat))
  <2>1. F # {}
    OBVIOUS
  <2> HIDE DEF F
  <2> QED
    BY <1>1, <2>1, FS_StrictSubsetOrderingWellFounded, WFMin
<1>3. PICK x \in T : B = below(x)
  BY <1>2
<1>4. ASSUME NEW y \in T, y < x PROVE FALSE
  <2>1. below(y) \subseteq below(x) /\ below(y) # below(x)
    <3>1. y \in below(x) /\ y \notin below(y)
      <4>1. y \in Nat
        OBVIOUS
      <4> QED
        BY <1>4, <4>1
    <3>2. \A z \in T : z < y => z < x
      <4>1. x \in Nat /\ y \in Nat /\ \A z \in T : z \in Nat
        OBVIOUS
      <4> QED
        BY <1>4, <4>1
    <3> QED
      BY <3>1, <3>2
  <2>2. below(y) \subseteq Nat /\ below(x) \subseteq Nat /\ below(y) \in F
    OBVIOUS
  <2> HIDE DEF below, F
  <2> QED
    BY <1>2, <1>3, <2>1, <2>2 DEF StrictSubsetOrdering
<1> QED
  BY <1>4

\* The optimistic entry a message takes: of the matching ones the oldest exists.
LEMMA FirstMatching ==
    ASSUME NEW l, NEW m, Matching(l, m) # {}, \A e \in Matching(l, m) : e.id \in Int
    PROVE  \E e \in Matching(l, m) : \A f \in Matching(l, m) : e.id >= f.id
<1> DEFINE T == {0 - e.id : e \in Matching(l, m)}
<1>1. \A e \in Matching(l, m) : 0 - e.id \in Nat
  BY DEF Matching, IsTemp
<1>2. T \subseteq Nat /\ T # {}
  BY <1>1
<1>3. PICK x \in T : \A y \in T : x <= y
  <2> HIDE DEF T
  <2> QED
    BY <1>2, LeastNatural
<1>4. PICK e \in Matching(l, m) : x = 0 - e.id
  BY <1>3
<1>5. \A f \in Matching(l, m) : e.id >= f.id
  <2> SUFFICES ASSUME NEW f \in Matching(l, m) PROVE e.id >= f.id
    OBVIOUS
  <2>1. 0 - e.id <= 0 - f.id
    BY <1>3, <1>4
  <2> QED
    BY <2>1
<1> QED
  BY <1>5

LEMMA ReplacedLists ==
    ASSUME NEW l, NEW m, IsABag(l), Matching(l, m) # {},
           \A e \in Matching(l, m) : e.id \in Int
    PROVE  \E first \in Matching(l, m) :
             /\ IsABag(Replaced(l, m)) /\ m \in Shown(Replaced(l, m))
             /\ Shown(Replaced(l, m)) \subseteq Shown(l) \cup {m}
             /\ \A e \in Shown(l) \ {first, m} :
                   e \in Shown(Replaced(l, m)) /\ Replaced(l, m)[e] = l[e]
<1> DEFINE first == CHOOSE e \in Matching(l, m) : \A f \in Matching(l, m) : e.id >= f.id
           k == l (-) SetToBag({first})
<1>1. first \in Matching(l, m)
  BY FirstMatching
<1>2. first \in Shown(l)
  BY <1>1 DEF Matching
<1>3. Replaced(l, m) = k (+) SetToBag({m})
  BY DEF Replaced
<1> HIDE DEF first
<1>4. IsABag(k) /\ Shown(k) \subseteq Shown(l) /\ \A e \in Shown(l) \ {first} : e \in Shown(k) /\ k[e] = l[e]
  BY <1>2 DEF IsABag, Shown, BagToSet, SetToBag, (-)
<1> HIDE DEF k
<1>5. /\ IsABag(k (+) SetToBag({m})) /\ Shown(k (+) SetToBag({m})) = Shown(k) \cup {m}
      /\ \A e \in Shown(k) \ {m} : (k (+) SetToBag({m}))[e] = k[e]
  BY <1>4, SetToBagLists, SumLists
<1> QED
  BY <1>1, <1>3, <1>4, <1>5

-----------------------------------------------------------------------------
(* Good sets. *)

\* The service has moved on from p, ev, ms to q, ew, mt.
Evolves(p, ev, ms, q, ew, mt) ==
    /\ \A n \in DOMAIN p :
          /\ n \in DOMAIN q /\ q[n].channel = p[n].channel /\ q[n].text = p[n].text
          /\ q[n].version = "sent" => p[n].version = "sent"
          /\ q[n].version # "deleted" => p[n].version # "deleted"
          /\ n \notin mt /\ ~Pend(ew, n) => ~Pend(ev, n) /\ q[n].version = p[n].version
    /\ \A n \in DOMAIN q : n \in DOMAIN p \/ SentPend(ew, n)
    /\ \A n \in DOMAIN q : SentPend(ev, n) /\ n \notin mt => SentPend(ew, n)
    /\ ms \subseteq mt

LEMMA EvolvesKnown ==
    ASSUME NEW p, NEW ev, NEW ms, NEW q, NEW ew, NEW mt, Evolves(p, ev, ms, q, ew, mt), NEW e
    PROVE  Known(p, e) => Known(q, e)
BY DEF Evolves, Known

LEMMA EvolvesGood ==
    ASSUME NEW p, NEW ev, NEW ms, NEW q, NEW ew, NEW mt, Evolves(p, ev, ms, q, ew, mt),
           NEW S, NEW ch, Good(p, ev, ms, S, ch)
    PROVE  Good(q, ew, mt, S, ch)
<1>1. KnownIn(q, S, ch)
  <2> SUFFICES ASSUME NEW e \in S, 0 < e.id PROVE Known(q, e) /\ q[e.id].channel = ch
    BY DEF KnownIn
  <2>1. Known(p, e) /\ p[e.id].channel = ch
    BY DEF Good, KnownIn
  <2>2. e.id \in DOMAIN p
    BY <2>1 DEF Known
  <2> QED
    <3>1. Known(q, e)
      BY <2>1, EvolvesKnown
    <3>2. q[e.id].channel = p[e.id].channel
      BY <2>2 DEF Evolves
    <3> QED
      BY <2>1, <3>1, <3>2
<1>2. Complete(q, ew, mt, S, ch)
  <2> SUFFICES ASSUME NEW e \in S, NEW i \in Alive(q, ch), 0 < e.id, e.id < i, i \notin mt
               PROVE  Has(S, i) \/ SentPend(ew, i)
    BY DEF Complete
  <2>1. i \in DOMAIN q /\ q[i].channel = ch /\ q[i].version # "deleted"
    BY DEF Alive
  <2>2. CASE i \in DOMAIN p
    <3>1. i \in Alive(p, ch) /\ i \notin ms
      BY <2>1, <2>2 DEF Evolves, Alive
    <3>2. Has(S, i) \/ SentPend(ev, i)
      BY <3>1 DEF Good, Complete
    <3> QED
      BY <2>1, <3>2 DEF Evolves
  <2>3. CASE i \notin DOMAIN p
    BY <2>1, <2>3 DEF Evolves
  <2> QED
    BY <2>2, <2>3
<1>3. Fresh(q, ew, mt, S, {})
  <2> SUFFICES ASSUME NEW e \in S, 0 < e.id, e.id \notin mt, ~Pend(ew, e.id)
               PROVE  MessageOf(q, e.id) \in S
    BY DEF Fresh
  <2>1. e.id \in DOMAIN p
    BY DEF Good, KnownIn, Known
  <2>2. ~Pend(ev, e.id) /\ e.id \notin ms /\ MessageOf(q, e.id) = MessageOf(p, e.id)
    BY <2>1 DEF Evolves, MessageOf
  <2> QED
    BY <2>2 DEF Good, Fresh, Has
<1> QED
  BY <1>1, <1>2, <1>3 DEF Good

\* The event of m, the first of ev, is handled and leaves ew.
Handles(p, ev, ew, ms, mt, m) ==
    /\ ms \subseteq mt /\ Known(p, m)
    /\ \A n : Pend(ev, n) => Pend(ew, n) \/ n = m.id
    /\ \A n : SentPend(ev, n) => SentPend(ew, n) \/ (n = m.id /\ m.version = "sent")
    /\ m.version = "sent" => \A n \in DOMAIN p : m.id < n => SentPend(ew, n)
    /\ ~Pend(ew, m.id) => m = MessageOf(p, m.id)

\* S2 is what handling the event has made of S.
LEMMA ToldComplete ==
    ASSUME NEW p, NEW ev, NEW ew, NEW ms, NEW mt, NEW m, Handles(p, ev, ew, ms, mt, m),
           NEW S, NEW S2, NEW ch, Complete(p, ev, ms, S, ch),
           \A e \in S2 : 0 < e.id => Has(S, e.id) \/ (e.id = m.id /\ m.version = "sent"),
           \A e \in S : 0 < e.id => Has(S2, e.id),
           \A e \in S : e.id \in Int, DOMAIN p \subseteq Nat \ {0},
           m.version = "sent" /\ p[m.id].channel = ch /\ m.id \notin mt => Has(S2, m.id)
    PROVE  Complete(p, ew, mt, S2, ch)
<1> SUFFICES ASSUME NEW e \in S2, NEW i \in Alive(p, ch), 0 < e.id, e.id < i, i \notin mt
             PROVE  Has(S2, i) \/ SentPend(ew, i)
  BY DEF Complete
<1>1. i \in DOMAIN p /\ p[i].channel = ch /\ i \in Nat /\ 0 < i
  BY DEF Alive
<1>2. CASE Has(S, e.id)
  <2>1. PICK f \in S : f.id = e.id
    BY <1>2 DEF Has
  <2>2. i \notin ms
    BY DEF Handles
  <2>3. Has(S, i) \/ SentPend(ev, i)
    BY <2>1, <2>2 DEF Complete
  <2>4. Has(S, i) => Has(S2, i)
    BY <1>1 DEF Has
  <2>5. SentPend(ev, i) => SentPend(ew, i) \/ Has(S2, i)
    BY <1>1 DEF Handles
  <2> QED
    BY <2>3, <2>4, <2>5
<1>3. CASE e.id = m.id /\ m.version = "sent"
  BY <1>1, <1>3 DEF Handles
<1> QED
  BY <1>2, <1>3

LEMMA ToldFresh ==
    ASSUME NEW p, NEW ev, NEW ew, NEW ms, NEW mt, NEW m, Handles(p, ev, ew, ms, mt, m),
           NEW S, NEW S2, NEW T, Fresh(p, ev, ms, S, {}),
           \A e \in S2 : 0 < e.id => Has(S, e.id) \/ e.id = m.id,
           \A e \in S : 0 < e.id /\ e.id # m.id => e \in S2,
           m.id \notin mt /\ ~Pend(ew, m.id) /\ Has(S2, m.id) => m \in S2 \/ Has(T, m.id)
    PROVE  Fresh(p, ew, mt, S2, T)
<1> SUFFICES ASSUME NEW e \in S2, 0 < e.id, e.id \notin mt, ~Pend(ew, e.id)
             PROVE  MessageOf(p, e.id) \in S2 \/ Has(T, e.id)
  BY DEF Fresh
<1>1. CASE e.id = m.id
  <2>1. m = MessageOf(p, m.id) /\ Has(S2, m.id)
    BY <1>1 DEF Handles, Has
  <2> QED
    BY <1>1, <2>1
<1>2. CASE e.id # m.id
  <2>1. PICK f \in S : f.id = e.id
    BY <1>2 DEF Has
  <2>2. ~Pend(ev, e.id) /\ e.id \notin ms
    BY <1>2 DEF Handles
  <2>3. MessageOf(p, e.id) \in S
    BY <2>1, <2>2 DEF Fresh, Has
  <2>4. MessageOf(p, e.id).id = e.id
    BY EntryFields DEF MessageOf
  <2> QED
    BY <1>2, <2>3, <2>4
<1> QED
  BY <1>1, <1>2

\* An entry known of a message that is not changed any more is the message.
LEMMA HandledEntry ==
    ASSUME NEW p, NEW m, Known(p, m), m = MessageOf(p, m.id), m.version = "sent",
           NEW f, Known(p, f), f.id = m.id
    PROVE  f = m
<1>1. m.version = p[m.id].version
  BY EntryFields DEF MessageOf
<1>2. f \in Entries /\ m \in Entries /\ f.version = "sent" /\ f.text = m.text
  BY <1>1 DEF Known
<1> QED
  BY <1>2 DEF Entries

LEMMA MergedGood ==
    ASSUME NEW p, NEW ev, NEW ms, NEW l, NEW items, NEW ch, IsABag(l),
           GoodPage(p, ev, ms, items, ch), KnownIn(p, Shown(l), ch),
           Complete(p, ev, ms, Shown(l), ch), Fresh(p, ev, ms, Shown(l), items)
    PROVE  Good(p, ev, ms, Shown(Merged(l, items)), ch)
<1> DEFINE M == Shown(Merged(l, items))
<1>1. M = items \cup {e \in Shown(l) : ~Has(items, e.id)}
  BY MergedLists
<1> HIDE DEF M
<1>2. /\ AllKnown(p, items) /\ KnownIn(p, items, ch) /\ Complete(p, ev, ms, items, ch)
      /\ Fresh(p, ev, ms, items, {})
  BY DEF GoodPage, Good
<1>3. \A n : Has(Shown(l), n) => Has(M, n)
  BY <1>1 DEF Has
<1>4. \A n : Has(items, n) => Has(M, n)
  BY <1>1 DEF Has
<1>5. KnownIn(p, M, ch)
  BY <1>1, <1>2 DEF KnownIn
<1>6. Complete(p, ev, ms, M, ch)
  <2> SUFFICES ASSUME NEW e \in M, NEW i \in Alive(p, ch), 0 < e.id, e.id < i, i \notin ms
               PROVE  Has(M, i) \/ SentPend(ev, i)
    BY DEF Complete
  <2>1. CASE e \in items
    BY <1>2, <1>4, <2>1 DEF Complete
  <2>2. CASE e \in Shown(l)
    BY <1>3, <2>2 DEF Complete
  <2> QED
    BY <1>1, <2>1, <2>2
<1>7. Fresh(p, ev, ms, M, {})
  <2> SUFFICES ASSUME NEW e \in M, 0 < e.id, e.id \notin ms, ~Pend(ev, e.id)
               PROVE  MessageOf(p, e.id) \in M
    BY DEF Fresh
  <2>1. CASE Has(items, e.id)
    <3>1. PICK f \in items : f.id = e.id
      BY <2>1 DEF Has
    <3>2. MessageOf(p, e.id) \in items
      BY <1>2, <3>1 DEF Fresh, Has
    <3> QED
      BY <1>1, <3>2
  <2>2. CASE ~Has(items, e.id)
    <3>1. e \in Shown(l)
      BY <1>1, <2>2 DEF Has
    <3>2. MessageOf(p, e.id) \in Shown(l)
      BY <2>2, <3>1 DEF Fresh
    <3>3. MessageOf(p, e.id).id = e.id
      BY EntryFields DEF MessageOf
    <3> QED
      BY <1>1, <2>2, <3>2, <3>3
  <2> QED
    BY <2>1, <2>2
<1> QED
  BY <1>5, <1>6, <1>7 DEF Good, M

LEMMA MergedOnce ==
    ASSUME NEW l, NEW items, IsABag(l), Unique(items), PeerOnce(l)
    PROVE  PeerOnce(Merged(l, items))
<1> DEFINE M == Merged(l, items)
<1>1. /\ Shown(M) = items \cup {e \in Shown(l) : ~Has(items, e.id)}
      /\ \A e \in items : M[e] = 1
      /\ \A e \in Shown(M) \ items : M[e] = l[e]
  BY MergedLists
<1> HIDE DEF M
<1>2. SUFFICES ASSUME NEW e \in Shown(M), NEW f \in Shown(M), e.text = Peer
               PROVE  M[e] = 1 /\ (f.id = e.id => f = e)
  BY DEF PeerOnce, M
<1>3. CASE e \in items
  <2>1. f.id = e.id => f \in items
    BY <1>1, <1>3 DEF Has
  <2> QED
    BY <1>1, <1>3, <2>1 DEF Unique
<1>4. CASE e \notin items
  <2>1. e \in Shown(l) /\ ~Has(items, e.id)
    BY <1>1, <1>4
  <2>2. f.id = e.id => f \in Shown(l)
    BY <1>1, <2>1 DEF Has
  <2> QED
    BY <1>1, <1>2, <1>4, <2>1, <2>2 DEF PeerOnce
<1> QED
  BY <1>3, <1>4

LEMMA PageListed ==
    ASSUME NEW p, NEW ev, NEW ms, NEW items, NEW ch, GoodPage(p, ev, ms, items, ch)
    PROVE  GoodList(p, ev, ms, SetToBag(items), ch)
BY SetToBagLists DEF GoodPage, GoodList, PeerOnce, Unique

LEMMA EmptyGood ==
    ASSUME NEW p, NEW ev, NEW ms, NEW ch
    PROVE  GoodList(p, ev, ms, EmptyBag, ch)
BY EmptyLists DEF GoodList, Good, KnownIn, Complete, Fresh, PeerOnce

LEMMA TempFacts ==
    ASSUME NEW t \in Temps
    PROVE  t.id \in Int /\ t.id < 0 /\ t.text \in Texts /\ t.text # Peer /\ IsTemp(t)
<1>1. PICK j \in 1 .. MaxSends, x \in Texts : t = Temp(j, x)
  BY DEF Temps
<1>2. t.id = 0 - j /\ t.text = x
  BY <1>1 DEF Temp, Entry
<1> QED
  BY <1>2, BoundsAssumption, PeerAssumption DEF IsTemp

LEMMA KnownFacts ==
    ASSUME NEW p, DOMAIN p \subseteq Nat \ {0}, NEW e, Known(p, e)
    PROVE  e.id \in Nat /\ 0 < e.id /\ ~IsTemp(e) /\ e \notin Temps
<1>1. e.id \in Nat /\ 0 < e.id /\ ~IsTemp(e)
  BY DEF Known, IsTemp
<1> QED
  BY <1>1, TempFacts

\* What is listed is a message or an optimistic entry, and which is seen by the id.
LEMMA ListableFacts ==
    ASSUME NEW p, DOMAIN p \subseteq Nat \ {0}, NEW l, AllListable(p, l), NEW e \in Shown(l)
    PROVE  /\ e.id \in Int
           /\ 0 < e.id => Known(p, e)
           /\ ~(0 < e.id) => e \in Temps /\ IsTemp(e)
           /\ e.text = Peer => 0 < e.id
BY KnownFacts, TempFacts DEF AllListable

\* An optimistic entry changes nothing for the messages listed.
LEMMA TempAdded ==
    ASSUME NEW p, NEW ev, NEW ms, NEW l, NEW ch, IsABag(l), GoodList(p, ev, ms, l, ch),
           AllListable(p, l), DOMAIN p \subseteq Nat \ {0}, NEW t \in Temps
    PROVE  GoodList(p, ev, ms, l (+) SetToBag({t}), ch)
<1> DEFINE k == l (+) SetToBag({t})
<1>1. t.id \in Int /\ t.id < 0 /\ t.text # Peer
  BY TempFacts
<1>3. Shown(k) = Shown(l) \cup {t} /\ \A e \in Shown(l) \ {t} : k[e] = l[e]
  BY SetToBagLists, SumLists
<1> HIDE DEF k
<1>4. Good(p, ev, ms, Shown(k), ch)
  <2>1. KnownIn(p, Shown(k), ch)
    BY <1>1, <1>3 DEF GoodList, Good, KnownIn
  <2>2. Complete(p, ev, ms, Shown(k), ch)
    BY <1>1, <1>3 DEF GoodList, Good, Complete, Has
  <2>3. Fresh(p, ev, ms, Shown(k), {})
    BY <1>1, <1>3 DEF GoodList, Good, Fresh, Has
  <2> QED
    BY <2>1, <2>2, <2>3 DEF Good
<1>5. PeerOnce(k)
  <2> SUFFICES ASSUME NEW e \in Shown(k), NEW f \in Shown(k), e.text = Peer
               PROVE  k[e] = 1 /\ (f.id = e.id => f = e)
    BY DEF PeerOnce
  <2>1. e \in Shown(l) /\ e # t
    BY <1>1, <1>3
  <2>2. e.id # t.id
    BY <1>1, <2>1, ListableFacts
  <2> QED
    BY <1>3, <2>1, <2>2 DEF GoodList, PeerOnce
<1> QED
  BY <1>4, <1>5 DEF GoodList, k

\* A message that is new to the window, or known already.
LEMMA ReceivedLists ==
    ASSUME NEW p, DOMAIN p \subseteq Nat \ {0}, NEW l, IsABag(l), AllListable(p, l),
           NEW m, Known(p, m)
    PROVE  /\ IsABag(Received(l, m)) /\ AllListable(p, Received(l, m))
           /\ Shown(Received(l, m)) \subseteq Shown(l) \cup {m}
           /\ \A e \in Shown(l) : 0 < e.id => e \in Shown(Received(l, m))
           /\ Has(Shown(Received(l, m)), m.id)
           /\ \A e \in Shown(l) : e.text = Peer /\ e # m => Received(l, m)[e] = l[e]
           /\ m.text = Peer =>
                 \/ Received(l, m) = l
                 \/ Received(l, m)[m] = 1 /\ \A e \in Shown(l) : e.id # m.id
<1> DEFINE R == Received(l, m)
<1>1. CASE Matching(l, m) # {}
  <2>1. R = Replaced(l, m)
    BY <1>1 DEF Received
  <2>2. \A e \in Matching(l, m) : e.id \in Int /\ e \in Temps /\ e.text # Peer /\ ~(0 < e.id) /\ e.text = m.text
    <3> SUFFICES ASSUME NEW e \in Matching(l, m)
                 PROVE  e.id \in Int /\ e \in Temps /\ e.text # Peer /\ ~(0 < e.id) /\ e.text = m.text
      OBVIOUS
    <3>1. e \in Shown(l) /\ e.id < 0 /\ e.text = m.text
      BY DEF Matching, IsTemp
    <3>2. e.id \in Int /\ ~(0 < e.id)
      BY <3>1, ListableFacts
    <3> QED
      BY <3>1, <3>2, ListableFacts
  <2>3. PICK first \in Matching(l, m) :
           /\ IsABag(R) /\ m \in Shown(R) /\ Shown(R) \subseteq Shown(l) \cup {m}
           /\ \A e \in Shown(l) \ {first, m} : e \in Shown(R) /\ R[e] = l[e]
    BY <1>1, <2>1, <2>2, ReplacedLists
  <2> HIDE DEF R
  <2>4. m.text # Peer
    BY <1>1, <2>2
  <2>5. AllListable(p, R)
    BY <2>3 DEF AllListable
  <2>6. \A e \in Shown(l) : 0 < e.id => e \in Shown(R)
    BY <2>2, <2>3
  <2>7. Has(Shown(R), m.id)
    BY <2>3 DEF Has
  <2>8. \A e \in Shown(l) : e.text = Peer /\ e # m => R[e] = l[e]
    BY <2>2, <2>3
  <2> QED
    BY <2>3, <2>4, <2>5, <2>6, <2>7, <2>8 DEF R
<1>2. CASE Matching(l, m) = {} /\ m.id \in ShownIds(l)
  <2>1. R = l
    BY <1>2 DEF Received
  <2>2. Has(Shown(l), m.id)
    BY <1>2 DEF Has, ShownIds
  <2> QED
    BY <2>1, <2>2
<1>3. CASE Matching(l, m) = {} /\ m.id \notin ShownIds(l)
  <2>1. R = l (+) SetToBag({m})
    BY <1>3 DEF Received
  <2>2. m \notin Shown(l) /\ \A e \in Shown(l) : e.id # m.id
    BY <1>3 DEF ShownIds
  <2>3. /\ IsABag(R) /\ Shown(R) = Shown(l) \cup {m} /\ R[m] = 1
        /\ \A e \in Shown(l) \ {m} : R[e] = l[e]
    BY <2>1, <2>2, SetToBagLists, SumLists
  <2> HIDE DEF R
  <2>4. AllListable(p, R)
    BY <2>3 DEF AllListable
  <2>5. Has(Shown(R), m.id)
    BY <2>3 DEF Has
  <2> QED
    BY <2>2, <2>3, <2>4, <2>5 DEF R
<1> QED
  BY <1>1, <1>2, <1>3

LEMMA ReceivedOnce ==
    ASSUME NEW p, DOMAIN p \subseteq Nat \ {0}, NEW l, IsABag(l), AllListable(p, l), PeerOnce(l),
           NEW m, Known(p, m)
    PROVE  PeerOnce(Received(l, m))
<1> DEFINE R == Received(l, m)
<1>1. CASE R = l
  BY <1>1
<1>2. CASE R # l
  <2>1. /\ AllListable(p, R) /\ Shown(R) \subseteq Shown(l) \cup {m}
        /\ \A e \in Shown(l) : e.text = Peer /\ e # m => R[e] = l[e]
        /\ m.text = Peer => R[m] = 1 /\ \A e \in Shown(l) : e.id # m.id
    BY <1>2, ReceivedLists
  <2> HIDE DEF R
  <2>2. SUFFICES ASSUME NEW e \in Shown(R), NEW f \in Shown(R), e.text = Peer
                 PROVE  R[e] = 1 /\ (f.id = e.id => f = e)
    BY DEF PeerOnce, R
  <2>3. CASE e = m
    BY <2>1, <2>2, <2>3
  <2>4. CASE e # m
    <3>1. e \in Shown(l) /\ R[e] = l[e]
      BY <2>1, <2>2, <2>4
    <3>2. CASE f = m
      <4>1. e.id # m.id
        <5>1. Known(p, e)
          BY <2>2, <3>1, ListableFacts
        <5>2. e.id = m.id => m.text = Peer
          BY <2>2, <5>1 DEF Known
        <5> QED
          BY <2>1, <3>1, <5>2
      <4> QED
        BY <2>2, <3>1, <3>2, <4>1 DEF PeerOnce
    <3>3. CASE f # m
      <4>1. f \in Shown(l)
        BY <2>1, <3>3
      <4> QED
        BY <2>2, <3>1, <4>1 DEF PeerOnce
    <3> QED
      BY <3>2, <3>3
  <2> QED
    BY <2>3, <2>4
<1> QED
  BY <1>1, <1>2

LEMMA ReceivedGood ==
    ASSUME NEW p, NEW ev, NEW ew, NEW ms, NEW mt, NEW m, Handles(p, ev, ew, ms, mt, m),
           DOMAIN p \subseteq Nat \ {0}, NEW l, IsABag(l), AllListable(p, l), NEW ch,
           Good(p, ev, ms, Shown(l), ch), m.version = "sent", p[m.id].channel = ch
    PROVE  Good(p, ew, mt, Shown(Received(l, m)), ch)
<1> DEFINE R == Shown(Received(l, m))
<1>1. Known(p, m)
  BY DEF Handles
<1>2. /\ R \subseteq Shown(l) \cup {m} /\ Has(R, m.id)
      /\ \A e \in Shown(l) : 0 < e.id => e \in R
  BY <1>1, ReceivedLists
<1> HIDE DEF R
<1>3. /\ KnownIn(p, Shown(l), ch) /\ Complete(p, ev, ms, Shown(l), ch)
      /\ Fresh(p, ev, ms, Shown(l), {})
  BY DEF Good
<1>4. KnownIn(p, R, ch)
  BY <1>1, <1>2, <1>3 DEF KnownIn
<1>5. \A e \in R : 0 < e.id => Has(Shown(l), e.id) \/ e.id = m.id
  BY <1>2 DEF Has
<1>6. \A e \in Shown(l) : 0 < e.id => Has(R, e.id)
  BY <1>2 DEF Has
<1>7. \A e \in Shown(l) : e.id \in Int
  BY ListableFacts
<1>8. Complete(p, ew, mt, R, ch)
  BY <1>2, <1>3, <1>5, <1>6, <1>7, ToldComplete
<1>9. ASSUME ~Pend(ew, m.id) PROVE m \in R
  <2>1. PICK f \in R : f.id = m.id
    BY <1>2 DEF Has
  <2>2. CASE f \in Shown(l)
    <3>1. Known(p, f)
      BY <1>1, <2>1, <2>2, KnownFacts, ListableFacts
    <3>2. m = MessageOf(p, m.id)
      BY <1>9 DEF Handles
    <3> QED
      BY <1>1, <2>1, <3>1, <3>2, HandledEntry
  <2> QED
    BY <1>2, <2>1, <2>2
<1>10. Fresh(p, ew, mt, R, {})
  <2>1. \A e \in Shown(l) : 0 < e.id /\ e.id # m.id => e \in R
    BY <1>2
  <2> QED
    BY <1>3, <1>5, <1>9, <2>1, ToldFresh
<1> QED
  BY <1>4, <1>8, <1>10 DEF Good, R

-----------------------------------------------------------------------------
(* The queries of the service. *)

LEMMA LatestFacts ==
    ASSUME NEW S, IsFiniteSet(S), \A n \in S : n \in Int
    PROVE  /\ Latest(S) \subseteq S
           /\ \A n \in Latest(S), i \in S : n < i => i \in Latest(S)
<1>1. Latest(S) \subseteq S
  BY DEF Latest
<1>2. ASSUME NEW n \in Latest(S), NEW i \in S, n < i PROVE i \in Latest(S)
  <2> DEFINE A == {j \in S : j > n}
             B == {j \in S : j > i}
  <2>1. n \in S /\ n \in Int /\ i \in Int /\ Cardinality(A) < PageSize
    BY <1>2 DEF Latest
  <2>2. B \subseteq A
    <3>1. \A j \in S : j > i => j > n
      BY <1>2, <2>1
    <3> QED
      BY <3>1
  <2>3. IsFiniteSet(A)
    BY FS_Subset
  <2> HIDE DEF A, B
  <2>4. Cardinality(B) <= Cardinality(A) /\ IsFiniteSet(B)
    BY <2>2, <2>3, FS_Subset
  <2>5. Cardinality(B) \in Nat /\ Cardinality(A) \in Nat
    BY <2>3, <2>4, FS_CardinalityType
  <2>6. Cardinality(B) < PageSize
    BY <2>1, <2>4, <2>5, SizesAssumption
  <2> QED
    BY <2>6 DEF Latest, B
<1> QED
  BY <1>1, <1>2

LEMMA PostedFacts ==
    ASSUME posted \in Seq(Posted)
    PROVE  /\ DOMAIN posted \subseteq Nat \ {0} /\ DOMAIN posted = 1 .. Len(posted)
           /\ \A n \in DOMAIN posted : posted[n] \in Posted /\ n \in Int
           /\ \A n \in DOMAIN posted :
                 Known(posted, Message(n)) /\ Message(n).id = n /\ MessageOf(posted, n) = Message(n)
           /\ \A ch : InChannel(ch) = Alive(posted, ch)
           /\ \A ch : IsFiniteSet(InChannel(ch)) /\ InChannel(ch) \subseteq DOMAIN posted
<1>1. DOMAIN posted = 1 .. Len(posted) /\ Len(posted) \in Nat
  OBVIOUS
<1>2. DOMAIN posted \subseteq Nat \ {0}
  BY <1>1
<1>3. \A n \in DOMAIN posted : posted[n] \in Posted /\ n \in Int
  BY <1>1
<1>4. \A n \in DOMAIN posted : Message(n).id = n /\ MessageOf(posted, n) = Message(n)
  BY EntryFields DEF Message, MessageOf
<1>5. \A n \in DOMAIN posted : Known(posted, Message(n))
  BY <1>3 DEF Message, Entry, Entries, Posted, Known
<1>6. \A ch : InChannel(ch) = Alive(posted, ch) /\ InChannel(ch) \subseteq DOMAIN posted
  BY DEF InChannel, Alive
<1>7. IsFiniteSet(DOMAIN posted)
  BY <1>1, FS_Interval
<1>8. \A ch : IsFiniteSet(InChannel(ch))
  BY <1>6, <1>7, FS_Subset
<1> QED
  BY <1>1, <1>2, <1>3, <1>4, <1>5, <1>6, <1>8

\* A page the service answers with.
LEMMA FirstPageGood ==
    ASSUME posted \in Seq(Posted), NEW ch
    PROVE  /\ FirstPage(ch) \in Pages
           /\ GoodPage(posted, events, missed, FirstPage(ch).items, ch)
<1> DEFINE L == Latest(InChannel(ch))
           S == {Message(n) : n \in L}
<1>1. L \subseteq InChannel(ch) /\ \A n \in L, i \in InChannel(ch) : n < i => i \in L
  <2>1. IsFiniteSet(InChannel(ch)) /\ \A n \in InChannel(ch) : n \in Int
    BY PostedFacts
  <2> QED
    BY <2>1, LatestFacts
<1>2. FirstPage(ch).items = S /\ FirstPage(ch) = [items |-> S, hasNext |-> Cardinality(InChannel(ch)) > PageSize]
  BY DEF FirstPage, Page
<1> HIDE DEF L
<1>3. \A e \in S : e.id \in L /\ e = Message(e.id) /\ Known(posted, e)
  BY <1>1, PostedFacts
<1>4. \A n \in L : Message(n) \in S /\ Message(n).id = n
  BY <1>1, PostedFacts
<1> HIDE DEF S
<1>5. S \subseteq Entries
  BY <1>3 DEF Known
<1>6. FirstPage(ch) \in Pages
  BY <1>2, <1>5 DEF Pages
<1>7. AllKnown(posted, S) /\ Unique(S)
  BY <1>3 DEF AllKnown, Unique
<1>8. KnownIn(posted, S, ch)
  BY <1>1, <1>3 DEF KnownIn, InChannel
<1>9. Complete(posted, events, missed, S, ch)
  <2> SUFFICES ASSUME NEW e \in S, NEW i \in Alive(posted, ch), e.id < i PROVE Has(S, i)
    BY DEF Complete
  <2>1. i \in L
    BY <1>1, <1>3, PostedFacts
  <2> QED
    BY <1>4, <2>1 DEF Has
<1>10. Fresh(posted, events, missed, S, {})
  BY <1>1, <1>3, PostedFacts DEF Fresh
<1> QED
  BY <1>2, <1>6, <1>7, <1>8, <1>9, <1>10 DEF GoodPage, Good

LEMMA BeforeFacts ==
    ASSUME posted \in Seq(Posted), NEW ch, NEW id \in Int
    PROVE  /\ \A e \in Before(ch, id) : /\ Known(posted, e) /\ e = Message(e.id)
                                       /\ e.id \in InChannel(ch) /\ e.id < id
           /\ \A e \in Before(ch, id), i \in InChannel(ch) :
                 e.id < i /\ i < id => Has(Before(ch, id), i)
<1> DEFINE T == {n \in InChannel(ch) : n < id}
           L == Latest(T)
<1>1. L \subseteq T /\ \A n \in L, i \in T : n < i => i \in L
  <2>1. IsFiniteSet(T) /\ \A n \in T : n \in Int
    BY PostedFacts, FS_Subset
  <2> HIDE DEF T
  <2> QED
    BY <2>1, LatestFacts
<1>2. Before(ch, id) = {Message(n) : n \in L}
  BY DEF Before
<1> HIDE DEF L
<1>3. \A n \in L : n \in InChannel(ch) /\ n < id /\ Known(posted, Message(n)) /\ Message(n).id = n
  BY <1>1, PostedFacts
<1>4. \A e \in Before(ch, id) : e.id \in L /\ e = Message(e.id)
  BY <1>2, <1>3
<1>5. ASSUME NEW e \in Before(ch, id), NEW i \in InChannel(ch), e.id < i, i < id
      PROVE  Has(Before(ch, id), i)
  <2>1. i \in L
    BY <1>1, <1>4, <1>5
  <2> QED
    BY <1>2, <1>3, <2>1 DEF Has
<1> QED
  BY <1>3, <1>4, <1>5

\* A page of history in step with the list.
LEMMA PrependedGood ==
    ASSUME posted \in Seq(Posted), IsABag(list), AllListable(posted, list), NEW ch,
           GoodList(posted, events, missed, list, ch), NEW id, IsOldest(id, list)
    PROVE  GoodList(posted, events, missed, Prepended(list, Before(ch, id)), ch)
<1> DEFINE O == Before(ch, id)
           P == Prepended(list, O)
<1>1. PICK o \in Shown(list) : o.id = id /\ 0 < id /\ id \in Int
  <2>1. PICK o \in Shown(list) : o.id = id
    BY DEF IsOldest, ShownIds
  <2> QED
    BY <2>1, PostedFacts, ListableFacts DEF IsOldest
<1>2. \A e \in Shown(list) : e.id \in Int /\ (0 < e.id => id <= e.id)
  BY PostedFacts, ListableFacts DEF IsOldest, ShownIds
<1>3. /\ \A e \in O : /\ Known(posted, e) /\ e = Message(e.id) /\ e.id \in InChannel(ch)
                      /\ e.id < id /\ 0 < e.id /\ e.id \in Int
      /\ \A e \in O, i \in InChannel(ch) : e.id < i /\ i < id => Has(O, i)
  BY <1>1, BeforeFacts, PostedFacts, KnownFacts
<1> HIDE DEF O
<1>4. O \cap Shown(list) = {} /\ \A e \in O, f \in Shown(list) : e.id # f.id
  BY <1>1, <1>2, <1>3
<1>5. /\ Shown(P) = O \cup Shown(list)
      /\ \A e \in O : P[e] = 1
      /\ \A e \in Shown(list) : P[e] = list[e]
  BY <1>4, SetToBagLists, SumLists DEF Prepended
<1> HIDE DEF P
<1>6. KnownIn(posted, Shown(P), ch)
  <2>1. \A e \in O : posted[e.id].channel = ch
    BY <1>3 DEF InChannel
  <2> QED
    BY <1>3, <1>5, <2>1 DEF KnownIn, GoodList, Good
<1>7. Complete(posted, events, missed, Shown(P), ch)
  <2> SUFFICES ASSUME NEW e \in Shown(P), NEW i \in Alive(posted, ch),
                      0 < e.id, e.id < i, i \notin missed
               PROVE  Has(Shown(P), i) \/ SentPend(events, i)
    BY DEF Complete
  <2>1. \A f \in Shown(list) : 0 < f.id /\ f.id < i =>
           Has(Shown(list), i) \/ SentPend(events, i)
    BY DEF GoodList, Good, Complete
  <2>2. i \in InChannel(ch) /\ i \in Int
    BY PostedFacts
  <2>3. Has(Shown(list), i) => Has(Shown(P), i)
    BY <1>5 DEF Has
  <2>4. CASE e \in Shown(list)
    BY <2>1, <2>3, <2>4
  <2>5. CASE e \in O /\ i < id
    BY <1>3, <1>5, <2>2, <2>5 DEF Has
  <2>6. CASE i = id
    BY <1>1, <1>5, <2>6 DEF Has
  <2>7. CASE id < i
    BY <1>1, <2>1, <2>3, <2>7
  <2> QED
    BY <1>1, <1>5, <2>2, <2>4, <2>5, <2>6, <2>7
<1>8. Fresh(posted, events, missed, Shown(P), {})
  <2>1. \A e \in O : MessageOf(posted, e.id) = e
    BY <1>3, PostedFacts
  <2> QED
    BY <1>5, <2>1 DEF Fresh, GoodList, Good, Has
<1>9. PeerOnce(P)
  <2> SUFFICES ASSUME NEW e \in Shown(P), NEW f \in Shown(P), e.text = Peer
               PROVE  P[e] = 1 /\ (f.id = e.id => f = e)
    BY DEF PeerOnce
  <2>1. CASE e \in O
    BY <1>3, <1>4, <1>5, <2>1
  <2>2. CASE e \in Shown(list)
    <3>1. f.id = e.id => f \in Shown(list)
      BY <1>4, <1>5, <2>2
    <3> QED
      BY <1>5, <2>2, <3>1 DEF GoodList, PeerOnce
  <2> QED
    BY <1>5, <2>1, <2>2
<1> QED
  BY <1>6, <1>7, <1>8, <1>9 DEF GoodList, Good, P, O

-----------------------------------------------------------------------------
(* Types. *)

LEMMA Spent ==
    ASSUME budget \in BudgetType,
           NEW what \in {"posts", "changes", "sends", "mutations", "opens", "scrolls", "faults", "typings"},
           Spend(what)
    PROVE  /\ budget' \in BudgetType
           /\ what # "scrolls" => budget'.scrolls = budget.scrolls
           /\ what = "scrolls" => budget.scrolls > 0 /\ budget'.scrolls = budget.scrolls - 1
           /\ what = "sends" => budget.sends > 0
BY BoundsAssumption DEF BudgetType, Spend

LEMMA TailOf ==
    ASSUME NEW ev \in Seq(Events), ev # <<>>
    PROVE  /\ Tail(ev) \in Seq(Events) /\ Head(ev) = ev[1] /\ 1 \in DOMAIN ev
           /\ \A k \in DOMAIN ev : k = 1 \/ (k - 1 \in DOMAIN Tail(ev) /\ Tail(ev)[k - 1] = ev[k])
           /\ \A k \in DOMAIN Tail(ev) : k + 1 \in DOMAIN ev /\ Tail(ev)[k] = ev[k + 1]
           /\ DOMAIN ev \subseteq Nat /\ DOMAIN Tail(ev) \subseteq Nat /\ ev[1] \in Events
OBVIOUS

LEMMA SentPendTail ==
    ASSUME NEW ev \in Seq(Events), ev # <<>>, NEW n
    PROVE  /\ Pend(ev, n) => Pend(Tail(ev), n) \/ n = Head(ev).id
           /\ SentPend(ev, n) =>
                 SentPend(Tail(ev), n) \/ (n = Head(ev).id /\ Head(ev).version = "sent")
<1>1. ASSUME NEW k \in DOMAIN ev, k # 1
      PROVE  \E j \in DOMAIN Tail(ev) : Tail(ev)[j] = ev[k]
  BY <1>1, TailOf
<1>2. Head(ev) = ev[1]
  BY TailOf
<1>3. Pend(ev, n) => Pend(Tail(ev), n) \/ n = Head(ev).id
  BY <1>1, <1>2 DEF Pend
<1>4. SentPend(ev, n) =>
        SentPend(Tail(ev), n) \/ (n = Head(ev).id /\ Head(ev).version = "sent")
  BY <1>1, <1>2 DEF SentPend
<1> QED
  BY <1>3, <1>4

LEMMA LaterInTail ==
    ASSUME NEW ev \in Seq(Events), ev # <<>>, NEW j \in DOMAIN ev, 1 < j
    PROVE  \E k \in DOMAIN Tail(ev) : Tail(ev)[k] = ev[j]
<1>1. j # 1
  OBVIOUS
<1> QED
  BY <1>1, TailOf

LEMMA HeadIsLast ==
    ASSUME NEW p, NEW ev \in Seq(Events), ev # <<>>, EventsOf(p, ev), ~Pend(Tail(ev), Head(ev).id)
    PROVE  Head(ev).version = p[Head(ev).id].version
<1>1. Head(ev) = ev[1] /\ 1 \in DOMAIN ev
  BY TailOf
<1>2. \A j \in DOMAIN ev : 1 < j => ev[j].id # ev[1].id
  BY <1>1, LaterInTail DEF Pend
<1> QED
  BY <1>1, <1>2 DEF EventsOf

LEMMA HandledFacts ==
    ASSUME TypeInv, EventsInv, events # <<>>
    PROVE  /\ Handled.id = Head(events).id /\ Handled.version = Head(events).version
           /\ Handled = Entry(Handled.id, Handled.version, posted[Handled.id].text)
           /\ Known(posted, Handled) /\ posted[Handled.id].channel \in Channels
<1> DEFINE m == Handled
<1>1. m.id = Head(events).id /\ m.version = Head(events).version /\ m.text = posted[m.id].text
  BY EntryFields DEF Handled
<1>2. Head(events) = events[1] /\ 1 \in DOMAIN events /\ events[1] \in Events
  BY TailOf DEF TypeInv, ServiceType
<1>3. m = Entry(m.id, m.version, posted[m.id].text)
  BY <1>1 DEF Handled
<1> HIDE DEF m
<1>4. m.id \in DOMAIN posted /\ (posted[m.id].version = "sent" => m.version = "sent")
  BY <1>1, <1>2 DEF EventsInv, EventsOf
<1>5. posted[m.id] \in Posted /\ m.id \in Nat
  BY <1>4, PostedFacts DEF TypeInv, ServiceType
<1>6. m.version \in Versions /\ m.text \in AllTexts
  BY <1>1, <1>2, <1>5 DEF Events, Posted
<1>7. m \in Entries
  BY <1>1, <1>3, <1>5, <1>6 DEF Entries, Entry
<1>8. posted[m.id].channel \in Channels
  BY <1>5 DEF Posted
<1>9. Known(posted, m)
  BY <1>1, <1>4, <1>7 DEF Known
<1> QED
  BY <1>1, <1>3, <1>8, <1>9 DEF m

LEMMA HeadHandled ==
    ASSUME TypeInv, EventsInv, events # <<>>, NEW mt, missed \subseteq mt
    PROVE  Handles(posted, events, Tail(events), missed, mt, Handled)
<1>1. /\ events \in Seq(Events) /\ EventsOf(posted, events)
      /\ \A n \in DOMAIN posted : n \in Int
  BY PostedFacts DEF TypeInv, ServiceType, EventsInv
<1>2. /\ Handled.id = Head(events).id /\ Handled.version = Head(events).version
      /\ Handled = Entry(Handled.id, Handled.version, posted[Handled.id].text)
      /\ Known(posted, Handled)
  BY HandledFacts
<1>3. /\ \A n : Pend(events, n) => Pend(Tail(events), n) \/ n = Handled.id
      /\ \A n : SentPend(events, n) =>
                   SentPend(Tail(events), n) \/ (n = Handled.id /\ Handled.version = "sent")
  BY <1>1, <1>2, SentPendTail
<1>4. ASSUME Handled.version = "sent", NEW n \in DOMAIN posted, Handled.id < n
      PROVE  SentPend(Tail(events), n)
  <2>1. Head(events) = events[1] /\ 1 \in DOMAIN events
    BY <1>1, TailOf
  <2>2. PICK j \in DOMAIN events : 1 < j /\ events[j].id = n /\ events[j].version = "sent"
    BY <1>1, <1>2, <1>4, <2>1 DEF EventsOf
  <2> QED
    BY <1>1, <2>2, LaterInTail DEF SentPend
<1>5. ASSUME ~Pend(Tail(events), Handled.id) PROVE Handled = MessageOf(posted, Handled.id)
  <2>1. Handled.version = posted[Handled.id].version
    BY <1>1, <1>2, <1>5, HeadIsLast
  <2> QED
    BY <1>2, <2>1 DEF MessageOf
<1> QED
  BY <1>2, <1>3, <1>4, <1>5 DEF Handles

LEMMA HookDataType ==
    ASSUME WindowType, NEW c \in CacheEntries
    PROVE  HookData(c) \in Pages \cup {None}
BY DEF WindowType, CacheEntries, HookData

LEMMA RenderedType ==
    ASSUME WindowType, LoadType, NEW ch \in Channels, NEW entries \in [Channels -> CacheEntries],
           NEW messages, IsABag(messages), Rendered(ch, entries, messages)
    PROVE  WindowType' /\ LoadType'
<1> DEFINE data == HookData(entries[ch])
<1>1. data \in Pages \cup {None}
  BY HookDataType
<1>2. channel' = ch /\ cache' = entries /\ hook' = data
  BY DEF Rendered
<1>3. IsABag(Refreshed(ch # channel, messages, data))
  BY SetToBagLists, MergedLists DEF Refreshed
<1>4. IsABag(list')
  BY <1>3, EmptyLists DEF Rendered
<1>5. initial' \in BOOLEAN /\ hasMore' \in BOOLEAN /\ mixed' \in BOOLEAN
  <2>1. data # None => data.hasNext \in BOOLEAN
    BY <1>1 DEF Pages
  <2> QED
    BY <2>1 DEF Rendered, WindowType
<1>6. LoadType'
  BY DEF Rendered, LoadType
<1> QED
  BY <1>1, <1>2, <1>4, <1>5, <1>6 DEF WindowType

LEMMA EntryType ==
    ASSUME WindowType, NEW ch \in Channels
    PROVE  cache[ch] \in CacheEntries
BY DEF WindowType

LEMMA InitType == Init => TypeInv
<1> SUFFICES ASSUME Init PROVE TypeInv
  OBVIOUS
<1>1. ServiceType
  <2>1. posted \in Seq(Posted)
    <3>1. \A n \in DOMAIN Backlog : posted[n] \in Posted
      BY ChannelsAssumption DEF Init, Posted, Versions, AllTexts
    <3>2. DOMAIN posted = 1 .. Len(Backlog) /\ Len(Backlog) \in Nat
      BY ChannelsAssumption DEF Init
    <3> QED
      BY <3>1, <3>2, ChannelsAssumption DEF Init
  <2> QED
    BY <2>1 DEF Init, ServiceType
<1>2. ClientType
  BY DEF Init, ClientType
<1>3. WindowType
  BY ChannelsAssumption, EmptyLists DEF Init, WindowType, CacheEntries, NoEntry, Fetching, Fetches
<1>4. LoadType /\ TypingType
  BY DEF Init, LoadType, TypingType
<1>5. budget \in BudgetType
  BY BoundsAssumption DEF Init, BudgetType
<1> QED
  BY <1>1, <1>2, <1>3, <1>4, <1>5 DEF TypeInv

LEMMA ReconnectedType ==
    ASSUME TypingType, NEW b \in BOOLEAN, Reconnected(b)
    PROVE  TypingType' /\ isConnected' \in BOOLEAN
BY DEF TypingType, Reconnected, typingVars

LEMMA PostsType ==
    ASSUME ServiceType, NEW ch \in Channels, NEW t \in AllTexts, Posts(ch, t)
    PROVE  posted' \in Seq(Posted) /\ events' \in Seq(Events)
<1>1. [channel |-> ch, version |-> "sent", text |-> t] \in Posted
  BY DEF Posted, Versions
<1>2. Len(posted) + 1 \in Int
  BY DEF ServiceType
<1>3. [id |-> Len(posted) + 1, version |-> "sent"] \in Events
  BY <1>2 DEF Events, Versions
<1> QED
  BY <1>1, <1>3 DEF ServiceType, Posts

LEMMA ChangesType ==
    ASSUME ServiceType, NEW n \in DOMAIN posted, NEW v \in Versions, Changes(n, v)
    PROVE  posted' \in Seq(Posted) /\ events' \in Seq(Events)
<1>1. posted' \in Seq(Posted)
  <2>1. posted[n] \in Posted /\ [posted[n] EXCEPT !.version = v] \in Posted
    BY PostedFacts DEF ServiceType, Posted
  <2> QED
    BY <2>1 DEF ServiceType, Changes
<1>2. [id |-> n, version |-> v] \in Events
  BY PostedFacts DEF ServiceType, Events
<1> QED
  BY <1>1, <1>2 DEF ServiceType, Changes

LEMMA SameTypes ==
    ASSUME TypeInv
    PROVE  /\ UNCHANGED serviceVars => ServiceType'
           /\ UNCHANGED clientVars => ClientType'
           /\ UNCHANGED windowVars => WindowType'
           /\ UNCHANGED loadVars => LoadType'
           /\ UNCHANGED typingVars => TypingType'
           /\ UNCHANGED budget => (budget \in BudgetType)'
<1>1. UNCHANGED serviceVars => ServiceType'
  BY DEF TypeInv, ServiceType, serviceVars
<1>2. UNCHANGED clientVars => ClientType'
  BY DEF TypeInv, ClientType, clientVars
<1>3. UNCHANGED windowVars => WindowType'
  BY DEF TypeInv, WindowType, windowVars
<1>4. UNCHANGED loadVars => LoadType'
  BY DEF TypeInv, LoadType, loadVars
<1>5. UNCHANGED typingVars => TypingType'
  BY DEF TypeInv, TypingType, typingVars
<1> QED
  BY <1>1, <1>2, <1>3, <1>4, <1>5 DEF TypeInv

LEMMA ServiceStepType ==
    ASSUME TypeInv, ContentInv
    PROVE  /\ \A ch \in Channels, t \in AllTexts : Post(ch, t) => TypeInv'
           /\ \A n \in DOMAIN posted, v \in {"edited", "deleted"} : Change(n, v) => TypeInv'
           /\ ServerReceives => TypeInv'
<1> USE DEF TypeInv
<1>1. ASSUME NEW ch \in Channels, NEW t \in AllTexts, Post(ch, t) PROVE TypeInv'
  <2>1. ServiceType'
    BY <1>1, PostsType DEF Post, ServiceType
  <2>2. (budget \in BudgetType)'
    BY <1>1, Spent DEF Post
  <2> QED
    BY <1>1, <2>1, <2>2, SameTypes DEF Post
<1>2. ASSUME NEW n \in DOMAIN posted, NEW v \in {"edited", "deleted"}, Change(n, v) PROVE TypeInv'
  <2>1. ServiceType'
    BY <1>2, ChangesType DEF Change, ServiceType, Versions
  <2>2. (budget \in BudgetType)'
    BY <1>2, Spent DEF Change
  <2> QED
    BY <1>2, <2>1, <2>2, SameTypes DEF Change
<1>3. ASSUME ServerReceives PROVE TypeInv'
  <2>1. Head(outbox) \in Published /\ outbox' \in Seq(Published)
    BY <1>3 DEF ServerReceives, ServiceType
  <2>2. CASE Posts(Head(outbox).channel, Head(outbox).text) /\ UNCHANGED <<budget, dropped>>
    <3>1. posted' \in Seq(Posted) /\ events' \in Seq(Events)
      <4>1. Head(outbox).channel \in Channels /\ Head(outbox).text \in AllTexts
        BY <2>1 DEF Published, AllTexts
      <4> QED
        BY <2>2, <4>1, PostsType
    <3> QED
      BY <1>3, <2>1, <2>2, <3>1, SameTypes DEF ServerReceives, ServiceType
  <2>3. CASE Spend("faults") /\ UNCHANGED <<posted, events>>
    <3>1. (budget \in BudgetType)'
      BY <2>3, Spent
    <3> QED
      BY <1>3, <2>1, <2>3, <3>1, SameTypes DEF ServerReceives, ServiceType
  <2> QED
    BY <1>3, <2>2, <2>3 DEF ServerReceives
<1> QED
  BY <1>1, <1>2, <1>3

LEMMA ConnectionStepType ==
    ASSUME TypeInv, Connect \/ Break \/ Noticed \/ RenewToken \/ OldCloses
    PROVE  TypeInv'
<1> USE DEF TypeInv
<1>1. CASE Connect
  <2>1. PICK k \in 0 .. Len(events) : events' = SubSeq(events, k + 1, Len(events))
    BY <1>1 DEF Connect
  <2>2. events' \in Seq(Events)
    BY <2>1 DEF ServiceType
  <2>3. ServiceType'
    BY <1>1, <2>2 DEF Connect, ServiceType
  <2>4. TypingType' /\ isConnected' \in BOOLEAN
    BY <1>1, ReconnectedType DEF Connect
  <2>5. ClientType'
    BY <1>1, <2>4 DEF Connect, ClientType
  <2> QED
    BY <1>1, <2>3, <2>4, <2>5, SameTypes DEF Connect
<1>2. CASE Break
  <2>1. ServiceType'
    BY <1>2 DEF Break, ServiceType
  <2>2. ClientType'
    BY <1>2 DEF Break, ClientType
  <2>3. (budget \in BudgetType)'
    BY <1>2, Spent DEF Break
  <2> QED
    BY <1>2, <2>1, <2>2, <2>3, SameTypes DEF Break
<1>3. CASE Noticed
  <2>1. TypingType' /\ isConnected' \in BOOLEAN
    BY <1>3, ReconnectedType DEF Noticed
  <2>2. ClientType'
    BY <1>3, <2>1 DEF Noticed, ClientType
  <2> QED
    BY <1>3, <2>1, <2>2, SameTypes DEF Noticed
<1>4. CASE RenewToken
  <2>1. ClientType'
    BY <1>4 DEF RenewToken, ClientType
  <2>2. (budget \in BudgetType)'
    BY <1>4, Spent DEF RenewToken
  <2> QED
    BY <1>4, <2>1, <2>2, SameTypes DEF RenewToken
<1>5. CASE OldCloses
  <2>1. TypingType' /\ isConnected' \in BOOLEAN
    BY <1>5, ReconnectedType DEF OldCloses
  <2>2. ClientType'
    <3>1. closing' = FALSE /\ link' = link /\ rest' = rest
      BY <1>5 DEF OldCloses
    <3>2. ClientType
      OBVIOUS
    <3> QED
      BY ONLY <2>1, <3>1, <3>2 DEF ClientType
  <2> QED
    BY <1>5, <2>1, <2>2, SameTypes DEF OldCloses
<1> QED
  BY <1>1, <1>2, <1>3, <1>4, <1>5

\* The cache and the list the handler of an event hands to the effects.
LEMMA ToldTypes ==
    ASSUME TypeInv, ContentInv, events # <<>>
    PROVE  CacheTold(Handled) \in [Channels -> CacheEntries] /\ IsABag(ListTold(Handled))
<1> DEFINE m == Handled
           ch == posted[m.id].channel
           page == Told(cache[ch].data.items, m)
<1>1. Known(posted, m) /\ ch \in Channels
  BY HandledFacts DEF ContentInv
<1> HIDE DEF m
<1>2. ServiceType /\ WindowType
  BY DEF TypeInv
<1>3. CacheTold(m) \in [Channels -> CacheEntries]
  <2>1. cache[ch] \in CacheEntries
    BY <1>1, <1>2, EntryType
  <2>2. CASE cache[ch].data = None
    BY <1>2, <2>2 DEF WindowType, CacheTold
  <2>3. CASE cache[ch].data # None
    <3>1. cache[ch].data \in Pages
      BY <2>1, <2>3 DEF CacheEntries
    <3>2. cache[ch].data.items \subseteq Entries
      BY <3>1 DEF Pages
    <3>3. page \subseteq Entries
      BY <1>1, <3>2 DEF Told, Pushed, Rewritten, Known
    <3> HIDE DEF page
    <3>4. [cache[ch].data EXCEPT !.items = page] \in Pages
      BY <3>1, <3>3 DEF Pages
    <3>5. [cache[ch] EXCEPT !.data.items = page] \in CacheEntries
      BY <2>1, <3>4 DEF CacheEntries
    <3> QED
      BY <1>1, <1>2, <2>3, <3>5 DEF WindowType, CacheTold, page
  <2> QED
    BY <2>2, <2>3
<1>4. IsABag(ListTold(m))
  BY <1>1, <1>2, PostedFacts, ReceivedLists DEF WindowType, ServiceType, ContentInv, ListInv, ListTold
<1> QED
  BY <1>3, <1>4 DEF m

LEMMA ReceiveType ==
    ASSUME TypeInv, ContentInv, Receive
    PROVE  TypeInv'
<1>0. ServiceType /\ WindowType /\ LoadType /\ channel \in Channels
  BY DEF TypeInv, WindowType
<1>1. events # <<>> /\ Rendered(channel, CacheTold(Handled), ListTold(Handled))
  BY DEF Receive
<1>2. WindowType' /\ LoadType'
  BY <1>0, <1>1, ToldTypes, RenderedType
<1>3. ServiceType'
  <2>1. posted' = posted /\ outbox' = outbox /\ events' = Tail(events)
    BY DEF Receive
  <2>2. events' \in Seq(Events)
    BY <1>0, <1>1, <2>1 DEF ServiceType
  <2> QED
    BY <1>0, <2>1, <2>2 DEF ServiceType
<1>4. UNCHANGED clientVars /\ UNCHANGED typingVars /\ UNCHANGED budget
  BY DEF Receive
<1> QED
  BY <1>2, <1>3, <1>4, SameTypes DEF TypeInv

LEMMA MutationStepType ==
    ASSUME TypeInv, ContentInv
    PROVE  /\ \A t \in Texts : Send(t) \/ SendByRest(t) => TypeInv'
           /\ \A n \in DOMAIN posted, v \in {"edited", "deleted"} : ChangeByRest(n, v) => TypeInv'
           /\ MutationApplied \/ MutationEnds => TypeInv'
<1> USE DEF TypeInv
<1>1. ASSUME NEW t \in Texts, Send(t) PROVE TypeInv'
  <2>1. (budget \in BudgetType)' /\ budget.sends > 0 /\ budget.sends \in 0 .. MaxSends
    BY <1>1, Spent DEF Send, BudgetType
  <2>4. MaxSends - budget.sends + 1 \in 1 .. MaxSends
    BY <2>1, BoundsAssumption
  <2>2. WindowType'
    BY <1>1, SetToBagLists, SumLists DEF Send, WindowType
  <2>3. ServiceType'
    <3>1. channel \in Channels
      BY DEF WindowType
    <3>2. [channel |-> channel, text |-> t, key |-> MaxSends - budget.sends + 1] \in Published
      BY <2>4, <3>1 DEF Published
    <3>3. outbox' \in Seq(Published)
      <4> DEFINE r == [channel |-> channel, text |-> t, key |-> MaxSends - budget.sends + 1]
      <4>1. outbox' = Append(outbox, r) \/ outbox' = outbox
        BY <1>1 DEF Send
      <4>2. r \in Published
        BY <3>2
      <4>3. outbox \in Seq(Published)
        BY DEF ServiceType
      <4> HIDE DEF r
      <4> QED
        BY ONLY <4>1, <4>2, <4>3
    <3>4. posted' = posted /\ events' = events
      BY <1>1 DEF Send
    <3> QED
      BY <3>3, <3>4 DEF ServiceType
  <2> QED
    BY <1>1, <2>1, <2>2, <2>3, SameTypes DEF Send
<1>2. ASSUME NEW op \in Versions, NEW n \in Int, NEW t \in AllTexts, Mutation(op, n, t)
      PROVE  TypeInv'
  <2>1. (budget \in BudgetType)'
    BY <1>2, Spent DEF Mutation
  <2>2. ClientType'
    BY <1>2 DEF Mutation, ClientType, Requests, WindowType
  <2> QED
    BY <1>2, <2>1, <2>2, SameTypes DEF Mutation
<1>3. ASSUME NEW t \in Texts, SendByRest(t) PROVE TypeInv'
  BY <1>2, <1>3 DEF SendByRest, Versions, AllTexts
<1>4. ASSUME NEW n \in DOMAIN posted, NEW v \in {"edited", "deleted"}, ChangeByRest(n, v) PROVE TypeInv'
  <2>1. v \in Versions /\ n \in Int /\ Peer \in AllTexts
    BY PostedFacts DEF Versions, AllTexts, ServiceType
  <2> QED
    BY <1>2, <1>4, <2>1 DEF ChangeByRest
<1>5. ASSUME MutationApplied PROVE TypeInv'
  <2>1. rest \in Requests /\ rest' \in Requests
    BY <1>5 DEF MutationApplied, ClientType, Requests
  <2>2. posted' \in Seq(Posted) /\ events' \in Seq(Events)
    <3>1. CASE rest.op = "sent"
      <4>1. rest.channel \in Channels /\ rest.text \in AllTexts
        BY <2>1 DEF Requests
      <4> QED
        BY <1>5, <3>1, <4>1, PostsType DEF MutationApplied
    <3>2. CASE rest.op # "sent"
      <4>1. rest.id \in DOMAIN posted /\ rest.op \in Versions
        BY <1>5, <2>1, <3>2 DEF MutationApplied, ContentInv, RestInv, Requests
      <4> QED
        BY <1>5, <3>2, <4>1, ChangesType DEF MutationApplied, ServiceType
    <3> QED
      BY <3>1, <3>2
  <2>3. ServiceType'
    BY <1>5, <2>2 DEF MutationApplied, ServiceType
  <2>4. ClientType'
    BY <1>5, <2>1 DEF MutationApplied, ClientType
  <2> QED
    BY <1>5, <2>3, <2>4, SameTypes DEF MutationApplied
<1>6. ASSUME MutationEnds PROVE TypeInv'
  <2>1. rest.channel \in Channels
    BY <1>6 DEF MutationEnds, ClientType, Requests
  <2>2. [cache[rest.channel] EXCEPT !.owed = TRUE] \in CacheEntries
    BY <2>1, EntryType DEF CacheEntries
  <2>3. WindowType'
    BY <1>6, <2>1, <2>2 DEF MutationEnds, WindowType
  <2>4. ClientType'
    BY <1>6 DEF MutationEnds, ClientType
  <2>5. (budget \in BudgetType)'
    BY <1>6, Spent DEF MutationEnds
  <2> QED
    BY <1>6, <2>3, <2>4, <2>5, SameTypes DEF MutationEnds
<1> QED
  BY <1>1, <1>3, <1>4, <1>5, <1>6

LEMMA PageStepType ==
    ASSUME TypeInv, ContentInv, NEW ch \in Channels,
           \/ Open(ch) \/ PageRead(ch) \/ PageArrives(ch) \/ PageFails(ch) \/ Expire(ch) \/ Invalidate
    PROVE  TypeInv'
<1>0. WindowType /\ LoadType /\ ServiceType /\ budget \in BudgetType /\ cache[ch] \in CacheEntries
  BY EntryType DEF TypeInv
<1>1. ASSUME NEW entry \in CacheEntries, NEW c \in Channels,
             Rendered(c, [cache EXCEPT ![ch] = entry], list)
      PROVE  WindowType' /\ LoadType'
  <2>1. [cache EXCEPT ![ch] = entry] \in [Channels -> CacheEntries] /\ IsABag(list)
    BY <1>0 DEF WindowType
  <2> QED
    BY <1>0, <1>1, <2>1, RenderedType
<1>2. ASSUME NEW entry \in CacheEntries, cache' = [cache EXCEPT ![ch] = entry],
             UNCHANGED <<channel, hook, initial, list, hasMore, mixed>>
      PROVE  WindowType'
  BY <1>0, <1>2 DEF WindowType
<1>3. CASE Open(ch)
  <2>1. (budget \in BudgetType)'
    BY <1>0, <1>3, Spent DEF Open
  <2>2. [cache[ch] EXCEPT !.fetch = "sent"] \in CacheEntries
    BY <1>0 DEF CacheEntries, Fetches
  <2>3. \/ Rendered(ch, [cache EXCEPT ![ch] = [cache[ch] EXCEPT !.fetch = "sent"]], list)
        \/ Rendered(ch, [cache EXCEPT ![ch] = cache[ch]], list)
    <3>1. [cache EXCEPT ![ch] = cache[ch]] = cache
      BY <1>0 DEF WindowType
    <3> QED
      BY <1>3, <3>1 DEF Open
  <2>4. WindowType' /\ LoadType'
    BY <1>0, <1>1, <2>2, <2>3
  <2>5. UNCHANGED serviceVars /\ UNCHANGED clientVars /\ UNCHANGED typingVars
    BY <1>3 DEF Open
  <2> QED
    BY <2>1, <2>4, <2>5, SameTypes DEF TypeInv
<1>4. CASE PageRead(ch)
  <2>1. FirstPage(ch) \in Pages
    BY <1>0, FirstPageGood DEF ServiceType
  <2>2. [cache[ch] EXCEPT !.fetch = "answered", !.answer = FirstPage(ch)] \in CacheEntries
    BY <1>0, <2>1 DEF CacheEntries, Fetches
  <2>3. WindowType'
    <3>1. cache' = [cache EXCEPT ![ch] = [cache[ch] EXCEPT !.fetch = "answered", !.answer = FirstPage(ch)]]
      BY <1>0, <1>4 DEF PageRead, WindowType
    <3> QED
      BY <1>2, <1>4, <2>2, <3>1 DEF PageRead
  <2>4. /\ UNCHANGED serviceVars /\ UNCHANGED clientVars /\ UNCHANGED typingVars
        /\ UNCHANGED loadVars /\ UNCHANGED budget
    BY <1>4 DEF PageRead
  <2> QED
    BY <2>3, <2>4, SameTypes DEF TypeInv
<1>5. CASE PageArrives(ch)
  <2>1. [cache[ch] EXCEPT !.data = cache[ch].answer, !.fetch = "none", !.answer = None] \in CacheEntries
    BY <1>0 DEF CacheEntries, Fetches
  <2>2. Rendered(channel, [cache EXCEPT ![ch] = [cache[ch] EXCEPT !.data = cache[ch].answer,
                                                      !.fetch = "none", !.answer = None]], list)
    <3>1. [cache EXCEPT ![ch].data = cache[ch].answer, ![ch].fetch = "none", ![ch].answer = None]
             = [cache EXCEPT ![ch] = [cache[ch] EXCEPT !.data = cache[ch].answer,
                                                      !.fetch = "none", !.answer = None]]
      BY <1>0 DEF WindowType
    <3> QED
      BY <1>5, <3>1 DEF PageArrives
  <2>3. WindowType' /\ LoadType'
    BY <1>0, <1>1, <2>1, <2>2 DEF WindowType
  <2>4. UNCHANGED serviceVars /\ UNCHANGED clientVars /\ UNCHANGED typingVars /\ UNCHANGED budget
    BY <1>5 DEF PageArrives
  <2> QED
    BY <2>3, <2>4, SameTypes DEF TypeInv
<1>6. CASE PageFails(ch)
  <2>1. [cache[ch] EXCEPT !.fetch = "failed", !.answer = None] \in CacheEntries
    BY <1>0 DEF CacheEntries, Fetches
  <2>2. Rendered(channel, [cache EXCEPT ![ch] = [cache[ch] EXCEPT !.fetch = "failed", !.answer = None]], list)
    <3>1. [cache EXCEPT ![ch].fetch = "failed", ![ch].answer = None]
             = [cache EXCEPT ![ch] = [cache[ch] EXCEPT !.fetch = "failed", !.answer = None]]
      BY <1>0 DEF WindowType
    <3> QED
      BY <1>6, <3>1 DEF PageFails
  <2>3. WindowType' /\ LoadType'
    BY <1>0, <1>1, <2>1, <2>2 DEF WindowType
  <2>4. UNCHANGED serviceVars /\ UNCHANGED clientVars /\ UNCHANGED typingVars
    BY <1>6 DEF PageFails
  <2>5. (budget \in BudgetType)'
    BY <1>0, <1>6, Spent DEF PageFails
  <2> QED
    BY <2>3, <2>4, <2>5, SameTypes DEF TypeInv
<1>7. CASE Expire(ch)
  <2>1. NoEntry \in CacheEntries
    BY DEF NoEntry, CacheEntries, Fetches
  <2>2. WindowType'
    BY <1>2, <1>7, <2>1 DEF Expire
  <2>3. /\ UNCHANGED serviceVars /\ UNCHANGED clientVars /\ UNCHANGED typingVars
        /\ UNCHANGED loadVars /\ UNCHANGED budget
    BY <1>7 DEF Expire
  <2> QED
    BY <2>2, <2>3, SameTypes DEF TypeInv
<1>8. CASE Invalidate
  <2> DEFINE entries == [c \in Channels |-> Revalidated(c)]
  <2>1. entries \in [Channels -> CacheEntries]
    <3>1. ASSUME NEW c \in Channels PROVE Revalidated(c) \in CacheEntries
      <4>1. /\ cache[c] \in CacheEntries /\ NoEntry \in CacheEntries
            /\ [cache[c] EXCEPT !.fetch = "sent", !.owed = FALSE] \in CacheEntries
        BY <1>0, EntryType DEF NoEntry, CacheEntries, Fetches
      <4> QED
        BY <4>1 DEF Revalidated
    <3> QED
      BY <3>1
  <2>2. Rendered(channel, entries, list)
    BY <1>8 DEF Invalidate
  <2> HIDE DEF entries
  <2>3. WindowType' /\ LoadType'
    BY <1>0, <2>1, <2>2, RenderedType DEF WindowType
  <2>4. UNCHANGED serviceVars /\ UNCHANGED clientVars /\ UNCHANGED typingVars /\ UNCHANGED budget
    BY <1>8 DEF Invalidate
  <2> QED
    BY <2>3, <2>4, SameTypes DEF TypeInv
<1> QED
  BY <1>3, <1>4, <1>5, <1>6, <1>7, <1>8

LEMMA LoadStepType ==
    ASSUME TypeInv, ContentInv,
           \/ ScrollToTop
           \/ \E j \in Loops : LoadArrives(j) \/ LoadFails(j) \/ LoadRetries(j) \/ PressRetry(j)
    PROVE  TypeInv'
<1>0. WindowType /\ LoadType /\ ServiceType /\ budget \in BudgetType
  BY DEF TypeInv
<1>1. CASE ScrollToTop
  <2>1. (budget \in BudgetType)'
    BY <1>0, <1>1, Spent DEF ScrollToTop
  <2>2. PICK n \in ShownIds(list) :
          loads' = [loads EXCEPT ![Scrolled + 1] =
                      [channel |-> channel, before |-> n, attempt |-> 0, stage |-> "asking",
                       by |-> "scroll"]]
    BY <1>1 DEF ScrollToTop
  <2>3. n \in Int
    BY <1>0, PostedFacts, ListableFacts DEF ShownIds, ContentInv, ListInv, ServiceType
  <2>4. 0 \in 0 .. MaxRetries - 1
    BY SizesAssumption
  <2>5. [channel |-> channel, before |-> n, attempt |-> 0, stage |-> "asking",
         by |-> "scroll"] \in Loads
    BY <1>0, <2>3, <2>4 DEF Loads, WindowType
  <2>6. loads' \in [Loops -> Loads \cup {None}]
    BY <1>0, <2>2, <2>5 DEF LoadType
  <2>7. lazy' \in {"unused", "loading", "used"} /\ guard' = TRUE /\ freed' = freed
    BY <1>0, <1>1 DEF ScrollToTop, LoadType
  <2>8. LoadType'
    BY <1>0, <2>6, <2>7 DEF LoadType
  <2>9. /\ UNCHANGED serviceVars /\ UNCHANGED clientVars /\ UNCHANGED typingVars
        /\ UNCHANGED windowVars
    BY <1>1 DEF ScrollToTop
  <2> QED
    BY <2>1, <2>8, <2>9, SameTypes DEF TypeInv
<1>2. ASSUME NEW j \in Loops, LoadArrives(j) PROVE TypeInv'
  <2>1. loads' \in [Loops -> Loads \cup {None}]
    BY <1>0, <1>2 DEF LoadArrives, LoadType
  <2>2. LoadType'
    BY <1>0, <1>2, <2>1 DEF LoadArrives, LoadType, Released
  <2>3. IsABag(list')
    BY <1>0, <1>2, SetToBagLists, SumLists DEF LoadArrives, Prepended, WindowType
  <2>4. hasMore' \in BOOLEAN /\ mixed' \in BOOLEAN
    BY <1>0, <1>2 DEF LoadArrives, WindowType
  <2>5. WindowType'
    BY <1>0, <1>2, <2>3, <2>4 DEF LoadArrives, WindowType
  <2>6. UNCHANGED serviceVars /\ UNCHANGED clientVars /\ UNCHANGED typingVars /\ UNCHANGED budget
    BY <1>2 DEF LoadArrives
  <2> QED
    BY <2>2, <2>5, <2>6, SameTypes DEF TypeInv
<1>3. ASSUME NEW j \in Loops, LoadFails(j) PROVE TypeInv'
  <2>1. loads[j] \in Loads
    BY <1>0, <1>3 DEF LoadFails, LoadType, Asking
  <2>2. /\ loads[j].attempt + 1 # MaxRetries => loads[j].attempt + 1 \in 0 .. MaxRetries - 1
        /\ 0 \in 0 .. MaxRetries - 1
    BY <2>1, SizesAssumption DEF Loads
  <2>3. NextAttempt(loads[j]) \in Loads \cup {None}
    BY <2>1, <2>2 DEF Loads, NextAttempt
  <2>4. loads' \in [Loops -> Loads \cup {None}]
    BY <1>0, <1>3, <2>3 DEF LoadFails, LoadType
  <2>5. LoadType'
    BY <1>0, <1>3, <2>4 DEF LoadFails, LoadType, Released
  <2>6. (budget \in BudgetType)'
    BY <1>0, <1>3, Spent DEF LoadFails
  <2>7. /\ UNCHANGED serviceVars /\ UNCHANGED clientVars /\ UNCHANGED typingVars
        /\ UNCHANGED windowVars
    BY <1>3 DEF LoadFails
  <2> QED
    BY <2>5, <2>6, <2>7, SameTypes DEF TypeInv
<1>4. ASSUME NEW j \in Loops, LoadRetries(j) \/ PressRetry(j) PROVE TypeInv'
  <2>1. [loads[j] EXCEPT !.stage = "asking"] \in Loads
    BY <1>0, <1>4 DEF LoadRetries, PressRetry, LoadType, Loads
  <2>2. LoadType'
    BY <1>0, <1>4, <2>1 DEF LoadRetries, PressRetry, LoadType
  <2>3. /\ UNCHANGED serviceVars /\ UNCHANGED clientVars /\ UNCHANGED typingVars
        /\ UNCHANGED windowVars /\ UNCHANGED budget
    BY <1>4 DEF LoadRetries, PressRetry
  <2> QED
    BY <2>2, <2>3, SameTypes DEF TypeInv
<1> QED
  BY <1>1, <1>2, <1>3, <1>4

LEMMA TypingStepType ==
    ASSUME TypeInv, NEW u \in Typists,
           TypingTimeout(u) \/ \E b \in BOOLEAN : TypingUpdate(u, b)
    PROVE  TypeInv'
<1>1. CASE TypingTimeout(u)
  <2>1. TypingType'
    BY <1>1 DEF TypeInv, TypingType, TypingTimeout
  <2> QED
    BY <1>1, <2>1, SameTypes DEF TypeInv, TypingTimeout
<1>2. ASSUME NEW b \in BOOLEAN, TypingUpdate(u, b) PROVE TypeInv'
  <2>1. TypingType'
    BY <1>2 DEF TypeInv, TypingType, TypingUpdate
  <2>2. (budget \in BudgetType)'
    BY <1>2, Spent DEF TypeInv, TypingUpdate
  <2> QED
    BY <1>2, <2>1, <2>2, SameTypes DEF TypeInv, TypingUpdate
<1> QED
  BY <1>1, <1>2

LEMMA StepType ==
    ASSUME TypeInv, ContentInv, [Next]_vars
    PROVE  TypeInv'
<1>1. CASE UNCHANGED vars
  BY <1>1, SameTypes DEF vars, TypeInv
<1>2. CASE Environment
  <2>1. \A t \in Texts \cup {Peer} : t \in AllTexts
    BY DEF AllTexts
  <2> QED
    BY <1>2, <2>1, ServiceStepType, MutationStepType, PageStepType, ConnectionStepType,
       LoadStepType, TypingStepType DEF Environment
<1>3. CASE Progress
  BY <1>3, ServiceStepType, ConnectionStepType, ReceiveType, MutationStepType, PageStepType,
     LoadStepType, TypingStepType, ChannelsAssumption DEF Progress
<1> QED
  BY <1>1, <1>2, <1>3 DEF Next

-----------------------------------------------------------------------------
(* The service moves on. *)

LEMMA Appended ==
    ASSUME NEW T, NEW s \in Seq(T), NEW x
    PROVE  /\ DOMAIN s = 1 .. Len(s) /\ Len(s) \in Nat
           /\ DOMAIN Append(s, x) = DOMAIN s \cup {Len(s) + 1}
           /\ \A k \in DOMAIN s : Append(s, x)[k] = s[k]
           /\ Append(s, x)[Len(s) + 1] = x
OBVIOUS

LEMMA PendAppended ==
    ASSUME NEW ev \in Seq(Events), NEW x
    PROVE  \A n : /\ Pend(Append(ev, x), n) <=> Pend(ev, n) \/ x.id = n
                  /\ SentPend(Append(ev, x), n) <=> SentPend(ev, n) \/ (x.id = n /\ x.version = "sent")
BY Appended DEF Pend, SentPend

LEMMA PostsEvolve ==
    ASSUME TypeInv, EventsInv, NEW ch, NEW t, Posts(ch, t), missed' = missed
    PROVE  EventsInv' /\ Evolves(posted, events, missed, posted', events', missed')
<1> DEFINE r == [channel |-> ch, version |-> "sent", text |-> t]
           N == Len(posted) + 1
           x == [id |-> N, version |-> "sent"]
           M == Len(events) + 1
<1>1. /\ posted \in Seq(Posted) /\ events \in Seq(Events)
      /\ posted' = Append(posted, r) /\ events' = Append(events, x)
  BY DEF TypeInv, ServiceType, Posts
<1>2. /\ DOMAIN posted = 1 .. Len(posted) /\ Len(posted) \in Nat
      /\ DOMAIN posted' = DOMAIN posted \cup {N}
      /\ \A n \in DOMAIN posted : posted'[n] = posted[n]
      /\ posted'[N] = r
  BY <1>1, Appended
<1>3. /\ DOMAIN events = 1 .. Len(events) /\ Len(events) \in Nat
      /\ DOMAIN events' = DOMAIN events \cup {M}
      /\ \A k \in DOMAIN events : events'[k] = events[k]
      /\ events'[M] = x
  BY <1>1, Appended
<1>4. x.id = N /\ x.version = "sent" /\ r.version = "sent"
  OBVIOUS
<1> HIDE DEF r, x
<1>5. N \notin DOMAIN posted /\ \A i \in DOMAIN posted : i < N
  BY <1>2
<1>6. M \notin DOMAIN events /\ \A k \in DOMAIN events : k < M
  BY <1>3
<1> HIDE DEF M, N
<1>7. EventsInv'
  <2>1. SUFFICES ASSUME NEW k \in DOMAIN events'
        PROVE  /\ events'[k].id \in DOMAIN posted'
               /\ posted'[events'[k].id].version = "sent" => events'[k].version = "sent"
               /\ (\A j \in DOMAIN events' : k < j => events'[j].id # events'[k].id)
                     => events'[k].version = posted'[events'[k].id].version
               /\ events'[k].version = "sent" =>
                     \A i \in DOMAIN posted' : events'[k].id < i =>
                        \E j \in DOMAIN events' :
                           k < j /\ events'[j].id = i /\ events'[j].version = "sent"
    BY DEF EventsInv, EventsOf
  <2>2. CASE k \in DOMAIN events
    <3>1. /\ events'[k] = events[k] /\ events[k].id \in DOMAIN posted
          /\ posted[events[k].id].version = "sent" => events[k].version = "sent"
          /\ (\A j \in DOMAIN events : k < j => events[j].id # events[k].id)
                => events[k].version = posted[events[k].id].version
          /\ events[k].version = "sent" =>
                \A i \in DOMAIN posted : events[k].id < i =>
                   \E j \in DOMAIN events :
                      k < j /\ events[j].id = i /\ events[j].version = "sent"
      BY <1>3, <2>2 DEF EventsInv, EventsOf
    <3>2. posted'[events[k].id] = posted[events[k].id] /\ events[k].id \in DOMAIN posted'
      BY <1>2, <3>1
    <3>3. (\A j \in DOMAIN events' : k < j => events'[j].id # events'[k].id)
             => events'[k].version = posted'[events'[k].id].version
      BY <1>3, <3>1, <3>2
    <3>4. ASSUME events[k].version = "sent", NEW i \in DOMAIN posted', events[k].id < i
          PROVE  \E j \in DOMAIN events' :
                     k < j /\ events'[j].id = i /\ events'[j].version = "sent"
      <4>1. CASE i = N
        BY <1>3, <1>4, <1>6, <2>2, <4>1
      <4>2. CASE i \in DOMAIN posted
        BY <1>3, <3>1, <3>4, <4>2
      <4> QED
        BY <1>2, <4>1, <4>2
    <3> QED
      BY <3>1, <3>2, <3>3, <3>4
  <2>3. CASE k = M
    <3>1. events'[k].id = N /\ events'[k].version = "sent" /\ posted'[N].version = "sent"
      BY <1>2, <1>3, <1>4, <2>3
    <3>2. \A i \in DOMAIN posted' : ~(N < i)
      BY <1>2, <1>5 DEF N
    <3> QED
      BY <1>2, <3>1, <3>2
  <2> QED
    BY <1>3, <2>2, <2>3
<1>8. Evolves(posted, events, missed, posted', events', missed')
  <2>1. \A n : /\ Pend(events, n) => Pend(events', n)
               /\ SentPend(events, n) => SentPend(events', n)
    BY <1>1, PendAppended
  <2>2. SentPend(events', N)
    BY <1>3, <1>4 DEF SentPend
  <2> QED
    BY <1>2, <2>1, <2>2 DEF Evolves
<1> QED
  BY <1>7, <1>8

LEMMA ChangesEvolve ==
    ASSUME TypeInv, EventsInv, NEW n \in DOMAIN posted, NEW v \in {"edited", "deleted"},
           Changeable(n, v), Changes(n, v), missed' = missed
    PROVE  EventsInv' /\ Evolves(posted, events, missed, posted', events', missed')
<1> DEFINE x == [id |-> n, version |-> v]
           M == Len(events) + 1
<1>1. /\ posted \in Seq(Posted) /\ events \in Seq(Events) /\ events' = Append(events, x)
      /\ posted' = [posted EXCEPT ![n].version = v]
  BY DEF TypeInv, ServiceType, Changes
<1>2. /\ DOMAIN posted' = DOMAIN posted
      /\ \A i \in DOMAIN posted : i # n => posted'[i] = posted[i]
      /\ posted'[n].version = v /\ posted'[n].channel = posted[n].channel
      /\ posted'[n].text = posted[n].text
  <2>1. posted[n] \in Posted
    BY <1>1, PostedFacts
  <2> QED
    BY <1>1, <2>1 DEF Posted
<1>3. /\ DOMAIN events = 1 .. Len(events) /\ Len(events) \in Nat
      /\ DOMAIN events' = DOMAIN events \cup {M}
      /\ \A k \in DOMAIN events : events'[k] = events[k]
      /\ events'[M] = x
  BY <1>1, Appended
<1>4. x.id = n /\ x.version = v /\ v # "sent" /\ posted[n].version # "deleted"
  BY DEF Changeable
<1> HIDE DEF x
<1>5. M \notin DOMAIN events /\ \A k \in DOMAIN events : k < M
  BY <1>3
<1> HIDE DEF M
<1>6. EventsInv'
  <2>1. SUFFICES ASSUME NEW k \in DOMAIN events'
        PROVE  /\ events'[k].id \in DOMAIN posted'
               /\ posted'[events'[k].id].version = "sent" => events'[k].version = "sent"
               /\ (\A j \in DOMAIN events' : k < j => events'[j].id # events'[k].id)
                     => events'[k].version = posted'[events'[k].id].version
               /\ events'[k].version = "sent" =>
                     \A i \in DOMAIN posted' : events'[k].id < i =>
                        \E j \in DOMAIN events' :
                           k < j /\ events'[j].id = i /\ events'[j].version = "sent"
    BY DEF EventsInv, EventsOf
  <2>2. CASE k \in DOMAIN events
    <3>1. /\ events'[k] = events[k] /\ events[k].id \in DOMAIN posted
          /\ posted[events[k].id].version = "sent" => events[k].version = "sent"
          /\ (\A j \in DOMAIN events : k < j => events[j].id # events[k].id)
                => events[k].version = posted[events[k].id].version
          /\ events[k].version = "sent" =>
                \A i \in DOMAIN posted : events[k].id < i =>
                   \E j \in DOMAIN events :
                      k < j /\ events[j].id = i /\ events[j].version = "sent"
      BY <1>3, <2>2 DEF EventsInv, EventsOf
    <3>2. posted'[events[k].id].version = "sent" => events[k].version = "sent"
      BY <1>2, <1>4, <3>1
    <3>3. (\A j \in DOMAIN events' : k < j => events'[j].id # events'[k].id)
             => events'[k].version = posted'[events'[k].id].version
      <4>1. CASE events[k].id = n
        BY <1>3, <1>4, <1>5, <2>2, <3>1, <4>1
      <4>2. CASE events[k].id # n
        BY <1>2, <1>3, <3>1, <4>2
      <4> QED
        BY <4>1, <4>2
    <3>4. events[k].version = "sent" =>
             \A i \in DOMAIN posted' : events[k].id < i =>
                \E j \in DOMAIN events' :
                   k < j /\ events'[j].id = i /\ events'[j].version = "sent"
      BY <1>2, <1>3, <3>1
    <3> QED
      BY <1>2, <3>1, <3>2, <3>3, <3>4
  <2>3. CASE k = M
    BY <1>2, <1>3, <1>4, <2>3
  <2> QED
    BY <1>3, <2>2, <2>3
<1>7. Evolves(posted, events, missed, posted', events', missed')
  <2>1. \A i : /\ Pend(events, i) => Pend(events', i)
               /\ SentPend(events, i) => SentPend(events', i)
    BY <1>1, PendAppended
  <2>2. Pend(events', n)
    BY <1>3, <1>4 DEF Pend
  <2> QED
    BY <1>2, <1>4, <2>1, <2>2 DEF Evolves
<1> QED
  BY <1>6, <1>7

\* What is left of the events after the first k.
Suffix(ev, ew, k) ==
    /\ \A j \in DOMAIN ew : j \in Nat /\ j + k \in DOMAIN ev /\ ew[j] = ev[j + k]
    /\ \A j \in DOMAIN ev : j \in Nat /\ (k < j => j - k \in DOMAIN ew)

LEMMA SuffixEvents ==
    ASSUME NEW p, NEW ev, NEW ew, NEW k \in Nat, EventsOf(p, ev), Suffix(ev, ew, k)
    PROVE  EventsOf(p, ew)
<1>1. SUFFICES ASSUME NEW j \in DOMAIN ew
      PROVE  /\ ew[j].id \in DOMAIN p
             /\ p[ew[j].id].version = "sent" => ew[j].version = "sent"
             /\ (\A h \in DOMAIN ew : j < h => ew[h].id # ew[j].id)
                   => ew[j].version = p[ew[j].id].version
             /\ ew[j].version = "sent" =>
                   \A i \in DOMAIN p : ew[j].id < i =>
                      \E h \in DOMAIN ew : j < h /\ ew[h].id = i /\ ew[h].version = "sent"
  BY DEF EventsOf
<1>2. j \in Nat /\ j + k \in DOMAIN ev /\ ew[j] = ev[j + k]
  BY DEF Suffix
<1>3. ASSUME NEW h \in DOMAIN ev, j + k < h
      PROVE  h - k \in DOMAIN ew /\ j < h - k /\ ew[h - k] = ev[h]
  <2>1. h \in Nat /\ k < h
    BY <1>2, <1>3 DEF Suffix
  <2>2. h - k \in DOMAIN ew
    BY <1>3, <2>1 DEF Suffix
  <2>3. ew[h - k] = ev[(h - k) + k]
    BY <2>2 DEF Suffix
  <2>4. (h - k) + k = h /\ j < h - k
    BY <1>2, <1>3, <2>1
  <2> QED
    BY <2>2, <2>3, <2>4
<1>4. /\ ev[j + k].id \in DOMAIN p
      /\ p[ev[j + k].id].version = "sent" => ev[j + k].version = "sent"
      /\ (\A h \in DOMAIN ev : j + k < h => ev[h].id # ev[j + k].id)
            => ev[j + k].version = p[ev[j + k].id].version
      /\ ev[j + k].version = "sent" =>
            \A i \in DOMAIN p : ev[j + k].id < i =>
               \E h \in DOMAIN ev : j + k < h /\ ev[h].id = i /\ ev[h].version = "sent"
  BY <1>2 DEF EventsOf
<1>5. (\A h \in DOMAIN ew : j < h => ew[h].id # ew[j].id) => ew[j].version = p[ew[j].id].version
  BY <1>2, <1>3, <1>4
<1>6. ASSUME ew[j].version = "sent", NEW i \in DOMAIN p, ew[j].id < i
      PROVE  \E h \in DOMAIN ew : j < h /\ ew[h].id = i /\ ew[h].version = "sent"
  <2>1. PICK h \in DOMAIN ev : j + k < h /\ ev[h].id = i /\ ev[h].version = "sent"
    BY <1>2, <1>4, <1>6
  <2> QED
    BY <1>3, <2>1
<1> QED
  BY <1>2, <1>4, <1>5, <1>6

LEMMA ConnectEvolves ==
    ASSUME TypeInv, EventsInv, Connect
    PROVE  EventsInv' /\ Evolves(posted, events, missed, posted', events', missed')
<1>1. PICK k \in 0 .. Len(events) :
         /\ events' = SubSeq(events, k + 1, Len(events))
         /\ missed' = missed \cup {events[i].id : i \in 1 .. k}
  BY DEF Connect
<1>2. events \in Seq(Events) /\ posted' = posted /\ k \in Nat
  BY DEF TypeInv, ServiceType, Connect
<1>3. Suffix(events, events', k)
  <2>1. DOMAIN events = 1 .. Len(events) /\ Len(events) \in Nat
    BY <1>2
  <2>2. /\ DOMAIN events' = 1 .. Len(events) - k
        /\ \A j \in 1 .. Len(events) - k : events'[j] = events[j + k]
    BY <1>1, <1>2
  <2>3. k \in Nat /\ k <= Len(events)
    BY <1>1, <1>2
  <2>4. \A j \in DOMAIN events' : j \in Nat /\ j + k \in DOMAIN events /\ events'[j] = events[j + k]
    BY <2>1, <2>2, <2>3
  <2>5. \A j \in DOMAIN events : j \in Nat /\ (k < j => j - k \in DOMAIN events')
    <3>1. \A j \in 1 .. Len(events) : j \in Nat /\ (k < j => j - k \in 1 .. Len(events) - k)
      BY <2>1, <2>3
    <3> QED
      BY <2>1, <2>2, <3>1
  <2> QED
    BY <2>4, <2>5 DEF Suffix
<1>4. EventsInv'
  BY <1>2, <1>3, SuffixEvents DEF EventsInv
<1>5. \A j \in DOMAIN events : events[j].id \in missed' \/ \E h \in DOMAIN events' : events'[h] = events[j]
  <2> SUFFICES ASSUME NEW j \in DOMAIN events
               PROVE  events[j].id \in missed' \/ \E h \in DOMAIN events' : events'[h] = events[j]
    OBVIOUS
  <2>1. j \in Nat /\ 0 < j
    BY <1>2
  <2>2. CASE j <= k
    BY <1>1, <1>2, <2>1, <2>2
  <2>3. CASE k < j
    <3>1. j - k \in DOMAIN events' /\ events'[j - k] = events[(j - k) + k]
      BY <1>3, <2>3 DEF Suffix
    <3>2. (j - k) + k = j
      BY <1>2, <2>1
    <3> QED
      BY <3>1, <3>2
  <2> QED
    BY <1>2, <2>1, <2>2, <2>3
<1>6. \A n : n \notin missed' =>
         (Pend(events, n) => Pend(events', n)) /\ (SentPend(events, n) => SentPend(events', n))
  BY <1>5 DEF Pend, SentPend
<1> QED
  BY <1>1, <1>2, <1>4, <1>6 DEF Evolves

LEMMA ContentEvolves ==
    ASSUME ContentInv, EventsInv', RestInv',
           Evolves(posted, events, missed, posted', events', missed'),
           UNCHANGED <<cache, channel, hook, list, mixed>>
    PROVE  ContentInv'
<1>1. \A S : AllKnown(posted, S) => AllKnown(posted', S)
  BY EvolvesKnown DEF AllKnown
<1>2. \A S, ch : Good(posted, events, missed, S, ch) => Good(posted', events', missed', S, ch)
  BY EvolvesGood
<1>3. PagesInv'
  <2> SUFFICES ASSUME NEW ch \in Channels PROVE PageInv(ch)'
    BY DEF PagesInv
  <2>1. PageInv(ch)
    BY DEF ContentInv, PagesInv
  <2> QED
    BY <1>1, <1>2, <2>1 DEF PageInv, GoodPage
<1>4. HookInv'
  BY <1>1 DEF ContentInv, HookInv
<1>5. ListInv'
  <2>1. AllListable(posted', list)
    BY EvolvesKnown DEF ContentInv, ListInv, AllListable
  <2> QED
    BY <1>2, <2>1 DEF ContentInv, ListInv, GoodList
<1> QED
  BY <1>3, <1>4, <1>5 DEF ContentInv

LEMMA ContentOfUnchanged ==
    ASSUME ContentInv, UNCHANGED <<posted, events, missed, rest>>
    PROVE  EventsInv' /\ RestInv'
BY DEF ContentInv, EventsInv, RestInv

LEMMA RestKept ==
    ASSUME RestInv, Evolves(posted, events, missed, posted', events', missed'),
           rest' = rest \/ rest' = None
    PROVE  RestInv'
BY DEF RestInv, Evolves

LEMMA ServiceStepContent ==
    ASSUME TypeInv, ContentInv
    PROVE  /\ \A ch \in Channels, t \in AllTexts : Post(ch, t) => ContentInv'
           /\ \A n \in DOMAIN posted, v \in {"edited", "deleted"} : Change(n, v) => ContentInv'
           /\ ServerReceives => ContentInv'
           /\ MutationApplied => ContentInv'
<1>0. EventsInv /\ RestInv
  BY DEF ContentInv
<1>1. ASSUME NEW ch \in Channels, NEW t \in AllTexts, Post(ch, t) PROVE ContentInv'
  <2>1. /\ Posts(ch, t) /\ missed' = missed /\ rest' = rest
        /\ UNCHANGED <<cache, channel, hook, list, mixed>>
    BY <1>1 DEF Post, clientVars, windowVars
  <2> QED
    BY <1>0, <2>1, PostsEvolve, RestKept, ContentEvolves
<1>2. ASSUME NEW n \in DOMAIN posted, NEW v \in {"edited", "deleted"}, Change(n, v) PROVE ContentInv'
  <2>1. /\ Changeable(n, v) /\ Changes(n, v) /\ missed' = missed /\ rest' = rest
        /\ UNCHANGED <<cache, channel, hook, list, mixed>>
    BY <1>2 DEF Change, clientVars, windowVars
  <2> QED
    BY <1>0, <2>1, ChangesEvolve, RestKept, ContentEvolves
<1>3. UNCHANGED <<posted, events, missed>> =>
         Evolves(posted, events, missed, posted', events', missed')
  BY DEF Evolves
<1>4. ASSUME ServerReceives PROVE ContentInv'
  <2>1. missed' = missed /\ rest' = rest /\ UNCHANGED <<cache, channel, hook, list, mixed>>
    BY <1>4 DEF ServerReceives, clientVars, windowVars
  <2>2. CASE Posts(Head(outbox).channel, Head(outbox).text)
    BY <1>0, <2>1, <2>2, PostsEvolve, RestKept, ContentEvolves
  <2>3. CASE UNCHANGED <<posted, events>>
    BY <1>0, <1>3, <2>1, <2>3, ContentOfUnchanged, ContentEvolves
  <2> QED
    BY <1>4, <2>2, <2>3 DEF ServerReceives
<1>5. ASSUME MutationApplied PROVE ContentInv'
  <2>1. /\ missed' = missed /\ UNCHANGED <<cache, channel, hook, list, mixed>>
        /\ rest \in Requests /\ rest' = [rest EXCEPT !.applied = TRUE]
    BY <1>5 DEF MutationApplied, TypeInv, ClientType, windowVars
  <2>2. rest'.op = rest.op /\ rest'.id = rest.id /\ rest # None
    BY <2>1, NoneAssumption DEF Requests
  <2>3. ASSUME Evolves(posted, events, missed, posted', events', missed') PROVE RestInv'
    BY <1>0, <2>2, <2>3 DEF RestInv, Evolves
  <2>4. CASE Posts(rest.channel, rest.text)
    BY <1>0, <2>1, <2>3, <2>4, PostsEvolve, ContentEvolves
  <2>5. CASE rest.op # "sent" /\ Changeable(rest.id, rest.op) /\ Changes(rest.id, rest.op)
    <3>1. rest.id \in DOMAIN posted /\ rest.op \in {"edited", "deleted"}
      BY <1>0, <2>1, <2>2, <2>5 DEF RestInv, Requests, Versions
    <3> QED
      BY <1>0, <2>1, <2>3, <2>5, <3>1, ChangesEvolve, ContentEvolves
  <2>6. CASE UNCHANGED <<posted, events>>
    <3>1. EventsInv'
      BY <1>0, <2>6 DEF EventsInv
    <3> QED
      BY <1>3, <2>1, <2>3, <2>6, <3>1, ContentEvolves
  <2> QED
    BY <1>5, <2>4, <2>5, <2>6 DEF MutationApplied
<1> QED
  BY <1>1, <1>2, <1>4, <1>5

\* Steps that leave what was posted, what is on its way and the window alone.
LEMMA OtherStepContent ==
    ASSUME TypeInv, ContentInv,
           UNCHANGED <<posted, events, missed, rest, cache, channel, hook, list, mixed>>
    PROVE  ContentInv'
<1>1. Evolves(posted, events, missed, posted', events', missed')
  BY DEF Evolves
<1> QED
  BY <1>1, ContentOfUnchanged, ContentEvolves

LEMMA ConnectContent ==
    ASSUME TypeInv, ContentInv, Connect
    PROVE  ContentInv'
<1>1. UNCHANGED <<cache, channel, hook, list, mixed>> /\ rest' = rest
  BY DEF Connect, windowVars
<1> QED
  BY <1>1, ConnectEvolves, RestKept, ContentEvolves DEF ContentInv

-----------------------------------------------------------------------------
(* The window. *)

\* The effects after a handler: if the page shown and the list handed to them
\* are right for the service's p, ev, ms, so is the list they leave. A list not
\* fresh may be made so by the page (Fresh with the items of the page).
LEMMA RenderedContent ==
    ASSUME WindowType, NEW ch \in Channels, NEW entries \in [Channels -> CacheEntries],
           NEW messages, IsABag(messages), Rendered(ch, entries, messages),
           NEW p, NEW ev, NEW ms, DOMAIN p \subseteq Nat \ {0},
           entries[ch].data # None => GoodPage(p, ev, ms, entries[ch].data.items, ch),
           hook # None => AllKnown(p, hook.items) /\ hook.items \subseteq Shown(messages),
           AllListable(p, messages),
           ch = channel /\ ~mixed =>
              /\ KnownIn(p, Shown(messages), ch) /\ Complete(p, ev, ms, Shown(messages), ch)
              /\ PeerOnce(messages)
              /\ \/ Fresh(p, ev, ms, Shown(messages), {})
                 \/ /\ entries[ch].data # None /\ HookData(entries[ch]) = entries[ch].data
                    /\ Fresh(p, ev, ms, Shown(messages), entries[ch].data.items)
    PROVE  /\ hook' # None => AllKnown(p, hook'.items) /\ hook'.items \subseteq Shown(list')
           /\ AllListable(p, list')
           /\ ~mixed' => GoodList(p, ev, ms, list', channel')
<1> DEFINE data == HookData(entries[ch])
           switched == ch # channel
<1>1. channel' = ch /\ hook' = data
  BY DEF Rendered
<1>2. data = entries[ch].data \/ (data = hook /\ hook # None)
  BY DEF HookData
<1>3. hook # None => data # None
  BY DEF HookData
<1>4. data # None => AllKnown(p, data.items)
  BY <1>2 DEF GoodPage
<1>5. CASE data # None /\ (switched \/ data # hook)
  <2>1. /\ list' = Refreshed(switched, messages, data)
        /\ mixed' = IF switched THEN data # entries[ch].data ELSE mixed
    BY <1>5 DEF Rendered
  <2> HIDE DEF data, switched
  <2>2. list' = SetToBag(data.items) \/ (~switched /\ list' = Merged(messages, data.items))
    BY <2>1 DEF Refreshed
  <2>3. CASE list' = SetToBag(data.items)
    <3>1. Shown(list') = data.items
      BY <2>3, SetToBagLists
    <3>2. AllListable(p, list')
      BY <1>4, <1>5, <3>1 DEF AllListable, AllKnown
    <3>3. ASSUME ~mixed' PROVE data = entries[ch].data
      BY <1>2, <1>5, <2>1, <3>3 DEF switched
    <3>4. ~mixed' => GoodList(p, ev, ms, list', ch)
      BY <1>5, <2>3, <3>3, PageListed
    <3> QED
      BY <1>1, <1>4, <1>5, <3>1, <3>2, <3>4 DEF data
  <2>4. CASE ~switched /\ list' = Merged(messages, data.items)
    <3>1. data = entries[ch].data /\ ch = channel /\ mixed' = mixed
      BY <1>2, <1>5, <2>1, <2>4 DEF switched
    <3>2. Shown(list') = data.items \cup {e \in Shown(messages) : ~Has(data.items, e.id)}
      BY <2>4, MergedLists
    <3>3. AllListable(p, list')
      BY <1>4, <1>5, <3>2 DEF AllListable, AllKnown
    <3>4. ASSUME ~mixed' PROVE GoodList(p, ev, ms, list', ch)
      <4>1. GoodPage(p, ev, ms, data.items, ch)
        BY <1>5, <3>1
      <4>2. /\ KnownIn(p, Shown(messages), ch) /\ Complete(p, ev, ms, Shown(messages), ch)
            /\ PeerOnce(messages)
        BY <3>1, <3>4
      <4>3. Fresh(p, ev, ms, Shown(messages), data.items)
        <5>1. Fresh(p, ev, ms, Shown(messages), {}) => Fresh(p, ev, ms, Shown(messages), data.items)
          BY DEF Fresh, Has
        <5> QED
          BY <3>1, <3>4, <5>1
      <4>4. Good(p, ev, ms, Shown(list'), ch)
        BY <2>4, <4>1, <4>2, <4>3, MergedGood
      <4>5. PeerOnce(list')
        BY <2>4, <4>1, <4>2, MergedOnce DEF GoodPage
      <4> QED
        BY <4>4, <4>5 DEF GoodList
    <3> QED
      BY <1>1, <1>4, <1>5, <3>2, <3>3, <3>4 DEF data
  <2> QED
    BY <2>2, <2>3, <2>4
<1>6. CASE data = None /\ switched
  <2>1. list' = EmptyBag
    BY <1>6 DEF Rendered
  <2> QED
    BY <1>1, <1>6, <2>1, EmptyLists, EmptyGood DEF AllListable
<1>7. CASE ~switched /\ data = hook
  <2>1. list' = messages /\ mixed' = mixed
    BY <1>7 DEF Rendered
  <2>2. ASSUME ~mixed' PROVE GoodList(p, ev, ms, list', ch)
    <3>1. /\ KnownIn(p, Shown(messages), ch) /\ Complete(p, ev, ms, Shown(messages), ch)
          /\ PeerOnce(messages)
      BY <1>7, <2>1, <2>2
    <3>2. Fresh(p, ev, ms, Shown(messages), {})
      <4>1. CASE Fresh(p, ev, ms, Shown(messages), {})
        BY <4>1
      <4>2. CASE /\ entries[ch].data # None /\ data = entries[ch].data
                 /\ Fresh(p, ev, ms, Shown(messages), entries[ch].data.items)
        <5>1. data.items \subseteq Shown(messages) /\ Fresh(p, ev, ms, data.items, {})
          BY <1>7, <4>2 DEF GoodPage, Good
        <5> HIDE DEF data
        <5>2. SUFFICES ASSUME NEW e \in Shown(messages), 0 < e.id, e.id \notin ms, ~Pend(ev, e.id)
              PROVE  MessageOf(p, e.id) \in Shown(messages)
          BY DEF Fresh
        <5>3. CASE Has(data.items, e.id)
          <6>1. PICK f \in data.items : f.id = e.id
            BY <5>3 DEF Has
          <6>2. MessageOf(p, e.id) \in data.items
            BY <5>1, <5>2, <6>1 DEF Fresh, Has
          <6> QED
            BY <5>1, <6>2
        <5>4. CASE ~Has(data.items, e.id)
          BY <4>2, <5>2, <5>4 DEF Fresh
        <5> QED
          BY <5>3, <5>4
      <4> QED
        BY <1>7, <2>1, <2>2, <4>1, <4>2
    <3> QED
      BY <2>1, <3>1, <3>2 DEF GoodList, Good
  <2> QED
    BY <1>1, <1>7, <2>1, <2>2
<1>8. CASE ~switched /\ data = None
  BY <1>3, <1>7, <1>8
<1> QED
  BY <1>5, <1>6, <1>7, <1>8

\* Handlers after which the window is rendered, and nothing else is new.
LEMMA PageShown ==
    ASSUME TypeInv, ContentInv, NEW ch \in Channels, NEW entries \in [Channels -> CacheEntries],
           Rendered(ch, entries, list), UNCHANGED <<posted, events, missed, rest>>,
           \A c \in Channels :
              /\ entries[c].fetch = "answered" <=> entries[c].answer # None
              /\ entries[c].data # None =>
                    GoodPage(posted, events, missed, entries[c].data.items, c)
              /\ entries[c].answer # None =>
                    GoodPage(posted, events, missed, entries[c].answer.items, c)
    PROVE  ContentInv'
<1>1. /\ hook' # None => AllKnown(posted, hook'.items) /\ hook'.items \subseteq Shown(list')
      /\ AllListable(posted, list')
      /\ ~mixed' => GoodList(posted, events, missed, list', channel')
  <2>1. WindowType /\ IsABag(list) /\ posted \in Seq(Posted)
    BY DEF TypeInv, WindowType, ServiceType
  <2>2. DOMAIN posted \subseteq Nat \ {0}
    BY <2>1, PostedFacts
  <2>3. HookInv /\ ListInv
    BY DEF ContentInv
  <2>4. ~mixed /\ ch = channel =>
           /\ KnownIn(posted, Shown(list), ch) /\ Complete(posted, events, missed, Shown(list), ch)
           /\ PeerOnce(list) /\ Fresh(posted, events, missed, Shown(list), {})
    BY <2>3 DEF ListInv, GoodList, Good
  <2>5. /\ hook # None => AllKnown(posted, hook.items) /\ hook.items \subseteq Shown(list)
        /\ AllListable(posted, list)
    BY <2>3 DEF HookInv, ListInv
  <2>6. entries[ch].data # None => GoodPage(posted, events, missed, entries[ch].data.items, ch)
    OBVIOUS
  <2> QED
    BY <2>1, <2>2, <2>4, <2>5, <2>6, RenderedContent
<1>2. cache' = entries
  BY DEF Rendered
<1>3. PagesInv'
  BY <1>2 DEF PagesInv, PageInv
<1>4. HookInv' /\ ListInv'
  BY <1>1 DEF HookInv, ListInv
<1> QED
  BY <1>3, <1>4, ContentOfUnchanged DEF ContentInv

LEMMA PageStepContent ==
    ASSUME TypeInv, ContentInv, NEW ch \in Channels,
           Open(ch) \/ PageRead(ch) \/ PageArrives(ch) \/ PageFails(ch) \/ Expire(ch) \/ Invalidate
    PROVE  ContentInv'
<1>0. /\ WindowType /\ posted \in Seq(Posted) /\ cache \in [Channels -> CacheEntries]
      /\ channel \in Channels
  BY DEF TypeInv, ServiceType, WindowType
<1>1. \A c \in Channels :
         /\ cache[c].fetch = "answered" <=> cache[c].answer # None
         /\ cache[c].data # None => GoodPage(posted, events, missed, cache[c].data.items, c)
         /\ cache[c].answer # None => GoodPage(posted, events, missed, cache[c].answer.items, c)
         /\ cache[c] \in CacheEntries
  BY <1>0 DEF ContentInv, PagesInv, PageInv
<1>2. CASE Open(ch)
  <2>1. CASE cache[ch].data = None /\ ~Pending(cache[ch])
    <3> DEFINE entries == [cache EXCEPT ![ch].fetch = "sent"]
    <3>1. entries \in [Channels -> CacheEntries]
      BY <1>0 DEF CacheEntries, Fetches
    <3>2. Rendered(ch, entries, list) /\ UNCHANGED <<posted, events, missed, rest>>
      BY <1>2, <2>1 DEF Open, serviceVars, clientVars
    <3>3. \A c \in Channels : /\ entries[c].data = cache[c].data
                              /\ entries[c].answer = cache[c].answer
                              /\ c # ch => entries[c].fetch = cache[c].fetch
      BY <1>0 DEF CacheEntries
    <3>4. entries[ch].fetch = "sent" /\ cache[ch].fetch # "answered"
      BY <1>0, <2>1 DEF CacheEntries, Pending
    <3> HIDE DEF entries
    <3>5. \A c \in Channels : entries[c].fetch = "answered" <=> entries[c].answer # None
      BY <1>1, <3>3, <3>4
    <3> QED
      BY <1>1, <3>1, <3>2, <3>3, <3>5, PageShown
  <2>2. CASE ~(cache[ch].data = None /\ ~Pending(cache[ch]))
    <3>1. Rendered(ch, cache, list) /\ UNCHANGED <<posted, events, missed, rest>>
      BY <1>2, <2>2 DEF Open, serviceVars, clientVars
    <3> QED
      BY <1>0, <1>1, <3>1, PageShown
  <2> QED
    BY <2>1, <2>2
<1>3. CASE PageRead(ch)
  <2>1. UNCHANGED <<posted, events, missed, rest, channel, hook, list, mixed>>
    BY <1>3 DEF PageRead, serviceVars, clientVars
  <2>2. FirstPage(ch) \in Pages /\ GoodPage(posted, events, missed, FirstPage(ch).items, ch)
    BY <1>0, FirstPageGood
  <2>3. /\ \A c \in Channels : cache'[c].data = cache[c].data /\ (c # ch => cache'[c] = cache[c])
        /\ cache'[ch].fetch = "answered" /\ cache'[ch].answer = FirstPage(ch)
    BY <1>0, <1>3 DEF PageRead, CacheEntries
  <2>4. \A c \in Channels : PageInv(c)'
    <3> SUFFICES ASSUME NEW c \in Channels PROVE PageInv(c)'
      OBVIOUS
    <3>1. CASE c = ch
      BY <1>1, <2>1, <2>2, <2>3, <3>1, NoneAssumption DEF PageInv
    <3>2. CASE c # ch
      BY <1>1, <2>1, <2>3, <3>2 DEF PageInv
    <3> QED
      BY <3>1, <3>2
  <2> QED
    BY <2>1, <2>4 DEF ContentInv, EventsInv, RestInv, PagesInv, HookInv, ListInv
<1>4. CASE PageArrives(ch)
  <2> DEFINE entries == [cache EXCEPT ![ch].data = cache[ch].answer, ![ch].fetch = "none",
                                      ![ch].answer = None]
  <2>1. entries \in [Channels -> CacheEntries]
    <3>1. cache[ch].answer \in Pages \cup {None}
      BY <1>0 DEF CacheEntries
    <3> DEFINE entry == [cache[ch] EXCEPT !.data = cache[ch].answer, !.fetch = "none",
                                          !.answer = None]
    <3>2. entry \in CacheEntries
      BY <1>0, <3>1 DEF CacheEntries, Fetches
    <3>3. entries = [cache EXCEPT ![ch] = entry]
      BY <1>0
    <3> HIDE DEF entry, entries
    <3> QED
      BY ONLY <1>0, <3>2, <3>3
  <2>2. Rendered(channel, entries, list) /\ UNCHANGED <<posted, events, missed, rest>>
    BY <1>4 DEF PageArrives, serviceVars, clientVars
  <2>3. /\ entries[ch].data = cache[ch].answer /\ entries[ch].fetch = "none" /\ entries[ch].answer = None
        /\ \A c \in Channels : c # ch => entries[c] = cache[c]
    BY <1>0 DEF CacheEntries
  <2> HIDE DEF entries
  <2>4. \A c \in Channels :
           /\ entries[c].fetch = "answered" <=> entries[c].answer # None
           /\ entries[c].data # None => GoodPage(posted, events, missed, entries[c].data.items, c)
           /\ entries[c].answer # None => GoodPage(posted, events, missed, entries[c].answer.items, c)
    BY <1>1, <2>3
  <2> QED
    BY <1>0, <2>1, <2>2, <2>4, PageShown
<1>5. CASE PageFails(ch)
  <2> DEFINE entries == [cache EXCEPT ![ch].fetch = "failed", ![ch].answer = None]
  <2>1. entries \in [Channels -> CacheEntries]
    BY <1>0 DEF CacheEntries, Fetches
  <2>2. Rendered(channel, entries, list) /\ UNCHANGED <<posted, events, missed, rest>>
    BY <1>5 DEF PageFails, serviceVars, clientVars
  <2>3. /\ entries[ch].data = cache[ch].data /\ entries[ch].fetch = "failed" /\ entries[ch].answer = None
        /\ \A c \in Channels : c # ch => entries[c] = cache[c]
    BY <1>0 DEF CacheEntries
  <2> HIDE DEF entries
  <2>4. \A c \in Channels :
           /\ entries[c].fetch = "answered" <=> entries[c].answer # None
           /\ entries[c].data # None => GoodPage(posted, events, missed, entries[c].data.items, c)
           /\ entries[c].answer # None => GoodPage(posted, events, missed, entries[c].answer.items, c)
    BY <1>1, <2>3
  <2> QED
    BY <1>0, <2>1, <2>2, <2>4, PageShown
<1>6. CASE Expire(ch)
  <2>1. UNCHANGED <<posted, events, missed, rest, channel, hook, list, mixed>>
    BY <1>6 DEF Expire, serviceVars, clientVars
  <2>2. \A c \in Channels : cache'[c] = cache[c] \/ cache'[c] = NoEntry
    BY <1>0, <1>6 DEF Expire
  <2>3. \A c \in Channels : PageInv(c)'
    <3> SUFFICES ASSUME NEW c \in Channels PROVE PageInv(c)'
      OBVIOUS
    <3>1. CASE cache'[c] = cache[c]
      BY <1>1, <2>1, <3>1 DEF PageInv
    <3>2. CASE cache'[c] = NoEntry
      BY <3>2 DEF PageInv, NoEntry
    <3> QED
      BY <2>2, <3>1, <3>2
  <2> QED
    BY <2>1, <2>3 DEF ContentInv, EventsInv, RestInv, PagesInv, HookInv, ListInv
<1>7. CASE Invalidate
  <2> DEFINE entries == [c \in Channels |-> Revalidated(c)]
  <2>1. \A c \in Channels : /\ Revalidated(c) \in CacheEntries
                            /\ Revalidated(c).fetch # "answered" /\ Revalidated(c).answer = None
                            /\ Revalidated(c).data = cache[c].data \/ Revalidated(c).data = None
    <3> SUFFICES ASSUME NEW c \in Channels
                 PROVE  /\ Revalidated(c) \in CacheEntries
                        /\ Revalidated(c).fetch # "answered" /\ Revalidated(c).answer = None
                        /\ Revalidated(c).data = cache[c].data \/ Revalidated(c).data = None
      OBVIOUS
    <3>1. cache[c].fetch # "answered" /\ cache[c].answer = None
      BY <1>1, <1>7 DEF Invalidate, Quiet, Pending
    <3> QED
      BY <1>1, <3>1 DEF Revalidated, NoEntry, CacheEntries, Fetches
  <2>2. entries \in [Channels -> CacheEntries]
    BY <2>1
  <2>3. Rendered(channel, entries, list) /\ UNCHANGED <<posted, events, missed, rest>>
    BY <1>7 DEF Invalidate, serviceVars, clientVars
  <2>4. \A c \in Channels : /\ entries[c].fetch # "answered" /\ entries[c].answer = None
                            /\ entries[c].data = cache[c].data \/ entries[c].data = None
    BY <2>1
  <2> HIDE DEF entries
  <2>5. \A c \in Channels :
           /\ entries[c].fetch = "answered" <=> entries[c].answer # None
           /\ entries[c].data # None => GoodPage(posted, events, missed, entries[c].data.items, c)
           /\ entries[c].answer # None => GoodPage(posted, events, missed, entries[c].answer.items, c)
    BY <1>1, <2>4
  <2> QED
    BY <1>0, <2>2, <2>3, <2>5, PageShown
<1> QED
  BY <1>2, <1>3, <1>4, <1>5, <1>6, <1>7

\* What the user does with messages: sends one, or starts or ends a mutation.
LEMMA MutationStepContent ==
    ASSUME TypeInv, ContentInv
    PROVE  /\ \A t \in Texts : Send(t) \/ SendByRest(t) => ContentInv'
           /\ \A n \in DOMAIN posted, v \in {"edited", "deleted"} : ChangeByRest(n, v) => ContentInv'
           /\ MutationEnds => ContentInv'
<1>0. /\ posted \in Seq(Posted) /\ cache \in [Channels -> CacheEntries] /\ IsABag(list)
      /\ rest \in Requests \cup {None} /\ budget \in BudgetType
  BY DEF TypeInv, ServiceType, ClientType, WindowType
<1>1. DOMAIN posted \subseteq Nat \ {0}
  BY <1>0, PostedFacts
<1>2. ASSUME NEW t \in Texts, Send(t) PROVE ContentInv'
  <2> DEFINE k == MaxSends - budget.sends + 1
             x == Temp(k, t)
  <2>1. UNCHANGED <<posted, events, missed, rest, cache, channel, hook, mixed>>
    BY <1>2 DEF Send, clientVars
  <2>2. list' = list (+) SetToBag({x})
    BY <1>2 DEF Send
  <2>3. x \in Temps
    <3>1. budget.sends \in 0 .. MaxSends /\ budget.sends > 0 /\ MaxSends \in Nat
      BY <1>0, <1>2, BoundsAssumption DEF Send, Spend, BudgetType
    <3>2. k \in 1 .. MaxSends
      BY <3>1
    <3> QED
      BY <3>2 DEF Temps
  <2> HIDE DEF x
  <2>4. Shown(list') = Shown(list) \cup {x}
    BY <1>0, <2>2, SumLists, SetToBagLists
  <2>5. AllListable(posted, list')
    BY <2>3, <2>4 DEF ContentInv, ListInv, AllListable
  <2>6. ~mixed => GoodList(posted, events, missed, list', channel)
    BY <1>0, <1>1, <2>2, <2>3, TempAdded DEF ContentInv, ListInv
  <2>7. HookInv' /\ ListInv'
    BY <2>1, <2>4, <2>5, <2>6 DEF ContentInv, HookInv, ListInv
  <2> QED
    BY <2>1, <2>7 DEF ContentInv, EventsInv, RestInv, PagesInv, PageInv
<1>3. ASSUME NEW op \in Versions, NEW n, NEW t, Mutation(op, n, t), op = "sent" \/ n \in DOMAIN posted
      PROVE  ContentInv'
  <2>1. /\ UNCHANGED <<posted, events, missed, cache, channel, hook, list, mixed>>
        /\ rest' = [op |-> op, id |-> n, text |-> t, channel |-> channel, applied |-> FALSE]
    BY <1>3 DEF Mutation, serviceVars, windowVars
  <2>2. RestInv'
    BY <1>3, <2>1 DEF RestInv
  <2> QED
    BY <2>1, <2>2 DEF ContentInv, EventsInv, PagesInv, PageInv, HookInv, ListInv
<1>4. ASSUME NEW t \in Texts, SendByRest(t) PROVE ContentInv'
  BY <1>3, <1>4 DEF SendByRest, Versions
<1>5. ASSUME NEW n \in DOMAIN posted, NEW v \in {"edited", "deleted"}, ChangeByRest(n, v)
      PROVE  ContentInv'
  BY <1>3, <1>5 DEF ChangeByRest, Versions
<1>6. ASSUME MutationEnds PROVE ContentInv'
  <2>1. /\ UNCHANGED <<posted, events, missed, channel, hook, list, mixed>>
        /\ rest' = None /\ rest.channel \in Channels
        /\ cache' = [cache EXCEPT ![rest.channel].owed = TRUE]
    BY <1>0, <1>6 DEF MutationEnds, serviceVars, Requests
  <2>2. \A c \in Channels : /\ cache'[c].data = cache[c].data /\ cache'[c].fetch = cache[c].fetch
                            /\ cache'[c].answer = cache[c].answer
    BY <1>0, <2>1 DEF CacheEntries
  <2>3. RestInv' /\ PagesInv'
    BY <2>1, <2>2 DEF ContentInv, RestInv, PagesInv, PageInv
  <2> QED
    BY <2>1, <2>3 DEF ContentInv, EventsInv, HookInv, ListInv
<1> QED
  BY <1>2, <1>4, <1>5, <1>6

LEMMA LoadArrivesContent ==
    ASSUME TypeInv, ContentInv, NEW j \in Loops, LoadArrives(j)
    PROVE  ContentInv'
<1>0. /\ posted \in Seq(Posted) /\ IsABag(list) /\ loads[j] \in Loads /\ mixed \in BOOLEAN
  BY DEF TypeInv, ServiceType, WindowType, LoadType, LoadArrives, Asking
<1> DEFINE O == Before(loads[j].channel, loads[j].before)
<1>1. /\ UNCHANGED <<posted, events, missed, rest, cache, channel, hook>>
      /\ list' = Prepended(list, O) /\ mixed' = (mixed \/ ~InStep(loads[j]))
  BY DEF LoadArrives, serviceVars, clientVars
<1>2. \A e \in O : Known(posted, e)
  BY <1>0, BeforeFacts DEF Loads
<1>3. ~mixed' => GoodList(posted, events, missed, list', channel)
  BY <1>0, <1>1, PrependedGood DEF InStep, ContentInv, ListInv
<1>4. Shown(list') = Shown(list) \cup O
  BY <1>0, <1>1, SumLists, SetToBagLists DEF Prepended
<1> HIDE DEF O
<1>5. HookInv' /\ ListInv'
  BY <1>1, <1>2, <1>3, <1>4 DEF ContentInv, HookInv, ListInv, AllListable
<1> QED
  BY <1>1, <1>5 DEF ContentInv, EventsInv, RestInv, PagesInv, PageInv

-----------------------------------------------------------------------------
(* Handling an event. *)

LEMMA ToldFacts ==
    ASSUME NEW p, NEW items, AllKnown(p, items), NEW m, Known(p, m)
    PROVE  /\ AllKnown(p, Told(items, m))
           /\ \A e \in Told(items, m) :
                 Has(items, e.id) \/ (e.id = m.id /\ m.version = "sent")
           /\ \A e \in Told(items, m) : e \in items \/ e = m
           /\ \A e \in items : Has(Told(items, m), e.id) /\ (e.id # m.id => e \in Told(items, m))
           /\ m.version = "sent" => Has(Told(items, m), m.id)
           /\ m.version = "sent" => items \subseteq Told(items, m)
           /\ m.version # "sent" /\ Has(Told(items, m), m.id) => m \in Told(items, m)
           /\ Unique(items) => Unique(Told(items, m))
<1>1. CASE m.version = "sent"
  <2>1. Told(items, m) = IF Has(items, m.id) THEN items ELSE items \cup {m}
    BY <1>1 DEF Told, Pushed
  <2> QED
    BY <1>1, <2>1 DEF AllKnown, Has, Unique
<1>2. CASE m.version # "sent"
  <2>1. Told(items, m) = {IF e.id = m.id THEN m ELSE e : e \in items}
    BY <1>2 DEF Told, Rewritten
  <2>2. \A e \in items : e.id # m.id => e \in Told(items, m)
    BY <2>1
  <2>3. \A e \in items : e.id = m.id => m \in Told(items, m)
    BY <2>1
  <2>4. \A e \in Told(items, m) : (e \in items /\ e.id # m.id) \/ (e = m /\ Has(items, m.id))
    BY <2>1 DEF Has
  <2> QED
    BY <1>2, <2>2, <2>3, <2>4 DEF AllKnown, Has, Unique
<1> QED
  BY <1>1, <1>2

\* The cached page of the event's channel, told of the event, is Good without it.
LEMMA ToldGood ==
    ASSUME NEW p, NEW ev, NEW ew, NEW ms, NEW mt, NEW m, Handles(p, ev, ew, ms, mt, m),
           DOMAIN p \subseteq Nat \ {0}, NEW ch, NEW items, GoodPage(p, ev, ms, items, ch),
           p[m.id].channel = ch
    PROVE  GoodPage(p, ew, mt, Told(items, m), ch)
<1> DEFINE S2 == Told(items, m)
<1>0. Known(p, m)
  BY DEF Handles
<1>1. AllKnown(p, items) /\ Unique(items) /\ KnownIn(p, items, ch)
      /\ Complete(p, ev, ms, items, ch) /\ Fresh(p, ev, ms, items, {})
  BY DEF GoodPage, Good
<1>2. /\ AllKnown(p, S2) /\ Unique(S2)
      /\ \A e \in S2 : Has(items, e.id) \/ (e.id = m.id /\ m.version = "sent")
      /\ \A e \in S2 : e \in items \/ e = m
      /\ \A e \in items : Has(S2, e.id) /\ (e.id # m.id => e \in S2)
      /\ m.version = "sent" => Has(S2, m.id)
      /\ m.version # "sent" /\ Has(S2, m.id) => m \in S2
  BY <1>0, <1>1, ToldFacts
<1> HIDE DEF S2
<1>3. ASSUME ~Pend(ew, m.id), Has(S2, m.id) PROVE m \in S2
  <2>1. CASE m.version # "sent"
    BY <1>2, <1>3, <2>1
  <2>2. CASE m.version = "sent"
    <3>1. PICK f \in S2 : f.id = m.id
      BY <1>3 DEF Has
    <3>2. Known(p, f)
      BY <1>2, <3>1 DEF AllKnown
    <3>3. m = MessageOf(p, m.id)
      BY <1>3 DEF Handles
    <3>4. f = m
      BY <1>0, <2>2, <3>1, <3>2, <3>3, HandledEntry
    <3> QED
      BY <3>1, <3>4
  <2> QED
    BY <2>1, <2>2
<1>4. \A e \in items : e.id \in Int
  BY <1>1 DEF AllKnown, Known, Entries
<1>5. KnownIn(p, S2, ch)
  BY <1>0, <1>1, <1>2 DEF KnownIn
<1>6. Complete(p, ew, mt, S2, ch)
  BY <1>1, <1>2, <1>4, ToldComplete
<1>7. Fresh(p, ew, mt, S2, {})
  BY <1>1, <1>2, <1>3, ToldFresh
<1>8. Good(p, ew, mt, S2, ch)
  BY <1>5, <1>6, <1>7 DEF Good
<1> QED
  BY <1>2, <1>8 DEF GoodPage, S2

\* A set that is not told of the event: it is of another channel, or holds the
\* event already, or the event is counted as missed.
LEMMA UntoldGood ==
    ASSUME NEW p, NEW ev, NEW ew, NEW ms, NEW mt, NEW m, Handles(p, ev, ew, ms, mt, m),
           DOMAIN p \subseteq Nat \ {0}, NEW ch, NEW S, \A e \in S : e.id \in Int,
           Good(p, ev, ms, S, ch), p[m.id].channel # ch \/ m \in S \/ m.id \in mt
    PROVE  Good(p, ew, mt, S, ch)
<1>0. 0 < m.id
  BY KnownFacts DEF Handles
<1>1. KnownIn(p, S, ch) /\ Complete(p, ev, ms, S, ch) /\ Fresh(p, ev, ms, S, {})
  BY DEF Good
<1>2. Has(S, m.id) => p[m.id].channel = ch
  BY <1>0, <1>1 DEF Has, KnownIn
<1>3. (m \in S => Has(S, m.id)) /\ \A e \in S : Has(S, e.id)
  BY DEF Has
<1>4. Complete(p, ew, mt, S, ch)
  BY <1>1, <1>3, ToldComplete
<1>5. Fresh(p, ew, mt, S, {})
  BY <1>1, <1>2, <1>3, ToldFresh
<1> QED
  BY <1>1, <1>4, <1>5 DEF Good

LEMMA ReceiveContent ==
    ASSUME TypeInv, ContentInv, Receive
    PROVE  ContentInv'
<1> DEFINE m == Handled
           entries == CacheTold(m)
           messages == ListTold(m)
           mc == posted[m.id].channel
<1>1. /\ events # <<>> /\ events' = Tail(events) /\ posted' = posted /\ rest' = rest
      /\ Rendered(channel, entries, messages)
      /\ missed \subseteq missed' /\ (TooEarly(m) => m.id \in missed')
  BY DEF Receive, clientVars
<1>2. /\ WindowType /\ posted \in Seq(Posted) /\ events \in Seq(Events) /\ IsABag(list)
      /\ cache \in [Channels -> CacheEntries] /\ channel \in Channels
  BY DEF TypeInv, ServiceType, WindowType
<1>3. DOMAIN posted \subseteq Nat \ {0}
  BY <1>2, PostedFacts
<1>4. EventsInv /\ RestInv /\ PagesInv /\ HookInv /\ ListInv /\ EventsOf(posted, events)
  BY DEF ContentInv, EventsInv
<1>5. Known(posted, m) /\ mc \in Channels
  BY <1>1, <1>4, HandledFacts
<1>0. Handles(posted, events, events', missed, missed', m)
  BY <1>1, <1>4, HeadHandled
<1>6. entries \in [Channels -> CacheEntries] /\ IsABag(messages)
  BY <1>1, ToldTypes
<1> HIDE DEF m
<1>7. /\ \A ch \in Channels : entries[ch].fetch = cache[ch].fetch /\ entries[ch].answer = cache[ch].answer
      /\ \A ch \in Channels : ch # mc \/ cache[ch].data = None => entries[ch] = cache[ch]
      /\ cache[mc].data # None =>
            entries[mc].data # None /\ entries[mc].data.items = Told(cache[mc].data.items, m)
  <2> DEFINE page == Told(cache[mc].data.items, m)
  <2>1. cache[mc] \in CacheEntries
    BY <1>2, <1>5
  <2>2. CASE cache[mc].data = None
    BY <2>2 DEF CacheTold
  <2>3. CASE cache[mc].data # None
    <3>1. cache[mc].data \in Pages
      BY <2>1, <2>3 DEF CacheEntries
    <3>2. entries = [cache EXCEPT ![mc].data.items = page]
      BY <2>3 DEF CacheTold
    <3> HIDE DEF page, entries, mc
    <3>3. \A ch \in Channels : ch # mc => entries[ch] = cache[ch]
      BY <1>2, <3>2
    <3>4. entries[mc] = [cache[mc] EXCEPT !.data = [cache[mc].data EXCEPT !.items = page]]
      BY <1>2, <1>5, <2>1, <3>2
    <3>5. entries[mc].data = [cache[mc].data EXCEPT !.items = page]
      BY <2>1, <3>4 DEF CacheEntries
    <3>6. entries[mc].data # None
      <4>1. PageInv(mc)
        BY <1>4, <1>5 DEF PagesInv
      <4>2. AllKnown(posted, cache[mc].data.items)
        BY <2>3, <4>1 DEF PageInv, GoodPage
      <4>3. AllKnown(posted, page)
        BY <1>5, <4>2, ToldFacts DEF page
      <4>4. page \subseteq Entries
        BY <4>3 DEF AllKnown, Known
      <4>5. entries[mc].data \in Pages
        BY <3>1, <3>5, <4>4 DEF Pages
      <4> QED
        BY <4>5, NoneAssumption
    <3>7. /\ entries[mc].fetch = cache[mc].fetch /\ entries[mc].answer = cache[mc].answer
          /\ entries[mc].data.items = page
      BY <2>1, <3>1, <3>4, <3>5 DEF CacheEntries, Pages
    <3> QED
      BY <2>3, <3>3, <3>6, <3>7 DEF page
  <2> QED
    BY <2>2, <2>3
<1> HIDE DEF entries, messages
<1>8. EventsInv' /\ RestInv'
  <2>1. Suffix(events, events', 1)
    BY <1>1, <1>2 DEF Suffix
  <2> QED
    BY <1>1, <1>4, <2>1, SuffixEvents DEF EventsInv, RestInv
<1>9. ASSUME NEW ch \in Channels
      PROVE  /\ entries[ch].fetch = "answered" <=> entries[ch].answer # None
             /\ entries[ch].data # None =>
                   GoodPage(posted, events', missed', entries[ch].data.items, ch)
             /\ entries[ch].answer # None =>
                   GoodPage(posted, events', missed', entries[ch].answer.items, ch)
  <2>1. /\ cache[ch].fetch = "answered" <=> cache[ch].answer # None
        /\ cache[ch].data # None => GoodPage(posted, events, missed, cache[ch].data.items, ch)
        /\ cache[ch].answer # None => GoodPage(posted, events, missed, cache[ch].answer.items, ch)
    BY <1>4 DEF PagesInv, PageInv
  <2>2. ASSUME NEW S, GoodPage(posted, events, missed, S, ch), mc # ch \/ m \in S \/ m.id \in missed'
        PROVE  GoodPage(posted, events', missed', S, ch)
    <3>1. AllKnown(posted, S) /\ Unique(S) /\ Good(posted, events, missed, S, ch)
      BY <2>2 DEF GoodPage
    <3>2. \A e \in S : e.id \in Int
      BY <3>1 DEF AllKnown, Known, Entries
    <3>3. Good(posted, events', missed', S, ch)
      BY <1>0, <1>3, <2>2, <3>1, <3>2, UntoldGood
    <3> QED
      BY <3>1, <3>3 DEF GoodPage
  <2>3. entries[ch].answer # None =>
           GoodPage(posted, events', missed', entries[ch].answer.items, ch)
    BY <1>1, <1>7, <2>1, <2>2 DEF TooEarly
  <2>4. ASSUME entries[ch].data # None
        PROVE  GoodPage(posted, events', missed', entries[ch].data.items, ch)
    <3>1. CASE ch # mc
      BY <1>7, <2>1, <2>2, <2>4, <3>1
    <3>2. CASE ch = mc
      <4>1. cache[ch].data # None /\ entries[ch].data.items = Told(cache[ch].data.items, m)
        BY <1>7, <2>4, <3>2
      <4>2. GoodPage(posted, events, missed, cache[ch].data.items, ch)
        BY <2>1, <4>1
      <4>3. posted[m.id].channel = ch
        BY <3>2
      <4> HIDE DEF mc
      <4>4. GoodPage(posted, events', missed', Told(cache[ch].data.items, m), ch)
        BY <1>0, <1>3, <4>2, <4>3, ToldGood
      <4> QED
        BY <4>1, <4>4
    <3> QED
      BY <3>1, <3>2
  <2> QED
    BY <1>7, <2>1, <2>3, <2>4
<1>10. /\ AllListable(posted, messages)
       /\ \A e \in Shown(list) : 0 < e.id => e \in Shown(messages)
  <2>1. AllListable(posted, list)
    BY <1>4 DEF ListInv
  <2>2. /\ AllListable(posted, Received(list, m))
        /\ \A e \in Shown(list) : 0 < e.id => e \in Shown(Received(list, m))
    BY <1>2, <1>3, <1>5, <2>1, ReceivedLists
  <2>3. messages = list \/ messages = Received(list, m)
    BY DEF ListTold, messages
  <2> QED
    BY <2>1, <2>2, <2>3
<1>11. hook # None => AllKnown(posted, hook.items) /\ hook.items \subseteq Shown(messages)
  BY <1>3, <1>4, <1>10, KnownFacts DEF HookInv, AllKnown
<1>12. ASSUME ~mixed
       PROVE  /\ KnownIn(posted, Shown(messages), channel)
              /\ Complete(posted, events', missed', Shown(messages), channel)
              /\ PeerOnce(messages)
              /\ \/ Fresh(posted, events', missed', Shown(messages), {})
                 \/ /\ entries[channel].data # None
                    /\ HookData(entries[channel]) = entries[channel].data
                    /\ Fresh(posted, events', missed', Shown(messages), entries[channel].data.items)
  <2>1. Good(posted, events, missed, Shown(list), channel) /\ PeerOnce(list) /\ AllListable(posted, list)
    BY <1>4, <1>12 DEF ListInv, GoodList
  <2>2. \A e \in Shown(list) : e.id \in Int
    BY <1>3, <2>1, ListableFacts
  <2>3. CASE m.version = "sent" /\ mc = channel
    <3>1. messages = Received(list, m)
      BY <2>3 DEF ListTold, messages
    <3>2. Good(posted, events', missed', Shown(messages), channel)
      BY <1>0, <1>2, <1>3, <2>1, <2>3, <3>1, ReceivedGood
    <3>3. PeerOnce(messages)
      BY <1>2, <1>3, <1>5, <2>1, <3>1, ReceivedOnce
    <3> QED
      BY <3>2, <3>3 DEF Good
  <2>4. CASE ~(m.version = "sent" /\ mc = channel)
    <3>1. messages = list
      BY <2>4 DEF ListTold, messages
    <3>2. CASE mc # channel \/ m.id \in missed'
      <4>1. Good(posted, events', missed', Shown(list), channel)
        BY <1>0, <1>3, <2>1, <2>2, <3>2, UntoldGood
      <4> QED
        BY <2>1, <3>1, <4>1 DEF Good
    <3>3. CASE mc = channel /\ m.id \notin missed'
      <4>1. m.version # "sent" /\ ~TooEarly(m)
        BY <1>1, <2>4, <3>3
      <4>2. cache[mc].fetch = "none" /\ cache[mc].data # None /\ Has(cache[mc].data.items, m.id)
        BY <4>1 DEF TooEarly
      <4>3. entries[channel].data # None /\ HookData(entries[channel]) = entries[channel].data
        <5>1. entries[channel] \in CacheEntries /\ entries[channel].fetch = "none"
          BY <1>2, <1>6, <1>7, <3>3, <4>2
        <5>2. entries[channel].data # None
          BY <1>7, <3>3, <4>2
        <5> QED
          BY <5>1, <5>2 DEF HookData
      <4>4. Has(entries[channel].data.items, m.id)
        <5>1. PageInv(mc)
          BY <1>4, <1>5 DEF PagesInv
        <5>2. AllKnown(posted, cache[mc].data.items)
          <6> HIDE DEF mc
          <6>1. cache[mc].data # None
            BY <4>2
          <6> QED
            BY ONLY <5>1, <6>1 DEF PageInv, GoodPage
        <5>3. PICK e \in cache[mc].data.items : e.id = m.id
          BY <4>2 DEF Has
        <5>4. Has(Told(cache[mc].data.items, m), m.id)
          <6> HIDE DEF mc
          <6>1. Known(posted, m)
            BY <1>5
          <6>2. \A f \in cache[mc].data.items : Has(Told(cache[mc].data.items, m), f.id)
            BY <5>2, <6>1, ToldFacts
          <6> QED
            BY <5>3, <6>2
        <5> QED
          BY <1>7, <3>3, <4>2, <5>4
      <4>5. /\ KnownIn(posted, Shown(list), channel)
            /\ Complete(posted, events, missed, Shown(list), channel)
            /\ Fresh(posted, events, missed, Shown(list), {})
            /\ \A e \in Shown(list) : Has(Shown(list), e.id)
        BY <2>1 DEF Good, Has
      <4>6. Complete(posted, events', missed', Shown(list), channel)
        BY <1>0, <1>3, <2>2, <4>1, <4>5, ToldComplete
      <4>7. Fresh(posted, events', missed', Shown(list), entries[channel].data.items)
        BY <1>0, <4>4, <4>5, ToldFresh
      <4> QED
        BY <2>1, <3>1, <4>3, <4>5, <4>6, <4>7
    <3> QED
      BY <3>2, <3>3
  <2> QED
    BY <2>3, <2>4
<1>13. /\ hook' # None => AllKnown(posted, hook'.items) /\ hook'.items \subseteq Shown(list')
       /\ AllListable(posted, list')
       /\ ~mixed' => GoodList(posted, events', missed', list', channel')
  BY <1>1, <1>2, <1>3, <1>6, <1>9, <1>10, <1>11, <1>12, RenderedContent
<1>14. cache' = entries
  BY <1>1 DEF Rendered
<1>15. PagesInv'
  BY <1>1, <1>9, <1>14 DEF PagesInv, PageInv
<1>16. HookInv' /\ ListInv'
  BY <1>1, <1>13 DEF HookInv, ListInv
<1> QED
  BY <1>8, <1>15, <1>16 DEF ContentInv

LEMMA ContentStep ==
    ASSUME TypeInv, ContentInv, [Next]_vars
    PROVE  ContentInv'
<1>1. CASE UNCHANGED vars
  BY <1>1, OtherStepContent DEF vars, serviceVars, clientVars, windowVars
<1>2. ASSUME Break \/ Noticed \/ RenewToken \/ OldCloses \/ ScrollToTop PROVE ContentInv'
  BY <1>2, OtherStepContent
  DEF Break, Noticed, RenewToken, OldCloses, ScrollToTop, serviceVars, clientVars, windowVars
<1>3. ASSUME NEW j \in Loops, LoadFails(j) \/ LoadRetries(j) \/ PressRetry(j)
      PROVE  ContentInv'
  BY <1>3, OtherStepContent
  DEF LoadFails, LoadRetries, PressRetry, serviceVars, clientVars, windowVars
<1>4. ASSUME NEW u \in Typists, TypingTimeout(u) \/ \E b \in BOOLEAN : TypingUpdate(u, b)
      PROVE  ContentInv'
  BY <1>4, OtherStepContent DEF TypingTimeout, TypingUpdate, serviceVars, clientVars, windowVars
<1>5. CASE Environment
  BY <1>2, <1>3, <1>4, <1>5, ServiceStepContent, MutationStepContent, PageStepContent
  DEF Environment, AllTexts
<1>6. CASE Progress
  <2>1. ASSUME Invalidate PROVE ContentInv'
    <3>1. channel \in Channels
      BY DEF TypeInv, WindowType
    <3> QED
      BY <2>1, <3>1, PageStepContent
  <2> QED
    BY <1>2, <1>3, <1>4, <1>6, <2>1, ServiceStepContent, ConnectContent, ReceiveContent,
       MutationStepContent, PageStepContent, LoadArrivesContent
    DEF Progress
<1> QED
  BY <1>1, <1>5, <1>6 DEF Next

LEMMA InitContent ==
    ASSUME Init
    PROVE  ContentInv
<1>1. EventsInv /\ RestInv /\ HookInv
  BY DEF Init, EventsInv, EventsOf, RestInv, HookInv
<1>2. PagesInv
  BY DEF Init, PagesInv, PageInv, Fetching, NoEntry
<1>3. ListInv
  BY EmptyLists, EmptyGood DEF Init, ListInv, AllListable
<1> QED
  BY <1>1, <1>2, <1>3 DEF ContentInv

-----------------------------------------------------------------------------
(* Loads and typing. *)

LEMMA LoadsKept ==
    ASSUME TypeInv, LoadInv, UNCHANGED <<loads, lazy>>, budget'.scrolls = budget.scrolls,
           guard' => guard, freed => freed', guard => guard' \/ freed'
    PROVE  LoadInv'
BY DEF LoadInv, OneLoop, Scrolled

LEMMA RenderedLoads ==
    ASSUME TypeInv, LoadInv, NEW ch, NEW entries, NEW messages, Rendered(ch, entries, messages),
           budget'.scrolls = budget.scrolls
    PROVE  LoadInv'
<1>1. /\ UNCHANGED <<loads, lazy>> /\ guard' = (guard /\ list' # EmptyBag)
      /\ freed' = (freed \/ (guard /\ list' = EmptyBag))
  BY DEF Rendered
<1> QED
  BY <1>1, LoadsKept

LEMMA ScrollLoads ==
    ASSUME TypeInv, ContentInv, LoadInv, ScrollToTop
    PROVE  LoadInv'
<1> DEFINE k == Scrolled + 1
<1>1. /\ loads \in [Loops -> Loads \cup {None}] /\ lazy \in {"unused", "loading", "used"}
      /\ budget.scrolls \in Nat /\ MaxScrolls \in Nat /\ budget.scrolls <= MaxScrolls
      /\ budget.scrolls > 0 /\ budget'.scrolls = budget.scrolls - 1
  BY BoundsAssumption, Spent DEF TypeInv, LoadType, ScrollToTop, BudgetType
<1>2. PICK l \in Loads : loads' = [loads EXCEPT ![k] = l] /\ l.attempt = 0 /\ l.stage = "asking"
  <2>1. PICK n \in ShownIds(list) : loads' = [loads EXCEPT ![k] =
                   [channel |-> channel, before |-> n, attempt |-> 0, stage |-> "asking",
                    by |-> "scroll"]]
    BY DEF ScrollToTop
  <2>2. n \in Int
    BY <2>1, PostedFacts, ListableFacts DEF TypeInv, ServiceType, ContentInv, ListInv, ShownIds
  <2>3. [channel |-> channel, before |-> n, attempt |-> 0, stage |-> "asking",
         by |-> "scroll"] \in Loads
    BY <2>2, SizesAssumption DEF Loads, TypeInv, WindowType
  <2> QED
    BY <2>1, <2>3
<1>3. k \in Loops /\ Scrolled' = Scrolled + 1
  BY <1>1 DEF Loops, Scrolled
<1>4. /\ UnderWay(loads'[k]) /\ loads'[k].attempt = 0
      /\ \A i \in Loops \ {k} : loads'[i] = loads[i]
  BY <1>1, <1>2, <1>3, NoneAssumption DEF UnderWay
<1> HIDE DEF k
<1>5. ~guard /\ guard' /\ lazy # "loading" /\ freed' = freed
      /\ lazy' = IF lazy = "unused" THEN "loading" ELSE lazy
  BY DEF ScrollToTop, MayLoad, IsLoading
<1>6. \A i \in Loops \ {k} :
         /\ lazy = "unused" => loads[i] = None
         /\ lazy = "used" /\ ~freed /\ ByScroll(loads[i]) => loads[i].attempt > 0
  BY <1>1, <1>5 DEF LoadInv, Loads, ByScroll
<1>7. /\ lazy' = "loading" => \A i \in Loops \ {k} : loads'[i] = None
      /\ Scrolled' >= 1 /\ (lazy' = "used" => Scrolled' >= 2)
  BY <1>1, <1>3, <1>4, <1>5, <1>6 DEF LoadInv, Scrolled
<1>8. OneLoop'
  <2> SUFFICES ASSUME ~freed', NEW i \in Loops, NEW j \in Loops, i # j,
                      ByScroll(loads'[i]), ByScroll(loads'[j])
               PROVE  loads'[i].attempt + loads'[j].attempt > 0
    BY DEF OneLoop
  <2>1. CASE lazy = "unused"
    BY <1>4, <1>6, <2>1 DEF ByScroll
  <2>2. CASE lazy = "used"
    <3>1. \A h \in Loops : ByScroll(loads[h]) => loads[h].attempt \in Nat
      BY <1>1 DEF Loads, ByScroll
    <3>2. CASE i = k
      BY <1>4, <1>5, <1>6, <2>2, <3>1, <3>2
    <3>3. CASE j = k
      BY <1>4, <1>5, <1>6, <2>2, <3>1, <3>3
    <3>4. CASE i # k /\ j # k
      BY <1>4, <1>5, <1>6, <2>2, <3>1, <3>4
    <3> QED
      BY <3>2, <3>3, <3>4
  <2> QED
    BY <1>1, <1>5, <2>1, <2>2
<1> QED
  BY <1>3, <1>4, <1>5, <1>7, <1>8 DEF LoadInv

LEMMA AnsweredLoads ==
    ASSUME TypeInv, LoadInv, NEW j \in Loops, LoadArrives(j) \/ LoadFails(j)
    PROVE  LoadInv'
<1>1. /\ loads \in [Loops -> Loads \cup {None}] /\ lazy \in {"unused", "loading", "used"}
      /\ budget \in BudgetType /\ loads[j] # None /\ loads[j] \in Loads
  BY DEF TypeInv, LoadType, LoadArrives, LoadFails, Asking
<1>2. budget'.scrolls = budget.scrolls
  BY <1>1, Spent DEF LoadArrives, LoadFails
<1>3. /\ lazy' = "used" /\ guard' = (guard /\ lazy # "loading") /\ freed' = freed
  BY DEF LoadArrives, LoadFails, Released
<1>4. /\ \A i \in Loops \ {j} : loads'[i] = loads[i]
      /\ ByScroll(loads'[j]) => /\ ByScroll(loads[j])
                                /\ loads'[j].attempt = loads[j].attempt + 1
  <2>1. loads' = [loads EXCEPT ![j] = None] \/ loads' = [loads EXCEPT ![j] = NextAttempt(loads[j])]
    BY DEF LoadArrives, LoadFails
  <2>2. ByScroll(NextAttempt(loads[j])) =>
           /\ ByScroll(loads[j])
           /\ NextAttempt(loads[j]).attempt = loads[j].attempt + 1
    BY <1>1 DEF NextAttempt, Loads, ByScroll
  <2> QED
    BY <1>1, <2>1, <2>2 DEF ByScroll
<1>5. lazy # "unused" /\ (lazy = "loading" => \A i \in Loops \ {j} : loads[i] = None)
  BY <1>1 DEF LoadInv
<1>6. Scrolled' = Scrolled /\ Scrolled >= 1 /\ (guard' => Scrolled >= 2)
  BY <1>1, <1>2, <1>3, <1>5 DEF LoadInv, Scrolled
<1>7. loads[j].attempt \in Nat
  BY <1>1 DEF Loads
<1>8. ~freed' /\ (\E i \in Loops : ByScroll(loads'[i]) /\ loads'[i].attempt = 0) => guard'
  <2> SUFFICES ASSUME ~freed', NEW i \in Loops, ByScroll(loads'[i]), loads'[i].attempt = 0
               PROVE  guard'
    OBVIOUS
  <2>1. i # j
    BY <1>4, <1>7
  <2>2. ByScroll(loads[i]) /\ loads[i].attempt = 0
    BY <1>4, <2>1
  <2>3. lazy = "used" /\ ~freed
    BY <1>1, <1>3, <1>5, <2>1, <2>2 DEF ByScroll
  <2> QED
    BY <1>3, <2>2, <2>3 DEF LoadInv
<1>9. OneLoop'
  <2> SUFFICES ASSUME ~freed', NEW i \in Loops, NEW h \in Loops, i # h,
                      ByScroll(loads'[i]), ByScroll(loads'[h])
               PROVE  loads'[i].attempt + loads'[h].attempt > 0
    BY DEF OneLoop
  <2>1. \A l \in Loops : ByScroll(loads[l]) => loads[l].attempt \in Nat
    BY <1>1 DEF Loads, ByScroll
  <2>2. CASE i = j
    BY <1>4, <1>7, <2>1, <2>2
  <2>3. CASE h = j
    BY <1>4, <1>7, <2>1, <2>3
  <2>4. CASE i # j /\ h # j
    BY <1>3, <1>4, <2>4 DEF LoadInv, OneLoop
  <2> QED
    BY <2>2, <2>3, <2>4
<1> QED
  BY <1>3, <1>6, <1>8, <1>9 DEF LoadInv

LEMMA RetriedLoads ==
    ASSUME TypeInv, LoadInv, NEW j \in Loops, LoadRetries(j) \/ PressRetry(j)
    PROVE  LoadInv'
<1>1. /\ loads \in [Loops -> Loads \cup {None}] /\ loads[j] \in Loads
  BY DEF TypeInv, LoadType, LoadRetries, PressRetry
<1>2. UNCHANGED <<lazy, guard, freed, budget>>
  BY DEF LoadRetries, PressRetry
<1>3. \A i \in Loops : /\ loads'[i] = None <=> loads[i] = None
                       /\ UnderWay(loads[i]) => UnderWay(loads'[i])
                       /\ ByScroll(loads'[i]) => /\ ByScroll(loads[i])
                                                 /\ loads'[i].attempt = loads[i].attempt
  <2>1. /\ loads'[j] = [loads[j] EXCEPT !.stage = "asking"]
        /\ \A i \in Loops \ {j} : loads'[i] = loads[i]
    BY <1>1 DEF LoadRetries, PressRetry
  <2>2. /\ loads'[j] \in Loads /\ loads'[j].attempt = loads[j].attempt
        /\ loads'[j].stage = "asking" /\ loads'[j].by = loads[j].by
    BY <1>1, <2>1 DEF Loads
  <2> QED
    BY <1>1, <2>1, <2>2, NoneAssumption DEF UnderWay, ByScroll
<1> QED
  BY <1>2, <1>3 DEF LoadInv, OneLoop, Scrolled

LEMMA LoadStep ==
    ASSUME TypeInv, ContentInv, LoadInv, [Next]_vars
    PROVE  LoadInv'
<1>0. budget \in BudgetType
  BY DEF TypeInv
<1>1. ASSUME UNCHANGED loadVars, budget'.scrolls = budget.scrolls PROVE LoadInv'
  BY <1>1, LoadsKept DEF loadVars
<1>2. CASE UNCHANGED vars
  BY <1>1, <1>2 DEF vars
<1>3. CASE Environment
  <2>1. ASSUME NEW ch \in Channels, NEW t \in Texts \cup {Peer}, Post(ch, t) PROVE LoadInv'
    BY <1>0, <1>1, <2>1, Spent DEF Post
  <2>2. ASSUME NEW n \in DOMAIN posted, NEW v \in {"edited", "deleted"},
               Change(n, v) \/ ChangeByRest(n, v)
        PROVE  LoadInv'
    BY <1>0, <1>1, <2>2, Spent DEF Change, ChangeByRest, Mutation
  <2>3. ASSUME NEW t \in Texts, Send(t) \/ SendByRest(t) PROVE LoadInv'
    BY <1>0, <1>1, <2>3, Spent DEF Send, SendByRest, Mutation
  <2>4. ASSUME NEW ch \in Channels, Open(ch) \/ PageFails(ch) PROVE LoadInv'
    BY <1>0, <2>4, Spent, RenderedLoads DEF Open, PageFails
  <2>5. ASSUME NEW ch \in Channels, Expire(ch) PROVE LoadInv'
    BY <1>1, <2>5 DEF Expire
  <2>6. ASSUME Break \/ RenewToken PROVE LoadInv'
    BY <1>0, <1>1, <2>6, Spent DEF Break, RenewToken
  <2>7. ASSUME NEW u \in Typists, NEW b \in BOOLEAN, TypingUpdate(u, b) PROVE LoadInv'
    BY <1>0, <1>1, <2>7, Spent DEF TypingUpdate
  <2> QED
    BY <1>3, <2>1, <2>2, <2>3, <2>4, <2>5, <2>6, <2>7, ScrollLoads, AnsweredLoads,
       RetriedLoads
    DEF Environment
<1>4. CASE Progress
  <2>1. ASSUME ServerReceives PROVE LoadInv'
    BY <1>0, <1>1, <2>1, Spent DEF ServerReceives
  <2>2. ASSUME Connect \/ Noticed \/ OldCloses \/ MutationApplied PROVE LoadInv'
    BY <1>1, <2>2 DEF Connect, Noticed, OldCloses, MutationApplied
  <2>3. ASSUME MutationEnds PROVE LoadInv'
    BY <1>0, <1>1, <2>3, Spent DEF MutationEnds
  <2>4. ASSUME Receive \/ Invalidate PROVE LoadInv'
    BY <2>4, RenderedLoads DEF Receive, Invalidate
  <2>5. ASSUME NEW ch \in Channels, PageRead(ch) PROVE LoadInv'
    BY <1>1, <2>5 DEF PageRead
  <2>6. ASSUME NEW ch \in Channels, PageArrives(ch) PROVE LoadInv'
    BY <2>6, RenderedLoads DEF PageArrives
  <2>7. ASSUME NEW u \in Typists, TypingTimeout(u) PROVE LoadInv'
    BY <1>1, <2>7 DEF TypingTimeout
  <2> QED
    BY <1>4, <2>1, <2>2, <2>3, <2>4, <2>5, <2>6, <2>7, AnsweredLoads, RetriedLoads
    DEF Progress
<1> QED
  BY <1>2, <1>3, <1>4 DEF Next

LEMMA TypingStep ==
    ASSUME TypingEnds, [Next]_vars
    PROVE  TypingEnds'
<1>1. ASSUME UNCHANGED typingVars PROVE TypingEnds'
  BY <1>1 DEF typingVars, TypingEnds
<1>2. ASSUME NEW b, Reconnected(b) PROVE TypingEnds'
  BY <1>2 DEF Reconnected, typingVars, TypingEnds
<1>3. CASE UNCHANGED vars
  BY <1>1, <1>3 DEF vars
<1>4. CASE Environment
  <2>1. ASSUME NEW u \in Typists, NEW b \in BOOLEAN, TypingUpdate(u, b) PROVE TypingEnds'
    BY <2>1 DEF TypingUpdate, TypingEnds
  <2>2. ASSUME ~\E u \in Typists, b \in BOOLEAN : TypingUpdate(u, b) PROVE TypingEnds'
    BY <1>1, <1>4, <2>2
    DEF Environment, Post, Change, ChangeByRest, SendByRest, Mutation, Send, Open, PageFails,
        Expire, Break, RenewToken, ScrollToTop, LoadFails, PressRetry
  <2> QED
    BY <2>1, <2>2
<1>5. CASE Progress
  <2>1. ASSUME NEW u \in Typists, TypingTimeout(u) PROVE TypingEnds'
    BY <2>1 DEF TypingTimeout, TypingEnds
  <2>2. ASSUME Connect \/ Noticed \/ OldCloses PROVE TypingEnds'
    BY <1>2, <2>2 DEF Connect, Noticed, OldCloses
  <2>3. ASSUME ServerReceives \/ Receive \/ MutationApplied \/ MutationEnds \/ Invalidate
        PROVE  TypingEnds'
    BY <1>1, <2>3 DEF ServerReceives, Receive, MutationApplied, MutationEnds, Invalidate
  <2>4. ASSUME NEW ch \in Channels, PageRead(ch) \/ PageArrives(ch) PROVE TypingEnds'
    BY <1>1, <2>4 DEF PageRead, PageArrives
  <2>5. ASSUME NEW j \in Loops, LoadArrives(j) \/ LoadRetries(j) PROVE TypingEnds'
    BY <1>1, <2>5 DEF LoadArrives, LoadRetries
  <2> QED
    BY <1>5, <2>1, <2>2, <2>3, <2>4, <2>5 DEF Progress
<1> QED
  BY <1>3, <1>4, <1>5 DEF Next

-----------------------------------------------------------------------------
(* The theorems. *)

LEMMA InitInv == Init => Inv
<1> SUFFICES ASSUME Init PROVE Inv
  OBVIOUS
<1>1. LoadInv /\ TypingEnds
  BY DEF Init, LoadInv, OneLoop, ByScroll, TypingEnds
<1> QED
  BY <1>1, InitType, InitContent DEF Inv

LEMMA StepInv == Inv /\ [Next]_vars => Inv'
BY StepType, ContentStep, LoadStep, TypingStep DEF Inv

\* In every reachable state of the chat window the types, the pages, the list,
\* the loops of handleLoadMore and the typing indicators are as Inv says.
THEOREM InvCorrect == Spec => []Inv
BY InitInv, StepInv, PTL DEF Spec

\* Every state is well typed: the list is a bag of messages of the service and
\* optimistic entries, and a loop is at one of its MaxRetries attempts.
THEOREM ChatTypeCorrect == Spec => []TypeOK
<1>1. ASSUME Inv PROVE TypeOK
  <2>0. TypeInv /\ WindowType /\ LoadType /\ PagesInv /\ HookInv /\ AllListable(posted, list)
    BY <1>1 DEF Inv, TypeInv, ContentInv, ListInv
  <2>1. ASSUME NEW n \in ShownIds(list) PROVE n \in DOMAIN posted \/ 0 - n \in 1 .. MaxSends
    <3>1. PICK e \in Shown(list) : e.id = n
      BY <2>1 DEF ShownIds
    <3>2. CASE Known(posted, e)
      BY <3>1, <3>2 DEF Known
    <3>3. CASE e \in Temps
      <4>1. PICK k \in 1 .. MaxSends, t \in Texts : e = Temp(k, t)
        BY <3>3 DEF Temps
      <4>2. n = 0 - k /\ k \in Int
        BY <3>1, <4>1 DEF Temp, Entry
      <4> QED
        BY <4>2
    <3> QED
      BY <2>0, <3>1, <3>2, <3>3 DEF AllListable
  <2>2. ASSUME NEW q \in Pages \cup {None}, q # None => AllKnown(posted, q.items)
        PROVE  PageOrNone(q)
    BY <2>2 DEF PageOrNone, Pages, AllKnown, Known
  <2>3. PageOrNone(hook)
    BY <2>0, <2>2 DEF WindowType, HookInv
  <2>4. ASSUME NEW ch \in Channels PROVE PageOrNone(cache[ch].data) /\ PageOrNone(cache[ch].answer)
    BY <2>0, <2>2, EntryType DEF CacheEntries, PagesInv, PageInv, GoodPage
  <2>5. \A j \in Loops : loads[j] # None => loads[j].attempt \in 0 .. MaxRetries - 1
    BY <2>0 DEF LoadType, Loads
  <2> QED
    BY <2>0, <2>1, <2>3, <2>4, <2>5
    DEF TypeOK, TypeInv, ClientType, WindowType, LoadType, TypingType
<1> QED
  BY <1>1, InvCorrect, PTL

LEMMA ListedGood ==
    ASSUME Inv, ~mixed
    PROVE  /\ GoodList(posted, events, missed, list, channel)
           /\ \A n \in ShownIds(list) : \E e \in Shown(list) : e.id = n
           /\ \A ch : InChannel(ch) = Alive(posted, ch)
           /\ \A n \in DOMAIN posted : MessageOf(posted, n) = Message(n)
<1>1. posted \in Seq(Posted) /\ ListInv
  BY DEF Inv, TypeInv, ServiceType, ContentInv
<1> QED
  BY <1>1, PostedFacts DEF ListInv, ShownIds

\* Unless the window was opened before the page of its channel had come, or a
\* load-more came out of step, it lists messages of its channel only.
THEOREM ChatOfChannel == Spec => []OfChannel
<1>1. ASSUME Inv PROVE OfChannel
  BY <1>1, ListedGood DEF OfChannel, ChannelOf, GoodList, Good, KnownIn
<1> QED
  BY <1>1, InvCorrect, PTL

\* When what was pushed has been handled, no message is missing from the oldest
\* one listed on, but for those an event of which was lost or came too early.
THEOREM ChatNoHole == Spec => []NoHole
<1>1. ASSUME Inv PROVE NoHole
  <2> SUFFICES ASSUME AtRest, ~mixed, NEW n \in ShownIds(list), NEW i \in InChannel(channel),
                      0 < n, n < i, i \notin missed
               PROVE  i \in ShownIds(list)
    BY DEF NoHole
  <2>1. PICK e \in Shown(list) : e.id = n
    BY <1>1, ListedGood
  <2>2. Complete(posted, events, missed, Shown(list), channel) /\ i \in Alive(posted, channel)
    BY <1>1, ListedGood DEF GoodList, Good
  <2>3. Has(Shown(list), i) \/ SentPend(events, i)
    BY <2>1, <2>2 DEF Complete
  <2>4. ~SentPend(events, i)
    BY DEF AtRest, SentPend
  <2> QED
    BY <2>3, <2>4 DEF Has, ShownIds
<1> QED
  BY <1>1, InvCorrect, PTL

\* When what was pushed has been handled, a message listed is listed in the
\* version the service has, edits and deletions included, unless it was missed.
THEOREM ChatUpToDate == Spec => []UpToDate
<1>1. ASSUME Inv PROVE UpToDate
  <2> SUFFICES ASSUME AtRest, ~mixed, NEW n \in ShownIds(list), n > 0, n \notin missed
               PROVE  Message(n) \in Shown(list)
    BY DEF UpToDate
  <2>1. PICK e \in Shown(list) : e.id = n
    BY <1>1, ListedGood
  <2>2. /\ KnownIn(posted, Shown(list), channel)
        /\ Fresh(posted, events, missed, Shown(list), {})
    BY <1>1, ListedGood DEF GoodList, Good
  <2>3. n \in DOMAIN posted /\ 0 < e.id
    BY <2>1, <2>2 DEF KnownIn, Known
  <2>4. MessageOf(posted, n) = Message(n)
    BY <1>1, <2>3, ListedGood
  <2>5. ~Pend(events, n)
    BY DEF AtRest, Pend
  <2> QED
    BY <2>1, <2>2, <2>3, <2>4, <2>5 DEF Fresh, Has
<1> QED
  BY <1>1, InvCorrect, PTL

\* A message of somebody else is listed once, in one version, whichever of the
\* page, the event and a load-more brought it.
THEOREM ChatListedOnce == Spec => []ListedOnce
<1>1. ASSUME Inv PROVE ListedOnce
  BY <1>1, ListedGood DEF ListedOnce, GoodList, PeerOnce
<1> QED
  BY <1>1, InvCorrect, PTL

\* Of two loops of handleLoadMore that scrolling started, and that are under way
\* together, one is past its first attempt, unless isLoadingRef was cleared by a
\* list that had become empty. What Retry of the toast starts is left out.
THEOREM ChatOneLoop == Spec => []OneLoop
<1>1. ASSUME Inv PROVE OneLoop
  BY <1>1 DEF Inv, LoadInv
<1> QED
  BY <1>1, InvCorrect, PTL

\* isLoadingRef is held with nothing under way only after a second page of
\* history was asked for: the first always releases it.
THEOREM ChatGuardReleased == Spec => []GuardReleased
<1>1. ASSUME Inv PROVE GuardReleased
  <2>1. LoadInv /\ lazy \in {"unused", "loading", "used"}
    BY <1>1 DEF Inv, TypeInv, LoadType
  <2> QED
    BY <2>1 DEF LoadInv, GuardReleased
<1> QED
  BY <1>1, InvCorrect, PTL

\* Whoever is shown as typing has a timer that ends it, unless the connection
\* changed in between and took the timers with it.
THEOREM ChatTypingEnds == Spec => []TypingEnds
<1>1. ASSUME Inv PROVE TypingEnds
  BY <1>1 DEF Inv
<1> QED
  BY <1>1, InvCorrect, PTL
=============================================================================
