----------------------------- MODULE Pagination -----------------------------
(***************************************************************************)
(* The page arithmetic of the forum's list_threads and get_thread handlers *)
(* (src/examples/forum/src/server.rs 131-143 and 165-175):                 *)
(*                                                                         *)
(*   page     = params.page.unwrap_or(1)                                   *)
(*   per_page = params.per_page.unwrap_or(default).min(100)                *)
(*   start    = ((page - 1) * per_page) as usize                           *)
(*   items.skip(start).take(per_page)                                      *)
(*                                                                         *)
(* page and per_page are u32, W bits wide.  A debug build panics when the  *)
(* subtraction or the product overflows; a release build wraps modulo      *)
(* 2^W.  Which build runs is not fixed by the source, so an overflowing    *)
(* request has both outcomes.  The result is checked against the page a    *)
(* request names in unbounded arithmetic.                                  *)
(***************************************************************************)
EXTENDS Integers, Sequences

CONSTANTS
  W,              \* width of u32 (32; scaled down for TLC)
  MaxLen,         \* longest list
  PageInputs,     \* values of the page query parameter (None: absent)
  PerPageInputs,  \* values of the per_page query parameter (None: absent)
  None,
  Panic           \* the handler panicked: the connection closes, no response

ASSUME W \in Nat \ {0} /\ MaxLen \in Nat

VARIABLES
  handler,   \* "list" (list_threads) or "thread" (get_thread)
  len,       \* length of the list paged: threads, or a thread's replies
  rawPage,   \* the page query parameter
  rawPer     \* the per_page query parameter

vars == <<handler, len, rawPage, rawPer>>

Modulus == 2^W

MinOf(x, y) == IF x < y THEN x ELSE y

\* unwrap_or(20) in list_threads, unwrap_or(50) in get_thread.
DefaultPerPage(h) == IF h = "list" THEN 20 ELSE 50

PageOf(raw) == IF raw = None THEN 1 ELSE raw

PerPageOf(h, raw) == MinOf(IF raw = None THEN DefaultPerPage(h) ELSE raw, 100)

\* Does (page - 1) * per_page overflow u32?
Overflows(pg, pp) == pg = 0 \/ (pg - 1) * pp >= Modulus

\* ((page - 1) * per_page) with wrapping u32 arithmetic (release build).
Start(pg, pp) == (((pg - 1) % Modulus) * pp) % Modulus

\* iter().skip(k).take(n)
SkipTake(s, k, n) == SubSeq(s, k + 1, MinOf(k + n, Len(s)))

\* What the handler returns for the items s.
Paged(s, pg, pp) == SkipTake(s, Start(pg, pp), pp)

\* The responses a build can produce: a debug build panics on overflow.
Outcomes(s, h, rp, rpp) ==
  LET pg == PageOf(rp)
      pp == PerPageOf(h, rpp)
  IN IF Overflows(pg, pp) THEN {Panic, Paged(s, pg, pp)} ELSE {Paged(s, pg, pp)}

\* The page a request names: items (page-1)*per_page+1 .. page*per_page in
\* unbounded arithmetic; page 0 names no items.
Reference(s, pg, pp) ==
  IF pg = 0 THEN <<>>
  ELSE SubSeq(s, (pg - 1) * pp + 1, MinOf(pg * pp, Len(s)))

Items == [i \in 1..len |-> i]

Init ==
  /\ handler \in {"list", "thread"}
  /\ len \in 0..MaxLen
  /\ rawPage \in PageInputs
  /\ rawPer \in PerPageInputs

Next == UNCHANGED vars

Spec == Init /\ [][Next]_vars

-----------------------------------------------------------------------------
\* Every request gets the page it names or no response at all: no build
\* answers a page past the end with items from an earlier page.
ResponseIsNamedPage ==
  \A o \in Outcomes(Items, handler, rawPage, rawPer) :
    o \in {Panic, Reference(Items, PageOf(rawPage), PerPageOf(handler, rawPer))}
=============================================================================
