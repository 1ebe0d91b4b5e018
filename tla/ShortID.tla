------------------------------ MODULE ShortID -------------------------------
(* shortid/shortid.go: ids made of the milliseconds since the epoch, the number of the worker  *)
(* and a count of the ids of the same millisecond, each cut into groups of bits that index a   *)
(* shuffled alphabet. The random bits above the groups of time and worker are left out: ids may *)
(* draw the same ones, and then nothing else tells them apart. Goroutines share a default       *)
(* generator, which may be replaced while they use it. The sizes are scaled down: the code has  *)
(* 8 symbols of 5 bits for the time, one for the worker, 6 bits a symbol of the count.          *)
EXTENDS Integers, Sequences, FiniteSets, Bits

CONSTANTS Goroutines,
          Generators,  \* the generators that may become the default
          Worker,      \* Worker[g] is the worker number of generator g
          First,       \* the default generator at the start
          ABC,         \* the alphabet, a sequence of different letters
          Seed,        \* shuffles it
          MsSymbols, Digits, CountDigits,
          MaxMs,       \* bound: how far the clock goes
          MaxCount     \* bound: how many ids of one millisecond are counted

\* Different workers, letters enough for a group of bits and none of them twice.
ASSUME ShortidAssumption ==
  /\ {MsSymbols, Digits, CountDigits} \subseteq Nat \ {0} /\ {Seed, MaxMs, MaxCount} \subseteq Nat
  /\ ABC \in Seq({ABC[i] : i \in DOMAIN ABC}) /\ \A i, j \in 1..Len(ABC) : ABC[i] = ABC[j] => i = j
  /\ Len(ABC) >= Shift[Digits] /\ Len(ABC) >= Shift[CountDigits]
  /\ First \in Generators /\ \A g \in Generators : Worker[g] \in 0 .. Shift[Digits] - 1
  /\ \A g, h \in Generators : Worker[g] = Worker[h] => g = h

VARIABLES clock,      \* milliseconds since the epoch; negative before it
          steppedBack, \* history: the clock was set back
          generator,  \* [ms, count] of each generator
          default,    \* the package variable shortid
          using,      \* the generator a goroutine has read from it, or <<>>
          witness,    \* history: one of the ids returned so far, any of them, or <<>>
          repeated    \* history: that id was returned again

shortidVars == <<clock, steppedBack, generator, default, using, witness, repeated>>

-----------------------------------------------------------------------------
(* The alphabet of all generators: the seed must be the same for all of them. *)

Without(s, i) == [j \in 1 .. Len(s) - 1 |-> IF j < i THEN s[j] ELSE s[j + 1]]

\* A round of shuffle takes one letter; the seed follows the congruential sequence.
Modulus == 233280
NextSeed(seed) == (seed * 9301 + 49297) % Modulus
Drawn(r) ==
  LET next == NextSeed(r.seed)
      i == IF Len(r.source) = 1 THEN 1 ELSE 1 + (next * Len(r.source)) \div Modulus
  IN  [seed |-> next, source |-> Without(r.source, i), abc |-> Append(r.abc, r.source[i])]
shuffle[k \in 0 .. Len(ABC)] ==
  IF k = 0 THEN [seed |-> Seed, source |-> ABC, abc |-> <<>>] ELSE Drawn(shuffle[k - 1])
abc == shuffle[Len(ABC)].abc

-----------------------------------------------------------------------------
(* Ids *)

ShortidTypeOK ==
  /\ clock \in -1..MaxMs /\ steppedBack \in BOOLEAN /\ repeated \in BOOLEAN
  /\ generator \in [Generators -> [ms : -1..MaxMs, count : 0..MaxCount]]
  /\ default \in Generators
  /\ using \in [Goroutines -> {<<>>} \cup {<<g>> : g \in Generators}]
  /\ witness = <<>> \/ Len(witness) > MsSymbols

ShortidInit ==
  /\ clock \in {-1, 0} /\ steppedBack = FALSE
  /\ generator = [g \in Generators |-> [ms |-> 0, count |-> 0]]
  /\ default = First
  /\ using = [r \in Goroutines |-> <<>>]
  /\ witness = <<>> /\ repeated = FALSE

log2(n) == CHOOSE k \in 0..n : Shift[k] <= n /\ n < Shift[k + 1]
Size(val, digits) == IF val >= 1 THEN (log2(val) \div digits) + 1 ELSE 1

\* The symbols of val: its groups of bits, lowest first.
Encode(val, nsymbols, digits) ==
  [i \in 1..nsymbols |-> abc[1 + Group(val, digits, i - 1)]]
\* Mutant: the highest bits are dropped.
FitsTruncated(val, nsymbols, digits) == val >= 0

Fits(val, nsymbols, digits) == val >= 0 /\ Size(val, digits) <= nsymbols

getMsAndCounter(g) ==
  IF clock = generator[g].ms THEN [ms |-> clock, count |-> generator[g].count + 1]
  ELSE [ms |-> clock, count |-> 0]

Id(g, at) ==
  Encode(at.ms, MsSymbols, Digits) \o Encode(Worker[g], 1, Digits)
  \o IF at.count > 0 THEN Encode(at.count, Size(at.count, CountDigits), CountDigits) ELSE <<>>

\* Generate reads the default generator and then calls it.
LoadDefault(r) ==
  /\ using[r] = <<>>
  /\ using' = [using EXCEPT ![r] = <<default>>]
  /\ UNCHANGED <<clock, steppedBack, generator, default, witness, repeated>>

\* Before the epoch the unsigned time is far too large to be encoded, and so it is after
\* the range of MsSymbols: the generator has moved on but no id is returned.
Generate(r) ==
  /\ using[r] # <<>> /\ getMsAndCounter(using[r][1]).count <= MaxCount
  /\ using' = [using EXCEPT ![r] = <<>>]
  /\ LET g == using[r][1]
         at == getMsAndCounter(g)
     IN  /\ generator' = [generator EXCEPT ![g] = at]
         /\ \/ /\ ~Fits(at.ms, MsSymbols, Digits)
               /\ UNCHANGED <<witness, repeated>>
            \/ /\ Fits(at.ms, MsSymbols, Digits)
               /\ witness' \in {witness, Id(g, at)}
               /\ repeated' = (repeated \/ Id(g, at) = witness)
  /\ UNCHANGED <<clock, steppedBack, default>>

SetDefault(g) ==
  /\ default' = g
  /\ UNCHANGED <<clock, steppedBack, generator, using, witness, repeated>>

\* The wall clock goes on, or is set back.
ClockMoves(ms) ==
  /\ clock' = ms
  /\ steppedBack' = (steppedBack \/ ms < clock)
  /\ UNCHANGED <<generator, default, using, witness, repeated>>

ShortidNext ==
  \/ \E r \in Goroutines : LoadDefault(r) \/ Generate(r)
  \/ \E g \in Generators : SetDefault(g)
  \/ \E ms \in -1..MaxMs : ClockMoves(ms)

ShortidSpec == ShortidInit /\ [][ShortidNext]_shortidVars

-----------------------------------------------------------------------------
\* No id is returned twice, also if the random bits are the same, while the clock is not set back: not
\* by two goroutines in one millisecond, not by the old and the new default generator of
\* different workers, not when the time no longer fits its symbols.
IdsAreUnique == ~steppedBack => ~repeated
=============================================================================
