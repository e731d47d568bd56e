---------------------------- MODULE SystemProofs ----------------------------
(***************************************************************************)
(* Proofs about System, for any devices with any attributes, read in any   *)
(* order: an undisturbed scan shows the right devices with the nearest     *)
(* percentages, and a percentage that was set is the one that is shown.    *)
(*                                                                         *)
(* The argument: as long as no device has changed since the scan began,    *)
(* what it has found so far is the first, and of backlights the best, of   *)
(* the entries it has read so far.                                         *)
(***************************************************************************)
EXTENDS System, TLAPS

UsableSupplies(Q) == {n \in Q : supplies[n] # None /\ IsBattery(supplies[n])}
UsableBacklights(Q) == {n \in Q : backlights[n] # None /\ IsBacklight(backlights[n])}

\* shown is what find_battery finds among the entries Q.
BatteryOf(shown, Q) ==
    /\ UsableSupplies(Q) = {} => shown = NoBattery
    /\ UsableSupplies(Q) # {} =>
         /\ shown.device \in UsableSupplies(Q)
         /\ \A n \in UsableSupplies(Q) : shown.device <= n
         /\ shown.capacity = BatteryCapacity(supplies[shown.device])

\* m is preferred to n, or is n.
Preferred(m, n) ==
    \/ Rank(backlights[m]) > Rank(backlights[n])
    \/ Rank(backlights[m]) = Rank(backlights[n]) /\ m <= n

\* shown is what find_backlight finds among the entries Q.
BrightnessOf(shown, Q) ==
    /\ UsableBacklights(Q) = {} => shown = NoBrightness
    /\ UsableBacklights(Q) # {} =>
         /\ shown.device \in UsableBacklights(Q)
         /\ LET b == backlights[shown.device] IN
              /\ shown.rank = Rank(b)
              /\ shown.set = b.writable
              /\ shown.percent = Rounded(CurrentBrightness(b), b.max)
         /\ \A n \in UsableBacklights(Q) : Preferred(shown.device, n)

\* Types.
TypeOK ==
    /\ supplies \in [Name -> Supply \cup {None}]
    /\ backlights \in [Name -> BacklightType \cup {None}]
    /\ pc \in {"sleep", "supplies", "backlights"}
    /\ entries \subseteq Name
    /\ disturbed \in BOOLEAN
    /\ battery.device \in Name \cup {0}
    /\ brightness.device \in Name \cup {0}
    /\ published.brightness.device \in Name \cup {0}

\* The scan so far, and its result.
ScanRight ==
    /\ pc = "supplies" /\ ~disturbed =>
         BatteryOf(battery, Name \ entries) /\ brightness = NoBrightness
    /\ pc = "backlights" /\ ~disturbed =>
         BatteryOf(battery, Name) /\ BrightnessOf(brightness, Name \ entries)
    /\ pc = "sleep" /\ ~disturbed =>
         /\ published.available
         /\ BatteryOf(published.battery, Name) /\ BrightnessOf(published.brightness, Name)

\* The device that was written last still has what was written.
WriteKept ==
    asked # None =>
      /\ asked.device \in Name /\ asked.percent \in 0..100
      /\ LET b == backlights[asked.device] IN
           /\ b \in BacklightType /\ b.max \in Int /\ b.max > 0
           /\ b.brightness = RawBrightness(b.max, asked.percent)

Inv == TypeOK /\ ScanRight /\ WriteKept

-----------------------------------------------------------------------------
(* Percentages.                                                            *)

\* Whole division, by its bounds.
LEMMA Division ==
    ASSUME NEW a \in Nat, NEW b \in Nat, b > 0
    PROVE  /\ a \div b \in Nat
           /\ b * (a \div b) <= a /\ a < b * (a \div b) + b
           /\ \A q \in Int : b * q <= a /\ a < b * q + b => a \div b = q
  OBVIOUS

\* Rounded is the nearest percentage, half a percent up, or a hundred.
LEMMA RoundedNearest ==
    ASSUME NEW now \in Nat, NEW full \in Nat, full > 0
    PROVE  IF now > full THEN Rounded(now, full) = 100
           ELSE Nearest(Rounded(now, full), now, full)
<1>1. CASE now > full
  BY <1>1 DEF Rounded
<1>2. CASE now <= full
  <2> DEFINE p == (now * 200 + full) \div (2 * full)
  <2>1. now * 200 + full \in Nat /\ 2 * full \in Nat /\ 2 * full > 0
    OBVIOUS
  <2>2. /\ p \in Nat
        /\ (2 * full) * p <= now * 200 + full
        /\ now * 200 + full < (2 * full) * p + 2 * full
    BY <2>1, Division
  <2> HIDE DEF p
  <2>3. /\ (2 * full) * p = 2 * (p * full)
        /\ (2 * p - 1) * full = 2 * (p * full) - full
        /\ (2 * p + 1) * full = 2 * (p * full) + full
        /\ p * full \in Int
    BY <2>2
  <2>4. (2 * p - 1) * full <= 200 * now /\ 200 * now < (2 * p + 1) * full
    BY <2>2, <2>3
  <2>5. p <= 100
    <3>1. SUFFICES ASSUME p >= 101 PROVE FALSE
      BY <2>2
    <3>2. p * full >= 101 * full
      BY <2>2, <3>1
    <3>3. QED
      BY <1>2, <2>2, <2>3, <3>2
  <2>6. Rounded(now, full) = p
    BY <1>2 DEF Rounded, p
  <2>7. QED
    BY <1>2, <2>2, <2>4, <2>5, <2>6 DEF Nearest
<1>3. QED
  BY <1>1, <1>2

\* What lset_brightness writes is a brightness, and not darkness unless
\* darkness was asked for.
LEMMA RawPositive ==
    ASSUME NEW max \in Nat, NEW percent \in 0..100
    PROVE  /\ RawBrightness(max, percent) \in Nat
           /\ percent > 0 => RawBrightness(max, percent) > 0
<1>1. 2 * max * percent + 100 \in Nat
  OBVIOUS
<1>2. (2 * max * percent + 100) \div 200 \in Nat
  BY <1>1, Division
<1>3. QED
  BY <1>2 DEF RawBrightness

\* A device with a hundred levels or more shows the percentage that was set.
LEMMA RoundTrip ==
    ASSUME NEW max \in Nat, max >= 100, NEW percent \in 0..100
    PROVE  Rounded(RawBrightness(max, percent), max) = percent
<1> DEFINE x == max * percent
           raw == (2 * max * percent + 100) \div 200
<1>1. 2 * max * percent = 2 * x /\ x \in Nat
  OBVIOUS
<1>2. raw \in Nat /\ 200 * raw <= 2 * x + 100 /\ 2 * x + 100 < 200 * raw + 200
  BY <1>1, Division
<1>3. percent > 0 => x >= 100
  OBVIOUS
<1>4. x <= max * 100
  OBVIOUS
<1>5. max = 100 => x = 100 * percent
  OBVIOUS
<1>6. (2 * max) * percent = 2 * x /\ 2 * max > 0
  OBVIOUS
<1> HIDE DEF x
<1>7. RawBrightness(max, percent) = raw
  <2>1. percent > 0 => raw # 0
    BY <1>2, <1>3
  <2>2. QED
    BY <2>1 DEF RawBrightness
<1> HIDE DEF raw
<1>8. raw <= max
  BY <1>1, <1>2, <1>4
<1>9. raw * 200 + max >= 2 * x
  BY <1>1, <1>2
<1>10. raw * 200 + max < 2 * x + 2 * max
  <2>1. CASE max = 100
    BY <1>1, <1>2, <1>5, <2>1
  <2>2. CASE max > 100
    BY <1>1, <1>2, <2>2
  <2>3. QED
    BY <2>1, <2>2
<1>11. (raw * 200 + max) \div (2 * max) = percent
  BY <1>2, <1>6, <1>9, <1>10, Division
<1>12. QED
  BY <1>2, <1>7, <1>8, <1>11 DEF Rounded

-----------------------------------------------------------------------------
(* The choice of devices.                                                  *)

\* What one turn of find_battery makes of the battery found so far.
NextBattery(n) ==
    LET s == supplies[n] IN
    IF s # None /\ IsBattery(s) /\ BetterBattery(n)
    THEN [device |-> n, capacity |-> BatteryCapacity(s),
          status |-> IF s.status = None THEN "Unknown" ELSE s.status]
    ELSE battery

\* What one turn of find_backlight makes of the backlight found so far.
NextBrightness(n) ==
    LET b == backlights[n] IN
    IF b # None /\ IsBacklight(b) /\ BetterBacklight(n, Rank(b))
    THEN [device |-> n, percent |-> Rounded(CurrentBrightness(b), b.max),
          rank |-> Rank(b), set |-> b.writable]
    ELSE brightness

\* One turn of find_battery finds the first of one entry more.
LEMMA BatteryStep ==
    ASSUME NEW Q, Q \subseteq Name, NEW n \in Name, BatteryOf(battery, Q)
    PROVE  BatteryOf(NextBattery(n), Q \cup {n})
<1>1. \A m \in Name : m \in Nat /\ m # 0
  BY NameAssumption
<1>2. CASE ~(supplies[n] # None /\ IsBattery(supplies[n]))
  <2>1. NextBattery(n) = battery
    BY <1>2 DEF NextBattery
  <2>2. UsableSupplies(Q \cup {n}) = UsableSupplies(Q)
    BY <1>2 DEF UsableSupplies
  <2>3. QED
    BY <2>1, <2>2 DEF BatteryOf
<1>3. CASE supplies[n] # None /\ IsBattery(supplies[n])
  <2>1. UsableSupplies(Q \cup {n}) = UsableSupplies(Q) \cup {n} /\ UsableSupplies(Q) \subseteq Name
    BY <1>3 DEF UsableSupplies
  <2>2. CASE BetterBattery(n)
    <3>1. NextBattery(n).device = n /\ NextBattery(n).capacity = BatteryCapacity(supplies[n])
      BY <1>3, <2>2 DEF NextBattery
    <3>2. \A m \in UsableSupplies(Q) : n <= m
      <4>1. CASE UsableSupplies(Q) = {}
        BY <4>1
      <4>2. CASE UsableSupplies(Q) # {}
        <5>1. /\ battery.device \in UsableSupplies(Q)
              /\ \A m \in UsableSupplies(Q) : battery.device <= m
          BY <4>2 DEF BatteryOf
        <5>2. n < battery.device
          BY <1>1, <2>1, <2>2, <5>1 DEF BetterBattery
        <5>3. QED
          BY <1>1, <2>1, <5>1, <5>2
      <4>3. QED
        BY <4>1, <4>2
    <3>3. \A m \in UsableSupplies(Q \cup {n}) : n <= m
      BY <1>1, <2>1, <3>2
    <3>4. QED
      BY <2>1, <3>1, <3>3 DEF BatteryOf
  <2>3. CASE ~BetterBattery(n)
    <3>1. NextBattery(n) = battery
      BY <2>3 DEF NextBattery
    <3>2. battery.device # 0
      BY <2>3 DEF BetterBattery
    <3>3. UsableSupplies(Q) # {}
      BY <3>2 DEF BatteryOf, NoBattery
    <3>4. /\ battery.device \in UsableSupplies(Q)
          /\ \A m \in UsableSupplies(Q) : battery.device <= m
          /\ battery.capacity = BatteryCapacity(supplies[battery.device])
      BY <3>3 DEF BatteryOf
    <3>5. battery.device <= n
      BY <1>1, <2>1, <2>3, <3>4 DEF BetterBattery
    <3>6. QED
      BY <2>1, <3>1, <3>4, <3>5 DEF BatteryOf
  <2>4. QED
    BY <2>2, <2>3
<1>4. QED
  BY <1>2, <1>3

\* The rank of a kind of backlight.
LEMMA Ranks == ASSUME NEW b PROVE Rank(b) \in 0..3
  BY DEF Rank

\* One turn of find_backlight finds the best of one entry more.
LEMMA BrightnessStep ==
    ASSUME NEW Q, Q \subseteq Name, NEW n \in Name, BrightnessOf(brightness, Q)
    PROVE  BrightnessOf(NextBrightness(n), Q \cup {n})
<1> DEFINE U == UsableBacklights(Q)
           V == UsableBacklights(Q \cup {n})
           d == brightness.device
<1>1. \A m \in Name : m \in Nat /\ m # 0 /\ Rank(backlights[m]) \in 0..3
  BY NameAssumption, Ranks
<1>2. CASE ~(backlights[n] # None /\ IsBacklight(backlights[n]))
  <2>1. NextBrightness(n) = brightness
    BY <1>2 DEF NextBrightness
  <2>2. V = U
    BY <1>2 DEF UsableBacklights
  <2>3. QED
    BY <2>1, <2>2 DEF BrightnessOf
<1>3. CASE backlights[n] # None /\ IsBacklight(backlights[n])
  <2>1. V = U \cup {n} /\ U \subseteq Name
    BY <1>3 DEF UsableBacklights
  <2>2. U # {} => /\ d \in U
                  /\ brightness.rank = Rank(backlights[d])
                  /\ \A m \in U : Preferred(d, m)
    BY DEF BrightnessOf
  <2>3. CASE BetterBacklight(n, Rank(backlights[n]))
    <3> DEFINE found == NextBrightness(n)
    <3>1. /\ found.device = n /\ found.rank = Rank(backlights[n])
          /\ found.set = backlights[n].writable
          /\ found.percent = Rounded(CurrentBrightness(backlights[n]), backlights[n].max)
      BY <1>3, <2>3 DEF NextBrightness
    <3>2. ASSUME NEW m \in V
          PROVE  Preferred(n, m)
      <4>1. CASE m = n
        BY <1>1, <4>1 DEF Preferred
      <4>2. CASE m # n
        <5>1. m \in U /\ d \in U /\ Preferred(d, m) /\ brightness.rank = Rank(backlights[d])
          BY <2>1, <2>2, <3>2, <4>2
        <5>2. d # 0 /\ d \in Name /\ m \in Name
          BY <1>1, <2>1, <5>1
        <5>3. \/ Rank(backlights[n]) > Rank(backlights[d])
              \/ Rank(backlights[n]) = Rank(backlights[d]) /\ n < d
          BY <2>3, <5>1, <5>2 DEF BetterBacklight
        <5>4. QED
          BY <1>1, <5>1, <5>2, <5>3 DEF Preferred
      <4>3. QED
        BY <4>1, <4>2
    <3> HIDE DEF found
    <3>3. n \in V
      BY <2>1
    <3> HIDE DEF V
    <3>4. BrightnessOf(found, Q \cup {n})
      BY <3>1, <3>2, <3>3 DEF BrightnessOf, V
    <3>5. QED
      BY <3>4 DEF found
  <2>4. CASE ~BetterBacklight(n, Rank(backlights[n]))
    <3>1. NextBrightness(n) = brightness
      BY <2>4 DEF NextBrightness
    <3>2. d # 0
      BY <2>4 DEF BetterBacklight
    <3>3. U # {}
      BY <3>2 DEF BrightnessOf, NoBrightness
    <3>4. Preferred(d, n)
      BY <1>1, <2>1, <2>2, <2>4, <3>3 DEF BetterBacklight, Preferred
    <3>5. \A m \in V : Preferred(d, m)
      BY <2>1, <2>2, <3>3, <3>4
    <3>6. BrightnessOf(brightness, Q \cup {n})
      BY <2>1, <3>3, <3>5 DEF BrightnessOf
    <3>7. QED
      BY <3>1, <3>6
  <2>5. QED
    BY <2>3, <2>4
<1>4. QED
  BY <1>2, <1>3

-----------------------------------------------------------------------------
(* The invariant.                                                          *)

\* What was found stays right while the devices stay as they are.
LEMMA FoundSame ==
    ASSUME UNCHANGED tree, NEW shown, NEW Q
    PROVE  /\ BatteryOf(shown, Q)' = BatteryOf(shown, Q)
           /\ BrightnessOf(shown, Q)' = BrightnessOf(shown, Q)
  BY DEF tree, BatteryOf, BrightnessOf, UsableSupplies, UsableBacklights, Preferred

\* A scan that begins has read no entry that counts.
LEMMA BeginKeeps ==
    ASSUME TypeOK, BeginScan, UNCHANGED <<supplies, published>>,
           backlights' \in [Name -> BacklightType \cup {None}]
    PROVE  TypeOK' /\ ScanRight'
<1>1. /\ pc' = "supplies" /\ entries' = Entries(supplies) /\ disturbed' = FALSE
      /\ battery' = NoBattery /\ brightness' = NoBrightness
  BY DEF BeginScan
<1>2. TypeOK'
  BY <1>1 DEF TypeOK, Entries, NoBattery, NoBrightness
<1>3. UsableSupplies(Name \ entries)' = {}
  BY <1>1 DEF UsableSupplies, Entries
<1>4. ScanRight'
  BY <1>1, <1>3 DEF ScanRight, BatteryOf
<1>5. QED
  BY <1>2, <1>4

\* set-brightness: what was written is what was asked for.
LEMMA DispatchKeeps ==
    ASSUME Inv, NEW percent \in Asked, Dispatch(percent)
    PROVE  Inv'
<1> DEFINE n == published.brightness.device
           b == backlights[n]
           raw == RawBrightness(b.max, percent)
<1>1. /\ n # 0 /\ b # None /\ b.max # None /\ b.max > 0
      /\ asked' = [device |-> n, percent |-> percent]
      /\ UNCHANGED <<supplies, published>> /\ BeginScan
  BY DEF Dispatch, Settable
<1>2. PICK seen \in IF b.actual = None THEN {None} ELSE {b.actual, raw} :
        backlights' = [backlights EXCEPT ![n].brightness = raw, ![n].actual = seen]
  BY DEF Dispatch
<1>3. /\ n \in Name /\ b \in BacklightType /\ b.max \in Nat /\ b.max > 0
      /\ percent \in 0..100
  BY <1>1, AskedAssumption DEF Inv, TypeOK, BacklightType, Number
<1>4. raw \in Nat
  BY <1>3, RawPositive
<1>5. seen \in Number
  BY <1>3, <1>4 DEF BacklightType, Number
<1> HIDE DEF raw
<1>6. /\ backlights'[n] = [b EXCEPT !.brightness = raw, !.actual = seen]
      /\ \A m \in Name : m # n => backlights'[m] = backlights[m]
      /\ backlights' = [m \in Name |-> backlights'[m]]
  <2> DEFINE written == [b EXCEPT !.brightness = raw]
             half == [backlights EXCEPT ![n] = written]
  <2>1. backlights \in [Name -> BacklightType \cup {None}]
    BY DEF Inv, TypeOK
  <2>2. /\ half = [m \in Name |-> half[m]] /\ half[n] = written
        /\ \A m \in Name : m # n => half[m] = backlights[m]
    BY <1>3, <2>1
  <2>3. backlights' = [half EXCEPT ![n] = [written EXCEPT !.actual = seen]]
    BY <1>2, <1>3, <2>1, <2>2
  <2> HIDE DEF half
  <2>4. QED
    BY <1>3, <2>2, <2>3
<1>7. /\ backlights'[n] \in BacklightType
      /\ backlights'[n].max = b.max /\ backlights'[n].brightness = raw
  <2> DEFINE c == backlights'[n]
             written == [b EXCEPT !.brightness = raw]
  <2>1. raw \in Number
    BY <1>4 DEF Number
  <2>2. written \in BacklightType /\ written.max = b.max /\ written.brightness = raw
    BY <1>3, <2>1 DEF BacklightType
  <2>3. c = [written EXCEPT !.actual = seen]
    BY <1>6
  <2> HIDE DEF written, c, b
  <2>4. c \in BacklightType /\ c.max = written.max /\ c.brightness = written.brightness
    BY <1>5, <2>2, <2>3 DEF BacklightType
  <2>5. QED
    BY <2>2, <2>4 DEF c
<1>8. backlights' \in [Name -> BacklightType \cup {None}]
  BY <1>6, <1>7 DEF Inv, TypeOK
<1>9. TypeOK' /\ ScanRight'
  BY <1>1, <1>8, BeginKeeps DEF Inv
<1>10. WriteKept'
  BY <1>1, <1>3, <1>7 DEF WriteKept, raw
<1>11. QED
  BY <1>9, <1>10 DEF Inv

\* A write that fails half-way leaves some number in the file, and what is
\* shown is no longer claimed to be right.
LEMMA WriteFailsKeeps ==
    ASSUME Inv, NEW percent \in Asked, WriteFails(percent)
    PROVE  Inv'
<1> DEFINE n == published.brightness.device
           b == backlights[n]
           raw == RawBrightness(b.max, percent)
<1>1. /\ n # 0 /\ b # None /\ b.max # None /\ b.max > 0
      /\ asked' = None /\ disturbed' = TRUE
      /\ UNCHANGED <<supplies, pc, entries, battery, brightness, published>>
  BY DEF WriteFails, Settable
<1>2. PICK left \in {raw, raw \div 10} :
        backlights' = [backlights EXCEPT ![n].brightness = left]
  BY DEF WriteFails
<1>3. /\ n \in Name /\ b \in BacklightType /\ b.max \in Nat /\ b.max > 0
      /\ percent \in 0..100
  BY <1>1, AskedAssumption DEF Inv, TypeOK, BacklightType, Number
<1>4. raw \in Nat
  BY <1>3, RawPositive
<1> HIDE DEF raw
<1>5. left \in Number
  BY <1>2, <1>4 DEF Number
<1>6. [b EXCEPT !.brightness = left] \in BacklightType
  BY <1>3, <1>5 DEF BacklightType
<1>7. backlights' \in [Name -> BacklightType \cup {None}]
  <2>1. backlights' = [backlights EXCEPT ![n] = [b EXCEPT !.brightness = left]]
    BY <1>2
  <2>2. QED
    BY <1>6, <2>1 DEF Inv, TypeOK
<1>8. TypeOK'
  BY <1>1, <1>7 DEF Inv, TypeOK
<1>9. QED
  BY <1>1, <1>8 DEF Inv, ScanRight, WriteKept

\* Devices change by themselves: the scan counts as disturbed, and a
\* brightness that settles is the one that was written.
LEMMA DevicesKeep ==
    ASSUME Inv, Change \/ Settle
    PROVE  Inv'
<1>1. /\ disturbed' = TRUE
      /\ UNCHANGED <<pc, entries, battery, brightness, published>>
  BY DEF Change, Settle
<1>2. ScanRight'
  BY <1>1 DEF ScanRight
<1>3. CASE Change
  <2>1. PICK n \in Name :
         \/ /\ \E s \in (Supply \cup {None}) \ {supplies[n]} :
                 supplies' = [supplies EXCEPT ![n] = s]
            /\ UNCHANGED <<backlights, asked>>
         \/ /\ \E b \in (Backlight \cup {None}) \ {backlights[n]} :
                 backlights' = [backlights EXCEPT ![n] = b]
            /\ asked' = None
            /\ UNCHANGED supplies
    BY <1>3 DEF Change
  <2>2. /\ supplies' \in [Name -> Supply \cup {None}]
        /\ backlights' \in [Name -> BacklightType \cup {None}]
    BY <2>1, DeviceAssumption DEF Inv, TypeOK
  <2>3. TypeOK'
    BY <1>1, <2>2 DEF Inv, TypeOK
  <2>4. WriteKept'
    BY <2>1 DEF Inv, WriteKept
  <2>5. QED
    BY <1>2, <2>3, <2>4 DEF Inv
<1>4. CASE Settle
  <2>1. PICK n \in Entries(backlights) :
         /\ backlights[n].brightness # None
         /\ backlights' = [backlights EXCEPT ![n].actual = backlights[n].brightness]
    BY <1>4 DEF Settle
  <2>2. n \in Name /\ backlights[n] \in BacklightType
    BY <2>1 DEF Inv, TypeOK, Entries
  <2>3. /\ backlights'[n] = [backlights[n] EXCEPT !.actual = backlights[n].brightness]
        /\ \A m \in Name : m # n => backlights'[m] = backlights[m]
        /\ backlights' = [m \in Name |-> backlights'[m]]
    BY <2>1, <2>2 DEF Inv, TypeOK
  <2>4. /\ backlights'[n] \in BacklightType
        /\ backlights'[n].max = backlights[n].max
        /\ backlights'[n].brightness = backlights[n].brightness
    BY <2>2, <2>3 DEF BacklightType
  <2>5. backlights' \in [Name -> BacklightType \cup {None}]
    BY <2>3, <2>4 DEF Inv, TypeOK
  <2>6. UNCHANGED <<supplies, asked>>
    BY <1>4 DEF Settle
  <2>7. TypeOK'
    BY <1>1, <2>5, <2>6 DEF Inv, TypeOK
  <2>8. WriteKept'
    BY <2>3, <2>4, <2>6 DEF Inv, WriteKept
  <2>9. QED
    BY <1>2, <2>7, <2>8 DEF Inv
<1>5. QED
  BY <1>3, <1>4

\* The turns of a scan.
LEMMA ScanKeeps ==
    ASSUME Inv, Scan \/ RefreshFails \/ UNCHANGED vars
    PROVE  Inv'
<1>1. UNCHANGED <<tree, asked>>
  BY DEF Scan, Refresh, ReadSupply, NextDirectory, ReadBacklight, Publish, RefreshFails, vars
<1>2. WriteKept'
  BY <1>1 DEF Inv, WriteKept, tree
<1>3. CASE Refresh
  <2>1. BeginScan /\ UNCHANGED <<supplies, published>>
        /\ backlights' \in [Name -> BacklightType \cup {None}]
    BY <1>1, <1>3 DEF Refresh, tree, Inv, TypeOK
  <2>2. QED
    BY <1>2, <2>1, BeginKeeps DEF Inv
<1>4. CASE ReadSupply
  <2>1. PICK n \in entries : entries' = entries \ {n} /\ battery' = NextBattery(n)
    BY <1>4 DEF ReadSupply, NextBattery
  <2>2. pc = "supplies" /\ UNCHANGED <<pc, brightness, published, disturbed>>
    BY <1>4 DEF ReadSupply
  <2>3. n \in Name /\ Name \ entries' = (Name \ entries) \cup {n}
    BY <2>1 DEF Inv, TypeOK
  <2>4. battery'.device \in Name \cup {0}
    BY <2>1, <2>3 DEF NextBattery, Inv, TypeOK
  <2>5. TypeOK'
    BY <1>1, <2>1, <2>2, <2>4 DEF Inv, TypeOK, tree
  <2>6. ASSUME ~disturbed
        PROVE  BatteryOf(battery, Name \ entries)' /\ brightness' = NoBrightness
    <3>1. BatteryOf(battery, Name \ entries) /\ brightness = NoBrightness
      BY <2>2, <2>6 DEF Inv, ScanRight
    <3>2. BatteryOf(NextBattery(n), (Name \ entries) \cup {n})
      BY <2>3, <3>1, BatteryStep
    <3>3. BatteryOf(battery', Name \ entries')
      BY <2>1, <2>3, <3>2
    <3>4. QED
      BY <1>1, <2>2, <3>1, <3>3 DEF tree, BatteryOf, UsableSupplies
  <2>7. ScanRight'
    BY <2>2, <2>6 DEF ScanRight
  <2>8. QED
    BY <1>2, <2>5, <2>7 DEF Inv
<1>5. CASE NextDirectory
  <2>1. /\ pc = "supplies" /\ entries = {} /\ pc' = "backlights"
        /\ entries' = Entries(backlights)
        /\ UNCHANGED <<battery, brightness, published, disturbed>>
    BY <1>5 DEF NextDirectory
  <2>2. TypeOK'
    BY <1>1, <2>1 DEF Inv, TypeOK, tree, Entries
  <2>3. UsableBacklights(Name \ entries)' = {}
    BY <1>1, <2>1 DEF UsableBacklights, Entries, tree
  <2>4. ASSUME ~disturbed
        PROVE  BatteryOf(battery, Name)' /\ BrightnessOf(brightness, Name \ entries)'
    <3>1. BatteryOf(battery, Name \ {}) /\ brightness = NoBrightness
      BY <2>1, <2>4 DEF Inv, ScanRight
    <3>2. Name \ {} = Name
      OBVIOUS
    <3>3. BatteryOf(battery, Name)'
      BY <1>1, <2>1, <3>1, <3>2 DEF tree, BatteryOf, UsableSupplies
    <3>4. BrightnessOf(brightness, Name \ entries)'
      BY <2>1, <2>3, <3>1 DEF BrightnessOf
    <3>5. QED
      BY <3>3, <3>4
  <2>5. ScanRight'
    BY <2>1, <2>4 DEF ScanRight
  <2>6. QED
    BY <1>2, <2>2, <2>5 DEF Inv
<1>6. CASE ReadBacklight
  <2>1. PICK n \in entries : entries' = entries \ {n} /\ brightness' = NextBrightness(n)
    BY <1>6 DEF ReadBacklight, NextBrightness
  <2>2. pc = "backlights" /\ UNCHANGED <<pc, battery, published, disturbed>>
    BY <1>6 DEF ReadBacklight
  <2>3. n \in Name /\ Name \ entries' = (Name \ entries) \cup {n}
    BY <2>1 DEF Inv, TypeOK
  <2>4. brightness'.device \in Name \cup {0}
    BY <2>1, <2>3 DEF NextBrightness, Inv, TypeOK
  <2>5. TypeOK'
    BY <1>1, <2>1, <2>2, <2>4 DEF Inv, TypeOK, tree
  <2>6. ASSUME ~disturbed
        PROVE  BatteryOf(battery, Name)' /\ BrightnessOf(brightness, Name \ entries)'
    <3>1. BatteryOf(battery, Name) /\ BrightnessOf(brightness, Name \ entries)
      BY <2>2, <2>6 DEF Inv, ScanRight
    <3>2. BrightnessOf(NextBrightness(n), (Name \ entries) \cup {n})
      BY <2>3, <3>1, BrightnessStep
    <3>3. BrightnessOf(brightness', Name \ entries')
      BY <2>1, <2>3, <3>2
    <3>4. BatteryOf(battery, Name)'
      BY <1>1, <2>2, <3>1 DEF tree, BatteryOf, UsableSupplies
    <3>5. BrightnessOf(brightness, Name \ entries)'
      BY <1>1, <3>3 DEF tree, BrightnessOf, UsableBacklights, Preferred
    <3>6. QED
      BY <3>4, <3>5
  <2>7. ScanRight'
    BY <2>2, <2>6 DEF ScanRight
  <2>8. QED
    BY <1>2, <2>5, <2>7 DEF Inv
<1>7. CASE Publish
  <2>1. /\ pc = "backlights" /\ entries = {} /\ pc' = "sleep"
        /\ published' = [available |-> TRUE, battery |-> battery, brightness |-> brightness]
        /\ battery' = NoBattery /\ brightness' = NoBrightness
        /\ UNCHANGED <<entries, disturbed>>
    BY <1>7 DEF Publish
  <2>2. TypeOK'
    BY <1>1, <2>1 DEF Inv, TypeOK, tree, NoBattery, NoBrightness
  <2>3. ASSUME ~disturbed
        PROVE  BatteryOf(published.battery, Name)' /\ BrightnessOf(published.brightness, Name)'
    <3>1. Name \ {} = Name
      OBVIOUS
    <3>2. BatteryOf(battery, Name) /\ BrightnessOf(brightness, Name)
      BY <2>1, <2>3, <3>1 DEF Inv, ScanRight
    <3>3. published'.battery = battery /\ published'.brightness = brightness
      BY <2>1
    <3>4. BatteryOf(published.battery, Name)'
      BY <1>1, <3>2, <3>3 DEF tree, BatteryOf, UsableSupplies
    <3>5. BrightnessOf(published.brightness, Name)'
      BY <1>1, <3>2, <3>3 DEF tree, BrightnessOf, UsableBacklights, Preferred
    <3>6. QED
      BY <3>4, <3>5
  <2>4. ScanRight'
    BY <2>1, <2>3 DEF ScanRight
  <2>5. QED
    BY <1>2, <2>2, <2>4 DEF Inv
<1>8. CASE RefreshFails
  <2>1. /\ disturbed' = TRUE /\ published' = Unavailable
        /\ UNCHANGED <<pc, entries, battery, brightness>>
    BY <1>8 DEF RefreshFails
  <2>2. TypeOK'
    BY <1>1, <2>1 DEF Inv, TypeOK, tree, Unavailable, NoBrightness
  <2>3. QED
    BY <1>2, <2>1, <2>2 DEF Inv, ScanRight
<1>9. CASE UNCHANGED vars
  BY <1>2, <1>9 DEF vars, tree, Inv, TypeOK, ScanRight, BatteryOf, BrightnessOf,
       UsableSupplies, UsableBacklights, Preferred
<1>10. QED
  BY <1>3, <1>4, <1>5, <1>6, <1>7, <1>8, <1>9 DEF Scan

LEMMA InvStep == Inv /\ [Next]_vars => Inv'
<1> SUFFICES ASSUME Inv, [Next]_vars PROVE Inv'
  OBVIOUS
<1>1. CASE \E p \in Asked : Dispatch(p) \/ WriteFails(p)
  BY <1>1, DispatchKeeps, WriteFailsKeeps
<1>2. CASE Change \/ Settle
  BY <1>2, DevicesKeep
<1>3. CASE Scan \/ RefreshFails \/ UNCHANGED vars
  BY <1>3, ScanKeeps
<1>4. QED
  BY <1>1, <1>2, <1>3 DEF Next

LEMMA Initially == Init => Inv
<1> SUFFICES ASSUME Init PROVE Inv
  OBVIOUS
<1>1. TypeOK
  BY DeviceAssumption DEF Init, TypeOK, NoBattery, NoBrightness, Unavailable
<1>2. QED
  BY <1>1 DEF Init, Inv, ScanRight, WriteKept

\* Every scan of find_battery and find_backlight that nothing disturbs keeps
\* the right device of the entries it has read, and the device that was
\* written last keeps what was written.
THEOREM Invariance == Spec => []Inv
  BY Initially, InvStep, PTL DEF Spec

-----------------------------------------------------------------------------
(* What is shown.                                                          *)

\* A charge or a brightness that counts is rounded to the nearest percentage.
LEMMA UsableRounded ==
    ASSUME NEW now \in Number, NEW full \in Number, Usable(now, full)
    PROVE  \/ Nearest(Rounded(now, full), now, full)
           \/ now > full /\ Rounded(now, full) = 100
<1>1. now \in Nat /\ full \in Nat /\ full > 0
  BY DEF Usable, Number
<1>2. QED
  BY <1>1, RoundedNearest

LEMMA BatteryShown ==
    ASSUME TypeOK, NEW shown, BatteryOf(shown, Name)
    PROVE  ShowsBattery(shown)
<1> DEFINE U == UsableSupplies(Name)
           s == supplies[shown.device]
<1>1. U = {n \in Name : supplies[n] # None /\ IsBattery(supplies[n])}
  BY DEF UsableSupplies
<1>2. CASE U = {}
  BY <1>1, <1>2 DEF ShowsBattery, BatteryOf
<1>3. CASE U # {}
  <2>1. /\ shown.device \in U /\ \A n \in U : shown.device <= n
        /\ shown.capacity = BatteryCapacity(s)
    BY <1>3 DEF BatteryOf
  <2>2. s \in Supply /\ BatteryCapacity(s) # None
    BY <2>1 DEF UsableSupplies, TypeOK, IsBattery
  <2>3. /\ s.capacity \in Number
        /\ s.energy_now \in Number /\ s.energy_full \in Number
        /\ s.charge_now \in Number /\ s.charge_full \in Number
        /\ None \notin 0..100
    BY <2>2, DeviceAssumption
  <2> DEFINE Fits(pair) == /\ Usable(pair[1], pair[2])
                           /\ \/ Nearest(shown.capacity, pair[1], pair[2])
                              \/ pair[1] > pair[2] /\ shown.capacity = 100
             Right == \/ shown.capacity = s.capacity
                      \/ /\ s.capacity \notin 0..100
                         /\ \E pair \in {<<s.energy_now, s.energy_full>>,
                                         <<s.charge_now, s.charge_full>>} : Fits(pair)
  <2>4. Right
    <3>1. CASE s.capacity \in 0..100
      BY <2>1, <2>3, <3>1 DEF BatteryCapacity
    <3>2. CASE s.capacity \notin 0..100 /\ Usable(s.energy_now, s.energy_full)
      <4>1. shown.capacity = Rounded(s.energy_now, s.energy_full)
        BY <2>1, <3>2 DEF BatteryCapacity
      <4>2. Fits(<<s.energy_now, s.energy_full>>)
        BY <2>3, <3>2, <4>1, UsableRounded
      <4>3. QED
        BY <3>2, <4>2
    <3>3. CASE s.capacity \notin 0..100 /\ ~Usable(s.energy_now, s.energy_full)
      <4>1. /\ Usable(s.charge_now, s.charge_full)
            /\ shown.capacity = Rounded(s.charge_now, s.charge_full)
        BY <2>1, <2>2, <3>3 DEF BatteryCapacity
      <4>2. Fits(<<s.charge_now, s.charge_full>>)
        BY <2>3, <4>1, UsableRounded
      <4>3. QED
        BY <3>3, <4>2
    <3>4. QED
      BY <3>1, <3>2, <3>3
  <2>5. QED
    BY <1>1, <1>3, <2>1, <2>4 DEF ShowsBattery
<1>4. QED
  BY <1>2, <1>3

LEMMA BrightnessShown ==
    ASSUME TypeOK, NEW shown, BrightnessOf(shown, Name)
    PROVE  ShowsBrightness(shown)
<1> DEFINE U == UsableBacklights(Name)
           b == backlights[shown.device]
<1>1. U = {n \in Name : backlights[n] # None /\ IsBacklight(backlights[n])}
  BY DEF UsableBacklights
<1>2. CASE U = {}
  BY <1>1, <1>2 DEF ShowsBrightness, BrightnessOf
<1>3. CASE U # {}
  <2>1. /\ shown.device \in U
        /\ shown.set = b.writable
        /\ shown.percent = Rounded(CurrentBrightness(b), b.max)
        /\ \A n \in U : Preferred(shown.device, n)
    BY <1>3 DEF BrightnessOf
  <2>2. b \in BacklightType /\ IsBacklight(b)
    BY <2>1 DEF UsableBacklights, TypeOK
  <2>3. CurrentBrightness(b) \in Number /\ b.max \in Number
    BY <2>2 DEF BacklightType, CurrentBrightness
  <2>4. \/ Nearest(shown.percent, CurrentBrightness(b), b.max)
        \/ CurrentBrightness(b) > b.max /\ shown.percent = 100
    BY <2>1, <2>2, <2>3, UsableRounded DEF IsBacklight
  <2>5. QED
    BY <1>1, <1>3, <2>1, <2>4 DEF ShowsBrightness, Preferred
<1>4. QED
  BY <1>2, <1>3

\* After a scan during which and since which no device changed, the battery
\* and the backlight that are shown are the right ones of however many there
\* are, in whatever order the directories were read, and their percentages
\* are the nearest ones, whatever numbers the attributes hold.
THEOREM ScansFindDevices == Spec => []ScanFindsDevices
<1>1. Inv => ScanFindsDevices
  <2> SUFFICES ASSUME Inv, pc = "sleep", ~disturbed PROVE ShowsDevices
    BY DEF ScanFindsDevices
  <2>1. /\ published.available
        /\ BatteryOf(published.battery, Name) /\ BrightnessOf(published.brightness, Name)
    BY DEF Inv, ScanRight
  <2>2. QED
    BY <2>1, BatteryShown, BrightnessShown DEF Inv, ShowsDevices
<1>2. QED
  BY <1>1, Invariance, PTL

\* set-brightness on a device of any maximum: a percentage above zero never
\* writes darkness, and from a hundred levels up the percentage shown by the
\* next undisturbed scan is the one that was asked for.
THEOREM BrightnessIsAsAsked == Spec => []BrightnessAsAsked
<1>1. Inv => BrightnessAsAsked
  <2> DEFINE b == backlights[asked.device]
  <2> SUFFICES ASSUME Inv, asked # None
               PROVE  /\ asked.percent > 0 => b.brightness > 0
                      /\ (/\ pc = "sleep" /\ ~disturbed
                          /\ published.brightness.device = asked.device
                          /\ b.max >= 100 /\ CurrentBrightness(b) = b.brightness)
                           => published.brightness.percent = asked.percent
    BY DEF BrightnessAsAsked
  <2>1. /\ asked.device \in Name /\ asked.percent \in 0..100
        /\ b.max \in Nat /\ b.max > 0
        /\ b.brightness = RawBrightness(b.max, asked.percent)
    BY DEF Inv, WriteKept
  <2>2. asked.percent > 0 => b.brightness > 0
    BY <2>1, RawPositive
  <2>3. ASSUME pc = "sleep", ~disturbed, published.brightness.device = asked.device,
               b.max >= 100, CurrentBrightness(b) = b.brightness
        PROVE  published.brightness.percent = asked.percent
    <3>1. BrightnessOf(published.brightness, Name)
      BY <2>3 DEF Inv, ScanRight
    <3>2. asked.device # 0
      BY <2>1, NameAssumption
    <3>3. UsableBacklights(Name) # {}
      BY <2>3, <3>1, <3>2 DEF BrightnessOf, NoBrightness
    <3>4. published.brightness.percent = Rounded(CurrentBrightness(b), b.max)
      BY <2>3, <3>1, <3>3 DEF BrightnessOf
    <3>5. QED
      BY <2>1, <2>3, <3>4, RoundTrip
  <2>4. QED
    BY <2>2, <2>3
<1>2. QED
  BY <1>1, Invariance, PTL
=============================================================================
