------------------------------- MODULE System -------------------------------
(***************************************************************************)
(* The system source: the service (src/service/system.lua) and its scan of *)
(* sysfs (src/devices.c), while devices are plugged in, pulled out and     *)
(* change by themselves.                                                   *)
(*                                                                         *)
(* A directory is read in whatever order; between two entries anything may *)
(* happen to the devices.  A name is its place in the order of strcmp(),   *)
(* an attribute is a number or a word, or None where read_long and         *)
(* read_text fail (no such file, nothing in it, not a number).  The device *)
(* tree is external.                                                       *)
(***************************************************************************)
EXTENDS Integers, FiniteSets

CONSTANTS
    Name,         \* names of devices
    None,
    Supply,       \* attributes that a power supply may have
    Backlight,    \* attributes that a backlight may have
    Asked,        \* percentages of set-brightness
    MaxChanges,   \* bound: changes of devices
    MaxActions,   \* bound: actions
    MaxFaults     \* bound: failing scans and writes

ASSUME NameAssumption == Name \subseteq Nat \ {0} /\ IsFiniteSet(Name)

\* What an attribute file holds, and the attributes of a backlight: the ones
\* that a write may change keep these types.
Number == Int \cup {None}
BacklightType == [max : Number, actual : Number, brightness : Number,
                  type : {"raw", "platform", "firmware", "other"}, writable : BOOLEAN]

ASSUME DeviceAssumption ==
    /\ None \notin Int /\ None \notin Supply /\ None \notin BacklightType
    /\ Backlight \subseteq BacklightType
    /\ \A s \in Supply :
         /\ s.present \in Number /\ s.capacity \in Number
         /\ s.energy_now \in Number /\ s.energy_full \in Number
         /\ s.charge_now \in Number /\ s.charge_full \in Number
ASSUME AskedAssumption == Asked \subseteq 0..100
ASSUME BoundAssumption == MaxChanges \in Nat /\ MaxActions \in Nat /\ MaxFaults \in Nat

VARIABLES
    supplies, backlights,   \* the device tree: [Name -> attributes or None]
    pc,           \* "sleep", "supplies", "backlights"
    entries,      \* entries of the directory that are still to be read
    battery, brightness,    \* what the scan has found so far
    published,    \* the domain with every patch sent to state merged, and, as
                  \* the same table, `current'
    disturbed,    \* history: a device changed since the last scan began
    asked,        \* history: the last device and percentage written, None after
                  \* a backlight changed
    changes, actions, faults

tree == <<supplies, backlights>>
counters == <<changes, actions, faults>>
vars == <<tree, pc, entries, battery, brightness, published, disturbed, asked, counters>>

NoBattery == [device |-> 0, capacity |-> 0, status |-> None]
\* rank is selected_rank, which is not published.
NoBrightness == [device |-> 0, percent |-> 0, rank |-> -1, set |-> FALSE]
Unavailable == [available |-> FALSE, battery |-> NoBattery, brightness |-> NoBrightness]

Init ==
    /\ supplies \in [Name -> Supply \cup {None}]
    /\ backlights \in [Name -> Backlight \cup {None}]
    /\ pc = "sleep"
    /\ entries = {}
    /\ battery = NoBattery /\ brightness = NoBrightness
    /\ published = Unavailable
    /\ disturbed = TRUE /\ asked = None
    /\ changes = 0 /\ actions = 0 /\ faults = 0

Fault == faults < MaxFaults /\ faults' = faults + 1 /\ UNCHANGED <<changes, actions>>
Entries(directory) == {n \in Name : directory[n] # None}

-----------------------------------------------------------------------------
(* What an entry is worth.                                                 *)

RoundedMutant(now, full) == (now * 100) \div full

\* Half a percent up, as in (int)(value + 0.5), of at most 100.
Rounded(now, full) ==
    IF now > full THEN 100 ELSE (now * 200 + full) \div (2 * full)

Usable(now, full) == now # None /\ full # None /\ now >= 0 /\ full > 0

\* battery_capacity; None where the device has none.
BatteryCapacity(s) ==
    IF s.capacity # None /\ s.capacity \in 0..100 THEN s.capacity
    ELSE IF Usable(s.energy_now, s.energy_full)
         THEN Rounded(s.energy_now, s.energy_full)
    ELSE IF Usable(s.charge_now, s.charge_full)
         THEN Rounded(s.charge_now, s.charge_full)
    ELSE None

\* The entries find_battery passes over: no battery, or device_is_present is
\* false, or no capacity.
IsBattery(s) == s.type = "Battery" /\ s.present # 0 /\ BatteryCapacity(s) # None

BetterBatteryMutant(n) == TRUE
BetterBattery(n) == battery.device = 0 \/ n < battery.device

\* The brightness find_backlight reads, None if it passes the entry over.
CurrentBrightness(b) == IF b.actual # None THEN b.actual ELSE b.brightness
IsBacklight(b) == Usable(CurrentBrightness(b), b.max)

Rank(b) == CASE b.type = "raw" -> 3 [] b.type = "platform" -> 2
             [] b.type = "firmware" -> 1 [] OTHER -> 0

BetterBacklight(n, rank) ==
    \/ brightness.device = 0
    \/ rank > brightness.rank
    \/ rank = brightness.rank /\ n < brightness.device

-----------------------------------------------------------------------------
(* The service.                                                            *)

\* refresh, by the loop that sleeps or at the end of a dispatch; opendir.
BeginScan ==
    /\ pc' = "supplies"
    /\ entries' = Entries(supplies)
    /\ battery' = NoBattery /\ brightness' = NoBrightness
    /\ disturbed' = FALSE

Refresh ==
    /\ pc = "sleep"
    /\ BeginScan
    /\ UNCHANGED <<tree, published, asked, counters>>

RefreshFailsMutant ==
    /\ pc = "sleep"
    /\ Fault
    /\ published' = Unavailable
    /\ pc' = "ended"
    /\ disturbed' = TRUE
    /\ UNCHANGED <<tree, entries, battery, brightness, asked>>

\* The scan raises an error, which pcall catches.
RefreshFails ==
    /\ pc = "sleep"
    /\ Fault
    /\ published' = Unavailable
    /\ disturbed' = TRUE
    /\ UNCHANGED <<tree, pc, entries, battery, brightness, asked>>

\* One turn of find_battery; an entry may be gone by now.
ReadSupply ==
    /\ pc = "supplies"
    /\ \E n \in entries :
         /\ entries' = entries \ {n}
         /\ battery' =
              LET s == supplies[n] IN
              IF s # None /\ IsBattery(s) /\ BetterBattery(n)
              THEN [device |-> n, capacity |-> BatteryCapacity(s),
                    status |-> IF s.status = None THEN "Unknown" ELSE s.status]
              ELSE battery
    /\ UNCHANGED <<tree, pc, brightness, published, disturbed, asked, counters>>

NextDirectory ==
    /\ pc = "supplies" /\ entries = {}
    /\ pc' = "backlights"
    /\ entries' = Entries(backlights)
    /\ UNCHANGED <<tree, battery, brightness, published, disturbed, asked, counters>>

\* One turn of find_backlight.
ReadBacklight ==
    /\ pc = "backlights"
    /\ \E n \in entries :
         /\ entries' = entries \ {n}
         /\ brightness' =
              LET b == backlights[n] IN
              IF b # None /\ IsBacklight(b) /\ BetterBacklight(n, Rank(b))
              THEN [device |-> n, percent |-> Rounded(CurrentBrightness(b), b.max),
                    rank |-> Rank(b), set |-> b.writable]
              ELSE brightness
    /\ UNCHANGED <<tree, pc, battery, published, disturbed, asked, counters>>

Publish ==
    /\ pc = "backlights" /\ entries = {}
    /\ published' = [available |-> TRUE, battery |-> battery, brightness |-> brightness]
    /\ battery' = NoBattery /\ brightness' = NoBrightness
    /\ pc' = "sleep"
    /\ UNCHANGED <<tree, entries, disturbed, asked, counters>>

RawBrightnessMutant(max, percent) == (max * percent) \div 100

\* lset_brightness: rounded, but not to darkness.
RawBrightness(max, percent) ==
    LET raw == (2 * max * percent + 100) \div 200 IN
    IF percent > 0 /\ raw = 0 THEN 1 ELSE raw

\* The maximum can be read and the file be opened for writing.
Settable(b) == b # None /\ b.max # None /\ b.max > 0 /\ b.writable

\* S.dispatch "set-brightness": what the last scan found decides whether and
\* where to write; the maximum is read again.  A refused action changes
\* nothing.  The hardware may take its time.
Dispatch(percent) ==
    /\ pc = "sleep"
    /\ actions < MaxActions /\ actions' = actions + 1
    /\ published.brightness.device # 0 /\ published.brightness.set
    /\ LET n == published.brightness.device
           b == backlights[n] IN
         /\ Settable(b)
         /\ LET raw == RawBrightness(b.max, percent) IN
              \E seen \in IF b.actual = None THEN {None} ELSE {b.actual, raw} :
                backlights' = [backlights EXCEPT ![n].brightness = raw, ![n].actual = seen]
    /\ asked' = [device |-> published.brightness.device, percent |-> percent]
    /\ UNCHANGED <<supplies, published, changes, faults>>
    /\ BeginScan

\* The write is short or close fails: the file has the number, or its first
\* digits, and S.dispatch returns the error without a refresh.
WriteFails(percent) ==
    /\ pc = "sleep"
    /\ actions < MaxActions /\ actions' = actions + 1
    /\ faults < MaxFaults /\ faults' = faults + 1
    /\ published.brightness.device # 0 /\ published.brightness.set
    /\ LET n == published.brightness.device
           b == backlights[n] IN
         /\ Settable(b)
         /\ LET raw == RawBrightness(b.max, percent) IN
              \E left \in {raw, raw \div 10} :
                backlights' = [backlights EXCEPT ![n].brightness = left]
    /\ asked' = None
    /\ disturbed' = TRUE
    /\ UNCHANGED <<supplies, pc, entries, battery, brightness, published, changes>>

-----------------------------------------------------------------------------
(* The devices.                                                            *)

\* A device comes, goes or changes.
Change ==
    /\ changes < MaxChanges /\ changes' = changes + 1
    /\ \E n \in Name :
         \/ /\ \E s \in (Supply \cup {None}) \ {supplies[n]} :
                 supplies' = [supplies EXCEPT ![n] = s]
            /\ UNCHANGED <<backlights, asked>>
         \/ /\ \E b \in (Backlight \cup {None}) \ {backlights[n]} :
                 backlights' = [backlights EXCEPT ![n] = b]
            /\ asked' = None
            /\ UNCHANGED supplies
    /\ disturbed' = TRUE
    /\ UNCHANGED <<pc, entries, battery, brightness, published, actions, faults>>

\* The hardware has reached the brightness that was written.
Settle ==
    /\ \E n \in Entries(backlights) :
         /\ backlights[n].actual # None
         /\ backlights[n].brightness # None
         /\ backlights[n].actual # backlights[n].brightness
         /\ backlights' = [backlights EXCEPT ![n].actual = backlights[n].brightness]
    /\ disturbed' = TRUE
    /\ UNCHANGED <<supplies, pc, entries, battery, brightness, published, asked, counters>>

Scan == Refresh \/ ReadSupply \/ NextDirectory \/ ReadBacklight \/ Publish

Next ==
    \/ Scan \/ RefreshFails
    \/ \E p \in Asked : Dispatch(p) \/ WriteFails(p)
    \/ Change \/ Settle

Spec == Init /\ [][Next]_vars

\* The sleep of the loop ends, a scan goes on, and hardware settles.
FairSpec == Spec /\ WF_vars(Scan) /\ WF_vars(Settle)

-----------------------------------------------------------------------------
(* Properties.                                                             *)

\* The percentage p is the nearest to now out of full, half a percent up.
Nearest(p, now, full) ==
    p \in 0..100 /\ (2 * p - 1) * full <= 200 * now /\ 200 * now < (2 * p + 1) * full

\* README, "Configure and run": the devices there are to show: of the batteries
\* that are present and tell their charge the first by name, of the backlights
\* with a brightness the first by name of the best kind.
ShowsBattery(shown) ==
    LET usable == {n \in Name : supplies[n] # None /\ IsBattery(supplies[n])} IN
    /\ usable = {} => shown = NoBattery
    /\ usable # {} =>
         /\ shown.device \in usable /\ \A n \in usable : shown.device <= n
         /\ LET s == supplies[shown.device] IN
              \/ shown.capacity = s.capacity
              \/ /\ s.capacity \notin 0..100
                 /\ \E pair \in {<<s.energy_now, s.energy_full>>,
                                 <<s.charge_now, s.charge_full>>} :
                      /\ Usable(pair[1], pair[2])
                      /\ \/ Nearest(shown.capacity, pair[1], pair[2])
                         \/ pair[1] > pair[2] /\ shown.capacity = 100
ShowsBrightness(shown) ==
    LET usable == {n \in Name : backlights[n] # None /\ IsBacklight(backlights[n])} IN
    /\ usable = {} => shown = NoBrightness
    /\ usable # {} =>
         /\ shown.device \in usable
         /\ LET b == backlights[shown.device] IN
              /\ shown.set = b.writable
              /\ \A n \in usable : \/ Rank(b) > Rank(backlights[n])
                                   \/ Rank(b) = Rank(backlights[n]) /\ shown.device <= n
              /\ \/ Nearest(shown.percent, CurrentBrightness(b), b.max)
                 \/ CurrentBrightness(b) > b.max /\ shown.percent = 100
ShowsDevices ==
    published.available /\ ShowsBattery(published.battery)
      /\ ShowsBrightness(published.brightness)

\* After a scan during which, and since which, no device changed, the right
\* devices are shown, whatever the order of the directories, and every
\* percentage is the nearest one.
ScanFindsDevices == (pc = "sleep" /\ ~disturbed) => ShowsDevices

\* A percentage that was set is the one that is shown once the hardware is
\* there, if the device can tell a hundred levels apart; and a percentage
\* above zero never turns a display dark.
BrightnessAsAsked ==
    asked # None =>
      LET b == backlights[asked.device] IN
      /\ asked.percent > 0 => b.brightness > 0
      /\ (/\ pc = "sleep" /\ ~disturbed
          /\ published.brightness.device = asked.device
          /\ b.max >= 100 /\ CurrentBrightness(b) = b.brightness)
           => published.brightness.percent = asked.percent

\* "The default five-second rescan detects device additions and removals":
\* once the devices stay as they are they are shown for good, also after a
\* scan that failed.
EventuallyShown == <>[]ShowsDevices
=============================================================================
