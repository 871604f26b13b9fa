--------------------------- MODULE SettingsStore ---------------------------
(***************************************************************************)
(* The settings of a pilot (models/settings.py) and the named print        *)
(* formats (printing/profiles.py).  The database keeps text; every getter  *)
(* bends what it finds into the range of its setting, every setter bends   *)
(* what the page sends, and a stored profile is bent once more before it   *)
(* is applied.  Numbers stand for all values: 0 is "automatic" for the     *)
(* settings that have it, and two-valued settings are 0 or 1.              *)
(***************************************************************************)
EXTENDS Integers, FiniteSets

CONSTANTS
  Typed,    \* the numbers that may be typed, or found in the database
  UserName  \* the names of the user's own profiles

Clamp(lo, hi, def) == [kind |-> "clamp", lo |-> lo, hi |-> hi, def |-> def]
OrAuto(lo, hi) == [kind |-> "auto", lo |-> lo, hi |-> hi, def |-> 0]
Port(lo, def) == [kind |-> "port", lo |-> lo, hi |-> 65535, def |-> def]
\* A flag is off when its text is none of the words for on.
Flag(def) == [kind |-> "two", lo |-> 0, hi |-> 1, def |-> def]

FormatRange ==
  [paper_width |-> Flag(1), cut_enabled |-> Flag(1), print_font |-> Flag(0),
   print_bold |-> Flag(0), print_render_mode |-> Flag(1),
   print_char_width |-> Clamp(1, 8, 1), print_char_height |-> Clamp(1, 8, 1),
   print_line_spacing_dots |-> OrAuto(1, 255), print_glyph_px |-> Clamp(8, 64, 28),
   print_line_gap_px |-> Clamp(0, 32, 2), print_columns |-> OrAuto(16, 80),
   print_lead_in |-> Clamp(0, 12, 2), print_tear_feed |-> Clamp(0, 16, 6)]

PageRange ==
  [auto_print |-> Flag(1), auto_connect |-> Flag(1), check_updates |-> Flag(1),
   simbrief_enabled |-> Flag(0), hotkeys_enabled |-> Flag(1),
   print_when_powered |-> Flag(0), wx_auto_enabled |-> Flag(0),
   companion_enabled |-> Flag(0), companion_station_enabled |-> Flag(0),
   simbrief_post_landing_grace_seconds |-> Clamp(60, 7200, 600),
   sterile_agl_ft |-> [kind |-> "snap", lo |-> 0, hi |-> 10000, def |-> 1500],
   xplane_port |-> Port(1, 49000), companion_port |-> Port(1024, 8765),
   wx_auto_nm |-> Clamp(10, 500, 180)]

FormatKnob == DOMAIN FormatRange
PageKnob == DOMAIN PageRange
Knob == FormatKnob \cup PageKnob
Limits(k) == IF k \in FormatKnob THEN FormatRange[k] ELSE PageRange[k]

SterileChoice == {0, 1000, 1500, 2000, 2500} \cup {1000 * n : n \in 3..10}

Text(is, n) == [is |-> is, n |-> n]
Absent == Text("absent", 0)
Junk == Text("junk", 0)
Number(n) == Text("number", n)

VARIABLES
  stored,   \* the settings table: per setting, its text
  legacy,   \* print_size and print_line_spacing, named presets of old versions
  profiles, \* print_profiles_json: the user's profiles
  active,   \* active_print_profile
  focus     \* the one setting the user works on

vars == <<stored, legacy, profiles, active, focus>>

-----------------------------------------------------------------------------
(* Getters and setters.                                                    *)

Bend(r, n) == IF n < r.lo THEN r.lo ELSE IF n > r.hi THEN r.hi ELSE n

\* The nearest choice; of two as near, the one that is listed first.
Snap(n) ==
  LET away(c) == IF c < n THEN n - c ELSE c - n IN
  CHOOSE c \in SterileChoice :
    \A d \in SterileChoice : away(c) < away(d) \/ (away(c) = away(d) /\ c <= d)

\* Junk reads as the default, except that a flag is then off, the paper 80 mm
\* (1) and the mode bitmap (1).
OfJunk(k) ==
  IF Limits(k).kind = "two"
    THEN IF k \in {"paper_width", "print_render_mode"} THEN 1 ELSE 0
    ELSE Limits(k).def

Fit(k, n) ==
  LET r == Limits(k) IN
  CASE r.kind = "snap" -> Snap(n)
    [] r.kind = "port" -> IF n \in r.lo..r.hi THEN n ELSE r.def
    [] r.kind = "two" /\ n \notin {0, 1} -> OfJunk(k)
    [] r.kind = "auto" /\ (n = 0 \/ (n < 0 /\ k = "print_line_spacing_dots")) -> 0
    [] OTHER -> Bend(r, n)

\* What a preset of an old version still says when the setting is absent.
FromPreset(k) ==
  CASE k = "print_char_width" /\ legacy.size \in {"wide", "large"} -> 2
    [] k = "print_char_height" /\ legacy.size \in {"tall", "large"} -> 2
    [] k = "print_line_spacing_dots" /\ legacy.spacing = "tight" -> 24
    [] k = "print_line_spacing_dots" /\ legacy.spacing = "normal" -> 30
    [] k = "print_line_spacing_dots" /\ legacy.spacing = "loose" -> 40
    [] OTHER -> Limits(k).def

Read(k, text) ==
  CASE text.is = "absent" -> FromPreset(k)
    [] text.is = "junk" -> OfJunk(k)
    [] OTHER -> Fit(k, text.n)

Shown(k) == Read(k, stored[k])

\* The columns of an automatic width are deleted from the table, the others
\* keep a word that reads as automatic.
Kept(k, sent) ==
  LET n == IF sent.is = "number" THEN Fit(k, sent.n) ELSE OfJunk(k) IN
  IF Limits(k).kind # "auto" \/ n # 0 THEN Number(n)
    ELSE IF k = "print_columns" THEN Absent ELSE Junk

-----------------------------------------------------------------------------
(* Profiles.                                                               *)

BuiltinChange ==
  [pos80_default |-> [print_lead_in |-> 2],
   pos58_readable |-> [paper_width |-> 0, print_glyph_px |-> 26, print_line_gap_px |-> 1,
                       print_lead_in |-> 1, print_tear_feed |-> 5],
   pos80_compact |-> [print_glyph_px |-> 22, print_line_gap_px |-> 1,
                      print_lead_in |-> 1, print_tear_feed |-> 4]]

Builtin == DOMAIN BuiltinChange
NoProfile == "none"

BuiltinPayload(p) ==
  [k \in FormatKnob |-> IF k \in DOMAIN BuiltinChange[p] THEN BuiltinChange[p][k]
                                                         ELSE FormatRange[k].def]

Payload(p) == IF p \in Builtin THEN BuiltinPayload(p) ELSE profiles[p]

\* sanitize_payload without its zero rule: automatic would become a number.
SanitizedBent(k, n) == Bend(Limits(k), n)

\* sanitize_payload: a negative spacing, other than -1, is bent into its range.
Sanitized(k, n) ==
  IF k = "print_line_spacing_dots" /\ n < -1 THEN 1 ELSE Fit(k, n)

-----------------------------------------------------------------------------
NoPreset == [size |-> "normal", spacing |-> "default"]

\* The store of a new process moves the radius of an old factory setting.
Migrated(table) ==
  IF table["wx_auto_nm"] = Number(150) THEN [table EXCEPT !["wx_auto_nm"] = Number(180)]
                                       ELSE table

\* A database as an older version may have left it, opened by this one.
Init ==
  /\ focus \in Knob
  /\ \E text \in {Absent, Junk} \cup {Number(n) : n \in Typed} :
       stored = Migrated([k \in Knob |-> IF k = focus THEN text ELSE Absent])
  /\ legacy \in {NoPreset, [size |-> "wide", spacing |-> "tight"],
                 [size |-> "tall", spacing |-> "normal"],
                 [size |-> "large", spacing |-> "loose"]}
  /\ legacy = NoPreset \/ focus \in {"print_char_width", "print_char_height",
                                     "print_line_spacing_dots"}
  /\ profiles = [p \in {} |-> 0] /\ active = NoProfile

\* apply_settings or apply_format with one setting edited; the page sends a
\* two-valued setting as one of its two values.
Edit(sent) ==
  /\ Limits(focus).kind = "two" => sent \in {Number(0), Number(1)}
  /\ stored' = [stored EXCEPT ![focus] = Kept(focus, sent)]
  /\ UNCHANGED <<legacy, profiles, active, focus>>

\* The page sends everything it shows, and nothing was edited.
SavePage(knobs) ==
  /\ stored' = [k \in Knob |-> IF k \in knobs THEN Kept(k, Number(Shown(k)))
                                              ELSE stored[k]]
  /\ UNCHANGED <<legacy, profiles, active, focus>>

SaveProfile(p) ==
  /\ profiles' = [q \in DOMAIN profiles \cup {p} |->
                    IF q = p THEN [k \in FormatKnob |-> Shown(k)] ELSE profiles[q]]
  /\ active' = p
  /\ UNCHANGED <<stored, legacy, focus>>

ApplyProfile(p) ==
  /\ p \in Builtin \cup DOMAIN profiles
  /\ stored' = [k \in Knob |->
                  IF k \in FormatKnob THEN Kept(k, Number(Sanitized(k, Payload(p)[k])))
                                      ELSE stored[k]]
  /\ active' = p
  /\ UNCHANGED <<legacy, profiles, focus>>

DeleteProfile(p) ==
  /\ p \in DOMAIN profiles
  /\ profiles' = [q \in DOMAIN profiles \ {p} |-> profiles[q]]
  /\ active' = IF active = p THEN NoProfile ELSE active
  /\ UNCHANGED <<stored, legacy, focus>>

Restart ==
  /\ stored' = Migrated(stored)
  /\ UNCHANGED <<legacy, profiles, active, focus>>

Next ==
  \/ \E sent \in {Junk} \cup {Number(n) : n \in Typed} : Edit(sent)
  \/ \E knobs \in {FormatKnob, PageKnob} : SavePage(knobs)
  \/ \E p \in UserName : SaveProfile(p) \/ DeleteProfile(p)
  \/ \E p \in Builtin \cup UserName : ApplyProfile(p)
  \/ Restart

Spec == Init /\ [][Next]_vars

-----------------------------------------------------------------------------
\* Whatever an older version left in the database, saving a page nobody edited
\* would change no setting, and applying a profile would give back, setting for
\* setting, the format it was saved with: the getter, the setter and the
\* profile agree on the range (and on what "automatic" is) of every setting.
ShownComesBack ==
  /\ \A k \in Knob : Read(k, Kept(k, Number(Shown(k)))) = Shown(k)
  /\ \A p \in Builtin \cup DOMAIN profiles : \A k \in FormatKnob :
       Read(k, Kept(k, Number(Sanitized(k, Payload(p)[k])))) = Payload(p)[k]

\* A later start changes no radius: the migration of the factory setting of
\* old installs happens once (settings.py:765), before the user chooses one.
RadiusKept ==
  [][Restart => Shown("wx_auto_nm")' = Shown("wx_auto_nm")]_vars
=============================================================================
