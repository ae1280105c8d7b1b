----------------------------- MODULE AudioRoute -----------------------------
(* Routes of mixer controls, audio_route/audio_route.c.  First the XML file is *)
(* read tag by tag into named paths of settings; then paths are applied and   *)
(* reset.  For each control "old" is what the mixer was last given, "new" what *)
(* it shall be given, "reset" its value after loading, and active_count the   *)
(* applied paths that use it.  The mixer itself, "hw", is external, and takes *)
(* every value.  The definitions marked "Slip" are plausible mistakes, kept   *)
(* for mutation runs and used by no action.                                    *)
EXTENDS Integers, Sequences, FiniteSets, SequencesExt

CONSTANTS
  Controls,
  Kind,        \* of each control: "int", "enum", or "tlv" (bytes of any length)
  NumValues,   \* of each control: the values it has
  MixerStart,  \* of each control: its values when the mixer is opened
  Names,       \* of paths
  NoPath,      \* a null state->path
  CtlTags,     \* <ctl> tags of the file: [ctl, index, values], index 0 for no id
  MaxTags,     \* bound of the model: tags in a file
  MaxActive    \* bound of the model: applications of one path that are not reset

ASSUME AudioRouteAssumption ==
  /\ Kind \in [Controls -> {"int", "enum", "tlv"}]
  /\ NumValues \in [Controls -> Nat \ {0}]
  /\ \A c \in Controls : MixerStart[c] \in Seq(Int) /\ Len(MixerStart[c]) = NumValues[c]
  /\ IsFiniteSet(Names) /\ NoPath \notin Names
  /\ \A t \in CtlTags :   \* start_tag() skips the tags with too few values
       /\ t.ctl \in Controls /\ t.index \in Nat
       /\ t.values \in Seq(Int) /\ Len(t.values) \in 1 .. NumValues[t.ctl]
       /\ Kind[t.ctl] = "int" /\ t.index = 0 => Len(t.values) = NumValues[t.ctl]
  /\ MaxTags \in Nat /\ MaxActive \in Nat

VARIABLES
  level,       \* "top", "path" while in a <path>, "loaded" after audio_route_init()
  tags,        \* tags read so far
  current,     \* state->path
  path,        \* the paths read: their settings [ctl, value], in order
  state        \* the mixer state of each control
routeVars == <<level, tags, current, path, state>>

\* struct ctl_values of a control: all its cells, and how many of them are in use
AllOf(cells) == [cells |-> cells, size |-> Len(cells)]

\* ctl_values_copy()
CopiedOver(dst, src) ==
  [cells |-> [i \in DOMAIN dst.cells |->
                IF i =< src.size THEN src.cells[i] ELSE dst.cells[i]],
   size  |-> src.size]

\* alloc_mixer_state(): the values are read from the mixer, only the first one of an
\* enum.  "held" (how often each path is applied) and "paired" (resets undid
\* applications, and no other call interfered) are not in the code.
AsOpened(c) ==
  LET zero == [i \in 1 .. NumValues[c] |-> 0]
      read == AllOf(IF Kind[c] = "enum" THEN [zero EXCEPT ![1] = MixerStart[c][1]]
                                        ELSE MixerStart[c])
  IN  [hw |-> MixerStart[c], old |-> read, new |-> read, reset |-> AllOf(zero),
       active_count |-> 0, held |-> [p \in Names |-> 0], paired |-> TRUE]

RouteInit ==
  /\ level = "top" /\ tags = 0 /\ current = NoPath /\ path = <<>>
  /\ state = [c \in Controls |-> AsOpened(c)]

-----------------------------------------------------------------------------
(* Setting the mixer *)

\* How many cells are compared and sent.
Sent(c, m) == IF Kind[c] = "tlv" THEN m.new.size ELSE NumValues[c]

\* mixer_ctl_set_array(), or mixer_ctl_set_value() at index 0
Given(c, m) ==
  IF Kind[c] = "enum" THEN [m.hw EXCEPT ![1] = m.new.cells[1]]
                      ELSE SubSeq(m.new.cells, 1, Sent(c, m))

\* mixer_set_value_if_changed()
SetIfChanged(c, m) ==
  IF \E i \in 1 .. Sent(c, m) : m.old.cells[i] # m.new.cells[i]
  THEN [m EXCEPT !.hw = Given(c, m), !.old = CopiedOver(m.old, m.new)]
  ELSE m

-----------------------------------------------------------------------------
(* Reading the file: start_tag() and end_tag() *)

Tag == tags < MaxTags /\ tags' = tags + 1

\* The values a <ctl> tag gives to "value".  One without id gives all of them.
WithTag(value, t) ==
  LET n == Len(value.cells)
  IN  IF t.index > 0 THEN [value EXCEPT !.cells[t.index] = t.values[1]]
      ELSE IF Kind[t.ctl] = "enum" THEN [value EXCEPT !.cells = [i \in 1 .. n |-> t.values[1]]]
      ELSE [cells |-> [i \in 1 .. n |-> IF i =< Len(t.values) THEN t.values[i]
                                                              ELSE value.cells[i]],
            size  |-> Len(t.values)]

InRange(t) == t.index =< NumValues[t.ctl]

\* An initial setting; an id out of range is skipped.
TopCtl(t) ==
  /\ level = "top" /\ Tag
  /\ state' = IF InRange(t) THEN [state EXCEPT ![t.ctl].new = WithTag(state[t.ctl].new, t)]
                           ELSE state
  /\ UNCHANGED <<level, current, path>>

\* path_create(); a second path of one name is refused, and what is in it skipped.
BeginPath(name) ==
  /\ level = "top" /\ Tag /\ level' = "path"
  /\ IF name \in DOMAIN path
     THEN current' = NoPath /\ path' = path
     ELSE /\ current' = name
          /\ path' = [p \in DOMAIN path \cup {name} |-> IF p = name THEN <<>> ELSE path[p]]
  /\ UNCHANGED state

\* What is in a path without a name goes to the path before it.
BeginUnnamedPath ==
  level = "top" /\ Tag /\ level' = "path" /\ UNCHANGED <<current, path, state>>

EndPath == level = "path" /\ level' = "top" /\ UNCHANGED <<tags, current, path, state>>

\* find_ctl_index_in_path(), 0 when there is none
SettingOf(settings, c) ==
  LET found == {i \in DOMAIN settings : settings[i].ctl = c}
  IN  IF found = {} THEN 0 ELSE CHOOSE i \in found : \A j \in found : i =< j

\* path_add_value(): a new setting, or more values of one that is there.
WithValue(settings, t) ==
  LET i     == SettingOf(settings, t.ctl)
      first == [j \in 1 .. NumValues[t.ctl] |-> IF j = 1 THEN t.values[1] ELSE 0]
  IN  IF ~ InRange(t) THEN settings
      ELSE IF i = 0 THEN Append(settings, [ctl |-> t.ctl, value |-> WithTag(AllOf(first), t)])
      ELSE [settings EXCEPT ![i].value = WithTag(settings[i].value, t)]

PathCtl(t) ==
  /\ level = "path" /\ Tag
  /\ path' = IF current = NoPath THEN path
             ELSE [path EXCEPT ![current] = WithValue(path[current], t)]
  /\ UNCHANGED <<level, current, state>>

\* Slip: the settings of the sub path are all added.
WithAllSettings(settings, sub) == settings \o sub

\* path_add_path() and path_add_setting(): a control that is there already keeps the
\* value it has.
WithSubPath(settings, sub) ==
  LET with[n \in 0 .. Len(sub)] ==
        IF n = 0 THEN settings
        ELSE IF SettingOf(with[n - 1], sub[n].ctl) # 0 THEN with[n - 1]
        ELSE Append(with[n - 1], sub[n])
  IN  with[Len(sub)]

SubPath(name) ==
  /\ level = "path" /\ Tag
  /\ path' = IF current = NoPath \/ name \notin DOMAIN path THEN path
             ELSE [path EXCEPT ![current] = WithSubPath(path[current], path[name])]
  /\ UNCHANGED <<level, current, state>>

\* The end of audio_route_init(): audio_route_update_mixer(), save_mixer_state()
Loaded ==
  /\ level = "top" /\ level' = "loaded"
  /\ state' = [c \in Controls |->
                 LET m == SetIfChanged(c, state[c])
                 IN  [m EXCEPT !.reset = CopiedOver(m.reset, m.new)]]
  /\ UNCHANGED <<tags, current, path>>

-----------------------------------------------------------------------------
(* Routing *)

\* The applications that are not reset, of all paths together.
Total(counts) == Cardinality(UNION {{p} \X (1 .. counts[p]) : p \in Names})

\* Slip: the new value of a control that is still needed is not taken back.
ReleasedOnly(c, m) ==
  LET users == m.active_count - 1
  IN  IF m.active_count = 0 THEN SetIfChanged(c, m)
      ELSE IF users > 0 THEN [m EXCEPT !.active_count = users]
      ELSE SetIfChanged(c, [m EXCEPT !.active_count = 0])

\* Slip: active_count is kept, and not looked at.
ReleasedAnyway(c, m) ==
  SetIfChanged(c, [m EXCEPT !.active_count = IF @ > 0 THEN @ - 1 ELSE 0])

\* Slip: the last user is taken for another one.
ReleasedOneLate(c, m) ==
  IF m.active_count = 0 THEN SetIfChanged(c, m)
  ELSE [m EXCEPT !.active_count = @ - 1, !.new = CopiedOver(@, m.old)]

\* Slip: an active_count above 1 is cleared.
ReleasedByAll(c, m) == SetIfChanged(c, [m EXCEPT !.active_count = 0])

\* A control of a path that is reset: it is kept while other paths need it.
Released(c, m) ==
  LET users == m.active_count - 1
  IN  IF m.active_count = 0 THEN SetIfChanged(c, m)
      ELSE IF users > 0 THEN [m EXCEPT !.active_count = users, !.new = CopiedOver(m.new, m.old)]
      ELSE SetIfChanged(c, [m EXCEPT !.active_count = 0])

\* One control m of a path p that has value v for it: in path_apply(), path_reset(), or
\* audio_route_update_path() in its directions "forward", "reverse", "reverse_reset".
Done(what, p, c, m, v) ==
  CASE what = "apply" -> [m EXCEPT !.new = CopiedOver(m.new, v)]
    [] what = "reset" -> [m EXCEPT !.new = CopiedOver(m.new, m.reset)]
    [] what = "forward" ->
         SetIfChanged(c, [m EXCEPT !.active_count = m.active_count + 1,
                                   !.held = [m.held EXCEPT ![p] = m.held[p] + 1]])
    [] what = "reverse" ->
         IF m.held[p] > 0
         THEN [Released(c, m) EXCEPT !.held = [m.held EXCEPT ![p] = m.held[p] - 1]]
         ELSE [Released(c, m) EXCEPT !.paired = m.paired /\ Total(m.held) = 0]
    [] what = "reverse_reset" ->
         [SetIfChanged(c, [m EXCEPT !.active_count = 0]) EXCEPT
            !.held = [q \in Names |-> 0], !.paired = TRUE]

\* The same for each of the settings of p, in order.
ForEach(settings, what, p, all) ==
  LET after[n \in 0 .. Len(settings)] ==
        IF n = 0 THEN all
        ELSE LET x == settings[n]
             IN  [after[n - 1] EXCEPT
                    ![x.ctl] = Done(what, p, x.ctl, after[n - 1][x.ctl], x.value)]
  IN  after[Len(settings)]

Applied(p) == ForEach(path[p], "apply", p, state)
ResetOf(p) == ForEach(path[p], "reset", p, state)

InPath(p, c) == \E i \in DOMAIN path[p] : path[p][i].ctl = c

Route == level = "loaded" /\ UNCHANGED <<level, tags, current, path>>

\* audio_route_apply_path() and audio_route_reset_path(): the mixer is left alone.
ApplyPath(p) ==
  Route /\ state' = [c \in Controls |->
                      [Applied(p)[c] EXCEPT !.paired = @ /\ ~ InPath(p, c)]]

ResetPath(p) ==
  Route /\ state' = [c \in Controls |->
                      [ResetOf(p)[c] EXCEPT
                         !.paired = @ /\ (InPath(p, c) => Total(state[c].held) = 0)]]

\* audio_route_apply_and_update_path()
ApplyAndUpdate(p) ==
  /\ Route /\ \A c \in Controls : state[c].held[p] < MaxActive
  /\ state' = ForEach(path[p], "forward", p, Applied(p))

\* audio_route_reset_and_update_path(): the last settings first.
ResetAndUpdate(p) ==
  Route /\ state' = ForEach(Reverse(path[p]), "reverse", p, ResetOf(p))

\* audio_route_force_reset_and_update_path()
ForceResetAndUpdate(p) ==
  Route /\ state' = ForEach(Reverse(path[p]), "reverse_reset", p, ResetOf(p))

\* audio_route_reset(): active_count stays.
ResetAll ==
  /\ Route
  /\ state' = [c \in Controls |->
                 [state[c] EXCEPT
                    !.new = CopiedOver(state[c].new, state[c].reset),
                    !.paired = state[c].paired /\ Total(state[c].held) = 0]]

\* audio_route_update_mixer()
UpdateMixer == Route /\ state' = [c \in Controls |-> SetIfChanged(c, state[c])]

RouteNext ==
  \/ \E t \in CtlTags : TopCtl(t) \/ PathCtl(t)
  \/ \E name \in Names : BeginPath(name) \/ SubPath(name)
  \/ BeginUnnamedPath \/ EndPath \/ Loaded \/ ResetAll \/ UpdateMixer
  \/ \E p \in DOMAIN path :
       ApplyPath(p) \/ ResetPath(p) \/ ApplyAndUpdate(p) \/ ResetAndUpdate(p)
         \/ ForceResetAndUpdate(p)

RouteSpec == RouteInit /\ [][RouteNext]_routeVars

-----------------------------------------------------------------------------
\* The values of a control.  Only those of a byte control may be in use in part.
Value(c) ==
  {v \in [cells : [1 .. NumValues[c] -> Int], size : 1 .. NumValues[c]] :
     Kind[c] # "tlv" => v.size = NumValues[c]}

Setting == [ctl : Controls, value : [cells : Seq(Int), size : Nat]]

MixerState(c) ==
  [hw : {h \in Seq(Int) : Len(h) \in 1 .. NumValues[c]},
   old : Value(c), new : Value(c), reset : Value(c),
   active_count : Nat, held : [Names -> Nat], paired : BOOLEAN]

\* Paths have known names; a control keeps the size it has in the mixer, in its state and
\* in all settings (ctl_values_copy(), lines 148-156, relies on it).
RouteTypeOK ==
  /\ level \in {"top", "path", "loaded"} /\ tags \in 0 .. MaxTags
  /\ DOMAIN path \subseteq Names /\ current \in DOMAIN path \cup {NoPath}
  /\ \A p \in DOMAIN path :
       /\ path[p] \in Seq(Setting)
       /\ \A i \in DOMAIN path[p] : path[p][i].value \in Value(path[p][i].ctl)
  /\ DOMAIN state = Controls
  /\ \A c \in Controls : state[c] \in MixerState(c)

\* Tags and nested paths never put a control into a path twice, which would
\* count its users twice (path_add_value() and path_add_setting(), lines 342, 392).
NoControlTwice ==
  \A p \in DOMAIN path : \A i, j \in DOMAIN path[p] :
    path[p][i].ctl = path[p][j].ctl => i = j

\* As long as the calls on the paths of a control pair, active_count says how many
\* applications of paths use it (lines 1059-1070).
ActiveCountExact ==
  \A c \in Controls :
    state[c].paired => state[c].active_count = Total(state[c].held)

\* ... and then nothing is left for a later audio_route_update_mixer() to send: the
\* mixer has the value that is wanted (lines 892-929, 1062-1068).
SettledControls ==
  level = "loaded" =>
    \A c \in Controls : state[c].paired =>
      state[c].hw = SubSeq(state[c].new.cells, 1, state[c].new.size)

\* ... and a control that no applied path uses has the value it had after loading
\* (lines 1089-1103).
IdleControlsAreReset ==
  level = "loaded" =>
    \A c \in Controls : state[c].paired /\ Total(state[c].held) = 0 =>
      state[c].hw = SubSeq(state[c].reset.cells, 1, state[c].reset.size)

\* ... while the reset of one path leaves a control alone that another application
\* still uses (lines 1062-1068).
SharedControlsAreKept ==
  [][\A c \in Controls :
       LET before == Total(state[c].held)
           after  == Total(state'[c].held)
       IN  state[c].paired /\ 0 < after /\ after < before => state'[c].hw = state[c].hw]_routeVars
=============================================================================
