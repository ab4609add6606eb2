------------------------------ MODULE InkConfig ------------------------------
(***************************************************************************)
(* assignments/a4/inklings/cink: main loads config/inklings_config.yaml    *)
(* with a parser of its own (config.c) and initialises the simulation      *)
(* (sim.c).  The file is read line by line; next to what the parser makes  *)
(* of a line, file records what the line says in YAML.  A value is what    *)
(* stands after the colon, trimmed: a number, the word true, or a text, by *)
(* its length, quotes included.                                            *)
(***************************************************************************)
EXTENDS Integers, Sequences

CONSTANTS
    FileKeys,   \* the keys that occur in files, of Keys below
    Values,     \* [word |-> "number", n |-> 8], [word |-> "true", n |-> 0], ...
    MaxLines

Top == {"logs", "simulation", "ink", "timing", "event_loop", "producers", "io", "ui"}
Nested == {"icon_directions", "messages"}
Candidates == 1 .. 3    \* config, ../config, ../../config

(* The keys that load_config knows, by section. *)
KeysOf(section) ==
    CASE section = "logs" -> {"dir", "actions"}
      [] section = "simulation" -> {"default_rows", "default_cols", "min_rows", "min_cols",
           "min_threads", "default_threads", "draw_colored_traveler_heads"}
      [] section = "ink" -> {"max_level", "max_add_ink", "refill_ink", "initial_red_level",
           "initial_green_level", "initial_blue_level"}
      [] section = "timing" -> {"min_producer_sleep_us", "producer_sleep_us",
           "inkling_sleep_us", "inkling_sleep_step_us", "inkling_sleep_min_us",
           "inkling_sleep_max_us", "arg_warning_sleep_s", "shutdown_delay_s",
           "event_loop_interval_ms", "event_loop_sleep_s"}
      [] section = "event_loop" -> {"max_recursive_depth"}
      [] section = "producers" -> {"speedup_factor_num", "speedup_factor_den",
           "slowdown_factor_num", "slowdown_factor_den"}
      [] section = "io" -> {"pipe_path"}
      [] section = "icon_directions" -> {"north", "west", "south", "east", "none"}
      [] section = "messages" -> {"ink_tank_header", "live_threads_label", "no_args_message",
           "quit_no_threads_message", "quit_esc_message", "quit_generic_message"}
      [] OTHER -> {}

Keys == UNION {{<<s, k>> : k \in KeysOf(s)} : s \in Top \union Nested}

(* sizeof the arrays of AppConfig. *)
SizeOf(section, key) ==
    CASE section = "icon_directions" -> 8
      [] key = "ink_tank_header" -> 128
      [] key = "live_threads_label" -> 64
      [] OTHER -> 256

(* What sim_init copies. *)
SimFields ==
    {<<"simulation", "default_rows">>, <<"simulation", "default_cols">>,
     <<"ink", "initial_red_level">>, <<"ink", "initial_green_level">>,
     <<"ink", "initial_blue_level">>}

VARIABLES
    stage,      \* "find", "parse", "init", "run", or "failed"
    section,    \* load_config's section
    cfg,        \* AppConfig; 0 is what memset leaves
    state,      \* SimState: num_rows, num_cols and the levels, by origin
    place, opened, file, lines  \* the file so far: section, headers, contents, length

vars == <<stage, section, cfg, state, place, opened, file, lines>>

Init ==
    /\ stage = "find" /\ section = "none" /\ place = "none"
    /\ cfg = [k \in Keys |-> 0] /\ file = [k \in Keys |-> 0]
    /\ state = [f \in SimFields |-> -1]
    /\ opened = <<>> /\ lines = 0

(* The nearest directory config, with or without the file in it. *)
find_relative_dir(dirs) ==
    {c \in Candidates : dirs[c] # "absent" /\ \A d \in 1 .. c - 1 : dirs[d] = "absent"}

(* load_config opens the file there and clears cfg. *)
load_config ==
    /\ stage = "find"
    /\ \E dirs \in [Candidates -> {"absent", "empty", "config"}] :
         stage' = IF \E c \in find_relative_dir(dirs) : dirs[c] = "config"
                  THEN "parse" ELSE "failed"
    /\ UNCHANGED <<section, cfg, state, place, opened, file, lines>>

Line == stage = "parse" /\ lines < MaxLines /\ lines' = lines + 1
Opened(s) == \E j \in DOMAIN opened : opened[j] = s

(* What a header makes of section. *)
TopSection_sticky(s) == IF s = "ink" THEN section ELSE s
TopSection(s) == s
NestedSection(s) == IF section = "ui" THEN s ELSE section

TopHeader ==
    /\ Line
    /\ \E s \in Top :
         /\ ~Opened(s) /\ place' = s /\ section' = TopSection(s)
         /\ opened' = Append(opened, s)
    /\ UNCHANGED <<stage, cfg, state, file>>

(* A nested header elsewhere than right under ui: reads as a key. *)
NestedHeader ==
    /\ Line /\ place \in {"ui"} \union Nested
    /\ \E s \in Nested :
         /\ ~Opened(s) /\ place' = s /\ section' = NestedSection(s)
         /\ opened' = Append(opened, s)
    /\ UNCHANGED <<stage, cfg, state, file>>

strip_quotes(v) ==
    IF v.word = "quoted" /\ v.n >= 2 THEN [word |-> "text", n |-> v.n - 2] ELSE v

parse_bool_or_int(v) ==
    CASE v.word = "true" -> 1 [] v.word = "number" -> v.n [] OTHER -> 0

Number(v) == IF v.word = "number" THEN v.n ELSE 0
Text(v, size) == IF v.n > size - 1 THEN size - 1 ELSE v.n

(* atoi, parse_bool_or_int, or snprintf into an array. *)
Stored(s, k, v) ==
    CASE s \in {"logs", "io", "icon_directions", "messages"} -> Text(v, SizeOf(s, k))
      [] k = "draw_colored_traveler_heads" -> parse_bool_or_int(v)
      [] OTHER -> Number(v)

(* What a value is in YAML, and the values a file may give a key. *)
Says(v) == CASE v.word = "true" -> 1 [] v.word = "quoted" -> v.n - 2 [] OTHER -> v.n
Fits(sk, v) ==
    IF sk[1] \in {"logs", "io", "icon_directions", "messages"}
    THEN v.word \in {"text", "quoted"} /\ Says(v) < SizeOf(sk[1], sk[2])
    ELSE v.word = "number" \/ (v.word = "true" /\ sk[2] = "draw_colored_traveler_heads")

KeyLine ==
    /\ Line
    /\ \E sk \in FileKeys, v \in Values :
         /\ sk[1] = place /\ Fits(sk, v)
         /\ file' = [file EXCEPT ![sk] = Says(v)]
         /\ cfg' = IF sk[2] \in KeysOf(section)
                   THEN [cfg EXCEPT ![<<section, sk[2]>>] =
                                      Stored(section, sk[2], strip_quotes(v))] ELSE cfg
    /\ UNCHANGED <<stage, section, state, place, opened>>

EndOfFile ==
    /\ stage = "parse" /\ stage' = "init"
    /\ UNCHANGED <<section, cfg, state, place, opened, file, lines>>

sim_init ==
    /\ stage = "init" /\ stage' = "run"
    /\ state' = [f \in SimFields |-> cfg[f]]
    /\ UNCHANGED <<section, cfg, place, opened, file, lines>>

Next ==
    \/ load_config \/ TopHeader \/ NestedHeader \/ KeyLine \/ EndOfFile \/ sim_init

Spec == Init /\ [][Next]_vars

-----------------------------------------------------------------------------
(* "configuration structs that mirror config/inklings_config.yaml": what    *)
(* the file says under a section is what the program gets.                  *)
ConfigMirrorsFile == stage = "run" => cfg = file

(* The keys of the second subsection of ui. *)
Second == {s \in Nested : \E j, k \in DOMAIN opened :
                            j < k /\ opened[j] \in Nested /\ opened[k] = s}

(* Every value reaches its own field, whatever the order of the sections,   *)
(* except those of the second subsection of ui, which reach none: the first *)
(* one has taken section away from SEC_UI.  The simulation starts from the  *)
(* sizes and levels of the file.                                            *)
ValuesReachFields ==
    /\ \A k \in Keys : cfg[k] = IF k[1] \in Second THEN 0 ELSE file[k]
    /\ stage = "run" => \A f \in SimFields : state[f] = file[f]
=============================================================================
