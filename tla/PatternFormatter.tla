-------------------------- MODULE PatternFormatter --------------------------
(***************************************************************************)
(* spdlog's pattern_formatter: a pattern compiled to a list of formatters, *)
(* one for each flag behind a '%' and one for each run of other            *)
(* characters, and the line they append to a message.  Names of days,      *)
(* months, levels and loggers are single symbols of a text.  A time is a   *)
(* struct tm, the nanoseconds of its second and its zone's minutes.        *)
(***************************************************************************)
EXTENDS FmtWriter

\* fmt::pad(n, width, '0') and a plain integer, as BasicWriter::operator<< has them.
pad(n, width) == write_int(n, [NoSpec EXCEPT !.width = width, !.fill = "0"]).text
plain(n) == write_int(n, NoSpec).text

days        == <<"Sun", "Mon", "Tue", "Wed", "Thu", "Fri", "Sat">>
full_days   == <<"Sunday", "Monday", "Tuesday", "Wednesday", "Thursday", "Friday", "Saturday">>
months      == <<"Jan", "Feb", "Mar", "Apr", "May", "June", "July", "Aug", "Sept", "Oct",
                 "Nov", "Dec">>
full_months == <<"January", "February", "March", "April", "May", "June", "July", "August",
                 "September", "October", "November", "December">>

level_names == <<"trace", "debug", "info", "notice", "warning", "error", "critical", "alert",
                 "emerg", "off">>
short_level_names == <<"T", "D", "I", "N", "W", "E", "C", "A", "M", "O">>
to_str(level)       == level_names[level + 1]
to_short_str(level) == short_level_names[level + 1]

-----------------------------------------------------------------------------
(* What a formatter appends: msg has the name, level, time, thread and raw *)
(* text; t is msg.time as the struct tm that format() made of it.          *)

ampm(t)  == IF t.hour >= 12 THEN "PM" ELSE "AM"

to12h(t) == IF t.hour > 12 THEN t.hour - 12 ELSE t.hour

pad_n_join2(v1, v2, sep)     == pad(v1, 2) \o <<sep>> \o pad(v2, 2)
pad_n_join3(v1, v2, v3, sep) == pad_n_join2(v1, v2, sep) \o <<sep>> \o pad(v3, 2)

year(t)   == t.year + 1900
month(t)  == t.mon + 1
quotient(n, d) == IF n >= 0 THEN n \div d ELSE -((-n) \div d)
remainder(n, d) == n - d * quotient(n, d)

name_formatter(msg, t)        == <<msg.logger_name>>
level_formatter(msg, t)       == <<to_str(msg.level)>>
short_level_formatter(msg, t) == <<to_short_str(msg.level)>>
a_formatter(msg, t) == <<days[t.wday + 1]>>
A_formatter(msg, t) == <<full_days[t.wday + 1]>>
b_formatter(msg, t) == <<months[t.mon + 1]>>
B_formatter(msg, t) == <<full_months[t.mon + 1]>>
c_formatter(msg, t) ==
  a_formatter(msg, t) \o <<" ">> \o b_formatter(msg, t) \o <<" ">> \o plain(t.mday)
    \o <<" ">> \o pad_n_join3(t.hour, t.min, t.sec, ":") \o <<" ">> \o plain(year(t))
C_formatter(msg, t) == pad(t.year % 100, 2)
D_formatter(msg, t) == pad_n_join3(month(t), t.mday, t.year % 100, "/")
Y_formatter(msg, t) == plain(year(t))
m_formatter(msg, t) == pad(month(t), 2)
d_formatter(msg, t) == pad(t.mday, 2)
H_formatter(msg, t) == pad(t.hour, 2)
I_formatter(msg, t) == pad(to12h(t), 2)
M_formatter(msg, t) == pad(t.min, 2)
S_formatter(msg, t) == pad(t.sec, 2)
e_formatter(msg, t) == pad(msg.time.ns \div 1000000, 3)
f_formatter(msg, t) == pad(msg.time.ns \div 1000, 6)
F_formatter(msg, t) == pad(msg.time.ns, 9)
p_formatter(msg, t) == <<ampm(t)>>
r_formatter(msg, t) == pad_n_join3(to12h(t), t.min, t.sec, ":") \o <<" ", ampm(t)>>
R_formatter(msg, t) == pad_n_join2(t.hour, t.min, ":")
T_formatter(msg, t) == pad_n_join3(t.hour, t.min, t.sec, ":")

\* The quotient towards zero and the remainder of its sign.
z_formatter(msg, t) ==
  LET h == quotient(t.gmtoff, 60)
  IN  (IF h >= 0 THEN <<"+">> ELSE <<>>) \o pad_n_join2(h, remainder(t.gmtoff, 60), ":")

t_formatter(msg, t) == <<msg.thread_id>>
v_formatter(msg, t) == msg.raw

\* Mutant: the milliseconds without their zeroes.
full_formatter_short(msg, t) ==
  <<"[">> \o plain(year(t)) \o <<"-">> \o pad(month(t), 2) \o <<"-">> \o pad(t.mday, 2)
    \o <<" ">> \o pad_n_join3(t.hour, t.min, t.sec, ":") \o <<".">>
    \o plain(msg.time.ns \div 1000000) \o <<"]", " ">>
    \o <<"[", msg.logger_name, "]", " ", "[", to_str(msg.level), "]", " ">> \o msg.raw

full_formatter(msg, t) ==
  <<"[">> \o plain(year(t)) \o <<"-">> \o pad(month(t), 2) \o <<"-">> \o pad(t.mday, 2)
    \o <<" ">> \o pad_n_join3(t.hour, t.min, t.sec, ":") \o <<".">>
    \o pad(msg.time.ns \div 1000000, 3) \o <<"]", " ">>
    \o <<"[", msg.logger_name, "]", " ", "[", to_str(msg.level), "]", " ">> \o msg.raw

ch_formatter(ch)          == [flag |-> "ch", str |-> <<ch>>]
aggregate_formatter(str)  == [flag |-> "aggregate", str |-> str]
flag_formatter(flag)      == [flag |-> flag, str |-> <<>>]

-----------------------------------------------------------------------------
Flags == {"n", "l", "L", "t", "v", "a", "A", "b", "h", "B", "c", "C", "Y", "D", "x", "m", "d",
          "H", "I", "M", "S", "e", "f", "F", "p", "r", "R", "T", "X", "z", "+"}

handle_flag(flag) ==
  IF flag \in Flags THEN <<flag_formatter(flag)>> ELSE <<ch_formatter("%"), ch_formatter(flag)>>

\* Mutant: a run of characters is not appended at the end of the pattern.
compile_pattern_no_rest(pattern) ==
  LET Step(c, ch) ==
        CASE c.flag -> [c EXCEPT !.flag = FALSE, !.out = @ \o handle_flag(ch)]
          [] ~c.flag /\ ch = "%" ->
               [flag |-> TRUE, chars |-> <<>>,
                out |-> c.out \o IF c.chars = <<>> THEN <<>> ELSE <<aggregate_formatter(c.chars)>>]
          [] OTHER -> [c EXCEPT !.chars = Append(@, ch)]
  IN  FoldLeft(Step, [flag |-> FALSE, chars |-> <<>>, out |-> <<>>], pattern).out

\* A '%' at the end of the pattern is dropped.
compile_pattern(pattern) ==
  LET user_chars(c) == IF c.chars = <<>> THEN <<>> ELSE <<aggregate_formatter(c.chars)>>
      Step(c, ch) ==
        CASE c.flag -> [c EXCEPT !.flag = FALSE, !.out = @ \o handle_flag(ch)]
          [] ~c.flag /\ ch = "%" ->
               [flag |-> TRUE, chars |-> <<>>, out |-> c.out \o user_chars(c)]
          [] OTHER -> [c EXCEPT !.chars = Append(@, ch)]
      all == FoldLeft(Step, [flag |-> FALSE, chars |-> <<>>, out |-> <<>>], pattern)
  IN  all.out \o user_chars(all)

apply(f, msg, t) ==
  CASE f.flag \in {"ch", "aggregate"} -> f.str
    [] f.flag = "n" -> name_formatter(msg, t)
    [] f.flag = "l" -> level_formatter(msg, t)
    [] f.flag = "L" -> short_level_formatter(msg, t)
    [] f.flag = "t" -> t_formatter(msg, t)
    [] f.flag = "v" -> v_formatter(msg, t)
    [] f.flag = "a" -> a_formatter(msg, t)
    [] f.flag = "A" -> A_formatter(msg, t)
    [] f.flag \in {"b", "h"} -> b_formatter(msg, t)
    [] f.flag = "B" -> B_formatter(msg, t)
    [] f.flag = "c" -> c_formatter(msg, t)
    [] f.flag = "C" -> C_formatter(msg, t)
    [] f.flag = "Y" -> Y_formatter(msg, t)
    [] f.flag \in {"D", "x"} -> D_formatter(msg, t)
    [] f.flag = "m" -> m_formatter(msg, t)
    [] f.flag = "d" -> d_formatter(msg, t)
    [] f.flag = "H" -> H_formatter(msg, t)
    [] f.flag = "I" -> I_formatter(msg, t)
    [] f.flag = "M" -> M_formatter(msg, t)
    [] f.flag = "S" -> S_formatter(msg, t)
    [] f.flag = "e" -> e_formatter(msg, t)
    [] f.flag = "f" -> f_formatter(msg, t)
    [] f.flag = "F" -> F_formatter(msg, t)
    [] f.flag = "p" -> p_formatter(msg, t)
    [] f.flag = "r" -> r_formatter(msg, t)
    [] f.flag = "R" -> R_formatter(msg, t)
    [] f.flag \in {"T", "X"} -> T_formatter(msg, t)
    [] f.flag = "z" -> z_formatter(msg, t)
    [] OTHER -> full_formatter(msg, t)

\* pattern_formatter::format: the line, with its end.
format(formatters, msg) ==
  FlattenSeq([i \in 1..Len(formatters) |-> apply(formatters[i], msg, msg.time)]) \o <<"eol">>

-----------------------------------------------------------------------------
(* The patterns the comments give the composite flags.                     *)

Expansion ==
  "R" :> <<"%", "H", ":", "%", "M">>
  @@ "T" :> <<"%", "H", ":", "%", "M", ":", "%", "S">>
  @@ "X" :> <<"%", "H", ":", "%", "M", ":", "%", "S">>
  @@ "D" :> <<"%", "m", "/", "%", "d", "/", "%", "C">>
  @@ "x" :> <<"%", "m", "/", "%", "d", "/", "%", "C">>
  @@ "r" :> <<"%", "I", ":", "%", "M", ":", "%", "S", " ", "%", "p">>
  @@ "+" :> <<"[", "%", "Y", "-", "%", "m", "-", "%", "d", " ", "%", "H", ":", "%", "M", ":",
              "%", "S", ".", "%", "e", "]", " ", "[", "%", "n", "]", " ", "[", "%", "l", "]",
              " ", "%", "v">>

\* A pattern with its composite flags written out.
Expand(pattern) ==
  LET Step(c, ch) ==
        CASE c.flag -> [flag |-> FALSE,
                        out |-> c.out \o IF ch \in DOMAIN Expansion THEN Expansion[ch]
                                         ELSE <<"%", ch>>]
          [] OTHER  -> IF ch = "%" THEN [c EXCEPT !.flag = TRUE]
                                   ELSE [c EXCEPT !.out = Append(@, ch)]
  IN  FoldLeft(Step, [flag |-> FALSE, out |-> <<>>], pattern).out

=============================================================================
