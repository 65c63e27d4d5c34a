------------------------------ MODULE Loggers -------------------------------
(***************************************************************************)
(* A log call of the program, logger->info(fmt, args...) << more, from the *)
(* level check to the sinks: the line_logger that carries the message, its *)
(* writing by fmt, its move to the caller, its end, at which the message   *)
(* is stamped, formatted by the pattern and given to every sink.  Another  *)
(* thread may change the logger's level meanwhile.                         *)
(***************************************************************************)
EXTENDS FormatReference, PatternFormatter

CONSTANTS
  Calls,      \* the calls: see CallOf in MCLoggers
  Sinks,      \* the sinks of the logger, each "plain" or "colour"
  Changes     \* bound on changes of the level

\* A format string is a sequence of characters.
ASSUME LoggersAssumption == \A c \in Calls : c.fmt \in Seq(STRING)

VARIABLES
  log_call,   \* the call under way
  threshold,  \* logger._level
  changes,    \* how often it changed
  phase,      \* where the call is
  enabled,    \* line_logger._enabled
  more,       \* what is still to be streamed to the line
  thrown,     \* the call has thrown
  out         \* the lines each sink has written

vars == <<formatter, log_call, threshold, changes, phase, enabled, more, thrown, out>>

Levels == 0..9

Init ==
  /\ log_call \in Calls
  /\ fmt = log_call.fmt /\ args = log_call.args
  /\ s = 1 /\ start = 1 /\ next = 0 /\ raw = <<>> /\ error = ""
  /\ threshold \in {log_call.level, log_call.level + 1} /\ changes = 0
  /\ phase = "begin" /\ enabled = FALSE /\ more = log_call.more /\ thrown = FALSE
  /\ out = [k \in 1..Len(Sinks) |-> <<>>]

-----------------------------------------------------------------------------
should_log == log_call.level >= threshold

begins(style, on) ==
  /\ phase = "begin" /\ log_call.style = style
  /\ enabled' = on

\* info(fmt, args...), error(fmt, args...), ...: a line_logger, enabled or not.
log_format ==
  /\ begins("format", should_log)
  /\ phase' = IF enabled' THEN "write" ELSE "return"
  /\ UNCHANGED <<formatter, log_call, threshold, changes, more, thrown, out>>

\* force_log(level, fmt, args...).
force_log ==
  /\ begins("force", TRUE)
  /\ phase' = "write"
  /\ UNCHANGED <<formatter, log_call, threshold, changes, more, thrown, out>>

\* What operator<< adds to the line for a value.
Streams(value) == raw \o visit(make_arg(value), NoSpec).text

\* info(value): the value, a string too, is streamed and never a format string.
log_value ==
  /\ begins("value", should_log)
  /\ raw' = IF enabled' THEN Streams(Head(more)) ELSE raw
  /\ more' = Tail(more)
  /\ phase' = "return"
  /\ UNCHANGED <<fmt, args, s, start, next, error, log_call, threshold, changes, thrown, out>>

\* info(): an empty line.
log_stream ==
  /\ begins("stream", should_log)
  /\ phase' = "return"
  /\ UNCHANGED <<formatter, log_call, threshold, changes, more, thrown, out>>

\* line_logger::write.
write_line ==
  /\ phase = "write" /\ FormatStep
  /\ UNCHANGED <<log_call, threshold, changes, phase, enabled, more, thrown, out>>

\* A FormatError becomes an spdlog_ex, which destroys the line on its way.
line_written ==
  /\ phase = "write" /\ Formatted
  /\ phase' = IF error = "" THEN "return" ELSE "unwind"
  /\ thrown' = (error # "")
  /\ UNCHANGED <<formatter, log_call, threshold, changes, enabled, more, out>>

-----------------------------------------------------------------------------
colours == <<"cyan", "cyan", "white", "bold white", "bold yellow", "red", "bold red",
             "bold white on red", "bold yellow on red", "reset">>

ostream_log(line) == line

\* Mutant: the colour is not taken back.
ansicolor_log_no_reset(line, level) == ostream_log(<<colours[level + 1]>> \o line)

ansicolor_log(line, level) == ostream_log(<<colours[level + 1]>> \o line \o <<"reset">>)

\* logger::_log_msg of a message with the given text, for every sink in turn.
log_msg(text) ==
  LET msg  == [logger_name |-> log_call.name, level |-> log_call.level, time |-> log_call.time,
               thread_id |-> log_call.thread, raw |-> text]
      line == format(compile_pattern(log_call.pattern), msg)
  IN  [k \in 1..Len(Sinks) |->
         Append(out[k], CASE Sinks[k] = "colour" -> ansicolor_log(line, msg.level)
                          [] OTHER               -> ostream_log(line))]

\* line_logger::~line_logger.
destroy_line(on, text) == out' = IF on THEN log_msg(text) ELSE out

\* Mutant: the moved line logs as well.
move_line_enabled == destroy_line(enabled, <<>>)

\* The line moved from has given its text away and is disabled.
move_line == destroy_line(FALSE, <<>>)

\* The line is returned: moved, or made in place.
return_line ==
  /\ phase = "return"
  /\ move_line \/ UNCHANGED out
  /\ phase' = "stream"
  /\ UNCHANGED <<formatter, log_call, threshold, changes, enabled, more, thrown>>

\* operator<<.
stream ==
  /\ phase = "stream" /\ more # <<>>
  /\ raw' = IF enabled THEN Streams(Head(more)) ELSE raw
  /\ more' = Tail(more)
  /\ UNCHANGED <<fmt, args, s, start, next, error, log_call, threshold, changes, phase, enabled,
                 thrown, out>>

end_of_line ==
  /\ phase = "unwind" \/ (phase = "stream" /\ more = <<>>)
  /\ destroy_line(enabled, raw)
  /\ phase' = "done"
  /\ UNCHANGED <<formatter, log_call, threshold, changes, enabled, more, thrown>>

\* logger::set_level of another thread.
set_level ==
  /\ changes < Changes /\ phase # "done"
  /\ \E l \in {log_call.level, log_call.level + 1} \ {threshold} : threshold' = l
  /\ changes' = changes + 1
  /\ UNCHANGED <<formatter, log_call, phase, enabled, more, thrown, out>>

Next ==
  \/ log_format \/ force_log \/ log_value \/ log_stream
  \/ write_line \/ line_written \/ return_line \/ stream \/ end_of_line \/ set_level

Spec == Init /\ [][Next]_vars

-----------------------------------------------------------------------------
(* Properties.                                                             *)

\* The parser of format strings (BasicFormatter::format) stays within the
\* string, whatever the string is: it never steps past the terminating zero.
StaysInside == s <= Len(fmt) + 1 /\ start <= Len(fmt) + 1

\* fmt writes what a format string means: every field the argument it refers
\* to, in the form its specification asks for, and where a field is not
\* right, an error with all that was written before (BasicFormatter, ArgList,
\* ArgMap, BasicWriter).
FormatsAsSpecified ==
  phase \in {"return", "unwind"} /\ enabled /\ log_call.tree # <<>> =>
    LET m == Meaning(log_call.tree, args)
    IN  raw = m.text /\ (error = "") = m.good

\* A call that was enabled when it began gives every sink one line, also when
\* the call throws or the level changes meanwhile, and a call that was not
\* gives none and does not throw, whatever its format string (line_logger,
\* logger::_log_if_enabled).
OneLinePerCall ==
  /\ phase = "done" => \A k \in 1..Len(Sinks) : Len(out[k]) = IF enabled THEN 1 ELSE 0
  /\ ~enabled => ~thrown /\ raw = <<>>

\* A pattern read character by character.
Expanded(pattern, msg) ==
  LET Step(c, ch) ==
        CASE c.flag -> [flag |-> FALSE,
                        text |-> c.text \o IF ch \in Flags THEN apply(flag_formatter(ch), msg, msg.time)
                                           ELSE <<"%", ch>>]
          [] OTHER  -> IF ch = "%" THEN [c EXCEPT !.flag = TRUE]
                                   ELSE [c EXCEPT !.text = Append(@, ch)]
  IN  FoldLeft(Step, [flag |-> FALSE, text |-> <<>>], pattern).text

\* A line is its pattern with the composite flags written out as their
\* comments in pattern_formatter_impl.h do, and a coloured sink leaves the
\* terminal as it was.
LinesExpand ==
  phase = "done" /\ enabled =>
    \A k \in 1..Len(Sinks) :
      LET msg  == [logger_name |-> log_call.name, level |-> log_call.level, time |-> log_call.time,
                   thread_id |-> log_call.thread, raw |-> raw]
          line == Expanded(Expand(log_call.pattern), msg) \o <<"eol">>
      IN  IF Sinks[k] = "plain" THEN out[k] = <<line>>
          ELSE LET l == out[k][1] IN
               Last(l) = "reset" /\ SubSeq(l, 2, Len(l) - 1) = line

=============================================================================
