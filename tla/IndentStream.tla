---------------------------- MODULE IndentStream ----------------------------
(***************************************************************************)
(* An indenting output stream on top of another one, as in nested dumps.   *)
(* Each has a level and writes its indentation before the first character  *)
(* of a line, however often the sink at the bottom fails. A character that *)
(* was not taken is offered again. A level that changes between a newline  *)
(* and the first character counts for that line only if the stream still   *)
(* owes all of its indentation, and there is some: a level raised from 0   *)
(* after the newline does not, against the comment on correct_spaces.      *)
(*                                                                         *)
(* Code: include/utils/indent_ostream.h                                    *)
(***************************************************************************)
EXTENDS Integers

CONSTANTS LevelSpaces,  \* level_spaces_ of the streams "outer" and "inner"
          MaxSpaces     \* bound on the indentation of a stream

Streams == {"outer", "inner"}   \* the inner one writes to the sink

ASSUME SpacesAssumption == LevelSpaces \in [Streams -> Nat] /\ MaxSpaces \in Nat

VARIABLES cur,   \* cur_spaces_ of the streams
          rem,   \* remaining_spaces_ of the streams
          pend,  \* the kind of character that was offered and not taken
          line   \* what the sink has of the current line, see below

\* spaces is the indentation that came out, started whether anything follows it,
\* due the indentation that the levels asked for when the line was started, and
\* first whether no newline was written yet. Two histories of how a level changed
\* before the line was started: late, when nothing of the line had come out and
\* the stream owed nothing, since its level was 0; torn, when a part of the
\* indentation had come out, or by a reset.
NewLine == [spaces |-> 0, started |-> FALSE, due |-> 0, first |-> FALSE,
            late |-> FALSE, torn |-> FALSE]

stream_vars == <<cur, rem, pend, line>>

both(f) == f["outer"] + f["inner"]

StreamInit ==
  /\ cur = [s \in Streams |-> 0]
  /\ rem = [s \in Streams |-> 0]
  /\ pend = "none"
  /\ line = [NewLine EXCEPT !.first = TRUE]

-----------------------------------------------------------------------------
(* Characters                                                              *)

\* A newline makes both streams owe their indentation, even if the sink fails.
put_newline ==
  /\ pend # "char"
  /\ rem' = cur
  /\ \/ pend' = "none" /\ line' = NewLine
     \/ pend' = "newline" /\ UNCHANGED line
  /\ UNCHANGED cur

\* What the streams still owe when the sink took k spaces. A space of the outer
\* stream is a character for the inner one, which indents it first.
owed(k) ==
  IF k <= rem["inner"] THEN [rem EXCEPT !["inner"] = @ - k]
  ELSE [outer |-> both(rem) - k, inner |-> 0]

\* The indentation comes out, and then the character.
put_char ==
  /\ pend # "newline"
  /\ rem' = [s \in Streams |-> 0]
  /\ pend' = "none"
  /\ line' = [line EXCEPT !.spaces = @ + both(rem), !.started = TRUE,
                          !.due = IF line.started THEN @ ELSE IF line.first THEN 0 ELSE both(cur)]
  /\ UNCHANGED cur

\* Mutant: the space that failed is counted.
put_char_fails_counted ==
  /\ pend # "newline"
  /\ \E k \in 0..both(rem) :
       /\ rem' = owed(IF k < both(rem) THEN k + 1 ELSE k)
       /\ line' = [line EXCEPT !.spaces = @ + k]
  /\ pend' = "char"
  /\ UNCHANGED cur

\* The sink fails after k spaces, or at the character.
put_char_fails ==
  /\ pend # "newline"
  /\ \E k \in 0..both(rem) :
       /\ rem' = owed(k)
       /\ line' = [line EXCEPT !.spaces = @ + k]
  /\ pend' = "char"
  /\ UNCHANGED cur

-----------------------------------------------------------------------------
(* Levels                                                                  *)

\* Mutant: the indentation is corrected wherever the line is.
correct_spaces_always(s, spaces) == rem' = [rem EXCEPT ![s] = spaces]

\* correct_spaces: a stream that still owes something owes all of its new level.
correct_spaces(s, spaces) ==
  rem' = IF rem[s] # 0 THEN [rem EXCEPT ![s] = spaces] ELSE rem

\* Before a line is started its indentation follows the level, but when the
\* stream owes nothing or has already written a part of it.
noted(s) ==
  line' = IF line.started \/ line.first THEN line
          ELSE [line EXCEPT !.late = @ \/ (rem[s] = 0 /\ line.spaces = 0),
                            !.torn = @ \/ IF rem[s] = 0 THEN line.spaces # 0 ELSE rem[s] # cur[s]]

\* increase_level and decrease_level, which assert that the level fits.
change_level(s, spaces) ==
  /\ spaces \in 0..MaxSpaces
  /\ cur' = [cur EXCEPT ![s] = spaces]
  /\ correct_spaces(s, spaces)
  /\ noted(s)
  /\ UNCHANGED pend

increase_level(s) == change_level(s, cur[s] + LevelSpaces[s])
decrease_level(s) == change_level(s, cur[s] - LevelSpaces[s])

\* reset forgets the level but not what is owed for it, which comes out if the
\* line was not started.
reset(s) ==
  /\ cur' = [cur EXCEPT ![s] = 0]
  /\ line' = IF line.started \/ line.first THEN line
             ELSE [line EXCEPT !.torn = @ \/ cur[s] # 0]
  /\ UNCHANGED <<rem, pend>>

StreamNext ==
  \/ put_newline \/ put_char \/ put_char_fails
  \/ \E s \in Streams : increase_level(s) \/ decrease_level(s) \/ reset(s)

StreamSpec == StreamInit /\ [][StreamNext]_stream_vars

-----------------------------------------------------------------------------
StreamTypeOK ==
  /\ cur \in [Streams -> Nat] /\ rem \in [Streams -> Nat]
  /\ pend \in {"none", "char", "newline"}
  /\ line \in [spaces : Nat, started : BOOLEAN, due : Nat, first : BOOLEAN,
               late : BOOLEAN, torn : BOOLEAN]

\* A line is never indented further than both streams ask for when its first
\* character is written, and by exactly as much unless it is late, however often
\* the sink failed in between: what was written is not written again, and what
\* failed is. Where correct_spaces works, for a stream that still owes all of a
\* level that is not 0, the line follows the level up and down. A late line may
\* have too little: see LevelsFollowed. Of torn ones, whose indentation was
\* begun for another level, nothing is said.
IndentedOnce ==
  line.started /\ ~line.torn =>
    /\ line.spaces <= line.due
    /\ line.late \/ line.spaces = line.due

\* The comment on correct_spaces: a request to change the level just after a
\* newline, when nothing of the line came out yet, counts for that line. It does
\* not hold of late lines: at level 0 nothing is owed, and correct_spaces takes
\* that for a line whose indentation is already written.
LevelsFollowed == line.started /\ ~line.torn => line.spaces = line.due

\* Lines without characters have no indentation: it waits for a character.
BlankLinesEmpty == ~line.started /\ pend # "char" => line.spaces = 0

\* No space gets into a line once it is started, whatever the levels do.
LeadingOnly ==
  [][line.started /\ line'.started => line'.spaces = line.spaces]_stream_vars
=============================================================================
