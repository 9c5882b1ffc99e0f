------------------------- MODULE MCClientStatistics -------------------------
\* Instances of the statistics for TLC.
EXTENDS ClientStatistics

Timed == [measurement |-> "TIME_BASED", playback |-> FALSE, reply_every |-> 2,
          maxSequenceNo |-> 10, warmup |-> 1, cooldown |-> 1,
          warmup_num |-> 0, number_test_target |-> 0]
Number == [measurement |-> "NUMBER_BASED", playback |-> FALSE, reply_every |-> 1,
           maxSequenceNo |-> 4, warmup |-> 1, cooldown |-> 1,
           warmup_num |-> 1, number_test_target |-> 2]
PlaybackTest == [Timed EXCEPT !.playback = TRUE, !.reply_every = 1, !.maxSequenceNo = 3]
AllSettings == {Timed, Number, PlaybackTest}
=============================================================================
