--------------------------- MODULE MemoryChannels ---------------------------
(* The static placement of objects on memory channels (sim/types.hpp). *)
EXTENDS Integers

memory_channel_for_object(o, channel_count) ==
  IF o = 0 THEN 0 ELSE (o - 1) % channel_count
=============================================================================
