---------------------------- MODULE RangeFilter ----------------------------
(***************************************************************************)
(* filtered_tof of module/TOF/tof.c: a limiter followed by the average of  *)
(* the last FILTER_WINDOW values.  Distances are whole numbers of a unit   *)
(* small against MAX_ALLOWED_CHANGE; the code computes in float, here an   *)
(* average is rounded down.                                                *)
(***************************************************************************)
EXTENDS Integers

CONSTANTS
  MAX_DISTANCE,       (* 50 cm: above it a distance is taken for an error  *)
  MAX_ALLOWED_CHANGE  (* 10 cm: what one distance may add to the last      *)

ASSUME FilterAssumption ==
  /\ MAX_DISTANCE \in Nat \ {0}
  /\ MAX_ALLOWED_CHANGE \in Nat \ {0}

FILTER_WINDOW == 4

VARIABLES tof_buffer, buffer_index, last_valid_value, init_count,
          lowest, highest     (* history: of the distances accepted        *)

filterVars == <<tof_buffer, buffer_index, last_valid_value, init_count, lowest, highest>>

FilterTypeOK ==
  /\ tof_buffer \in [0 .. FILTER_WINDOW - 1 -> 0 .. MAX_DISTANCE]
  /\ buffer_index \in 0 .. FILTER_WINDOW - 1
  /\ last_valid_value \in 0 .. MAX_DISTANCE
  /\ init_count \in 0 .. FILTER_WINDOW
  /\ lowest \in 0 .. MAX_DISTANCE /\ highest \in 0 .. MAX_DISTANCE

FilterInit ==
  /\ tof_buffer = [i \in 0 .. FILTER_WINDOW - 1 |-> 0]
  /\ buffer_index = 0 /\ last_valid_value = 0 /\ init_count = 0
  /\ lowest = MAX_DISTANCE /\ highest = 0

(* Mutant: the warm-up ends one distance early.                            *)
FillingShort == init_count < FILTER_WINDOW - 1

Filling == init_count < FILTER_WINDOW

limit_filter(new_value) ==
  CASE Filling -> new_value
    [] ~Filling /\ new_value > last_valid_value + MAX_ALLOWED_CHANGE
         -> last_valid_value + MAX_ALLOWED_CHANGE
    [] ~Filling /\ new_value < last_valid_value - MAX_ALLOWED_CHANGE
         -> last_valid_value - MAX_ALLOWED_CHANGE
    [] OTHER -> new_value

Average(b) == (b[0] + b[1] + b[2] + b[3]) \div FILTER_WINDOW

NextIndex == (buffer_index + 1) % FILTER_WINDOW

(* filtered_tof with a raw value; one that is out of range, or that no     *)
(* frame was there for (0), leaves the last valid value.                   *)
filtered_tof(raw_value) ==
  IF raw_value <= 0 \/ raw_value > MAX_DISTANCE
    THEN UNCHANGED filterVars
    ELSE /\ tof_buffer' = [tof_buffer EXCEPT ![buffer_index] = limit_filter(raw_value)]
         /\ buffer_index' = NextIndex
         /\ last_valid_value' = Average(tof_buffer')
         /\ init_count' = IF Filling THEN init_count + 1 ELSE init_count
         /\ lowest' = IF raw_value < lowest THEN raw_value ELSE lowest
         /\ highest' = IF raw_value > highest THEN raw_value ELSE highest

-----------------------------------------------------------------------------
(* Once the window is full, the filter invents nothing: what it returns    *)
(* lies between the lowest and the highest distance ever accepted.         *)
FilterInHull ==
  ~Filling => /\ lowest <= last_valid_value /\ last_valid_value <= highest
              /\ \A i \in 0 .. FILTER_WINDOW - 1 :
                   lowest <= tof_buffer[i] /\ tof_buffer[i] <= highest
=============================================================================
