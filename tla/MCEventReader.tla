---------------------------- MODULE MCEventReader ----------------------------
(***************************************************************************)
(* EventReader with every outcome of libyaml, at lines below, at and over  *)
(* the greatest position, and scalars below, at and over the limit.        *)
(***************************************************************************)
EXTENDS EventReader

CONSTANT Lines

Lengths(type) == IF type = "scalar"
                   THEN MaxScalarBytes - 1 .. MaxScalarBytes + 1 ELSE {0}

MCNatives ==
  UNION {[type : {type}, length : Lengths(type), line : Lines] : type \in NativeTypes}

=============================================================================
