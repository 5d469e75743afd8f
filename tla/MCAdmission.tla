---------------------------- MODULE MCAdmission ----------------------------
EXTENDS Admission, TLC, FiniteSets

\* All texts of one length: the lengths matter to CardList's own instance.
MCSize == [d \in Snapshots |-> 1]

\* A device that sets and clears: the other modes do one of the two.
MCModeOf == [v \in Devices |-> "AUTO"]
=============================================================================
