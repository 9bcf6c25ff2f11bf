SPECIFICATION Spec
CONSTANT Objects <- All
INVARIANTS WalksAgree RoundTrip
