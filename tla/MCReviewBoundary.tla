-------------------------- MODULE MCReviewBoundary --------------------------
EXTENDS ReviewBoundary
=============================================================================
