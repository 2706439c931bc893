\* Two readers, one that marks and one that passes after_id; two answers, one upload.
CONSTANTS
  a = a
  b = b
  w = w
  Uploader = {w}
  MaxPieces = 2
  MaxUploads = 1
  Reader = {a, b}
  Audience <- ToOneOrBoth
  Marking = {a}
  Rereading = {b}
  Inline = {}
  Listing = {b}
  Limit = 1
  Polls = 1
  MaxReply = 2
SPECIFICATION FairSpec
CHECK_DEADLOCK FALSE
INVARIANTS SealedTextIsWhatWasSent NoReplyIsSkipped
PROPERTIES OpenedAreTheNewest EveryReplyArrives
