\* Answers of up to two tokens, cached tokens told always or never.  Messages of up to two blocks, two calls
\* of tools.  Responses of up to five bytes, records of up to two.  Bodies that ask for no limit,
\* for zero, and for one within and beyond that of the model.
SPECIFICATION ExchangeSpec
CONSTANTS
  None = None
  MaxInt = 9
  Prompt = 2
  Cached = 1
  MaxTokens = 2
  Details = {{TRUE}, {FALSE}}
  Word = word
  Image = image
  call1 = call1
  call2 = call2
  Calls = {call1, call2}
  MaxMessages <- MCMaxMessages
  MaxBlocks = 2
  MaxSize = 2
  MaxFeed = 5
  ModelLimit = 2
  Asked = {0, 1, 3}
INVARIANTS TypesOK ExactIsTrue FlawlessNotBlamed ToldWhole ConversationKept FramingKept BodySound
\* Requests, answers and bytes come to an end.
CHECK_DEADLOCK FALSE
