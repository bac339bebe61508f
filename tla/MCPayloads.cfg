SPECIFICATION MCSpec
CONSTANTS
  SeqRange = 16
  Width = 4
  MaxRecover = 2
  Payloads <- MCRedPayloads
  Heads = {0, 16, 128, 144}
  Extensions = {0, 16, 32, 48, 64, 96, 112, 128, 144, 160, 176, 192, 224, 240, 255}
  Bytes = {0, 143, 255}
  PictureIds = {0, 1, 127, 128, 300, 32767}
INVARIANTS HistoryExact RecoversTheLost BlocksApart DescriptorsSurvive WhatIsSentIsFound
